--------------------------- MODULE SessionProofs ---------------------------
(***************************************************************************)
(* Proofs about Session.tla, for every value of the constants: the type    *)
(* invariant, that a finished session stays finished, and what the methods *)
(* of Session do to the pending operations, to the frames on their way to  *)
(* the client and to the egress connection, which SessionSafetyProofs puts *)
(* together.                                                               *)
(*                                                                         *)
(* Each method of Session has one lemma in the first part: it maps a       *)
(* session state to a session state, and does not take back a              *)
(* disconnection.                                                          *)
(***************************************************************************)
EXTENDS SessionProperties, FiniteSetTheorems, TLAPS

\* The number of writes of a flow that are blocked on a socket is a number.
LEMMA BlockedOfType ==
    ASSUME NEW q \in Seq(PendingWrite), NEW d
    PROVE  BlockedOf(q, d) \in Nat
<1>1. IsFiniteSet(1..Len(q))
  BY FS_Interval
<1>2. {i \in DOMAIN q : q[i].flow = d} \subseteq 1..Len(q)
  OBVIOUS
<1>3. IsFiniteSet({i \in DOMAIN q : q[i].flow = d})
  BY <1>1, <1>2, FS_Subset
<1>. QED  BY <1>3, FS_CardinalityType DEF BlockedOf

\* readData starts a read or queues its failure.
LEMMA ReadDataType ==
    ASSUME NEW t \in SessionType, NEW d \in FlowType
    PROVE  /\ ReadData(t, d) \in SessionType
           /\ ReadData(t, d).disc = t.disc
<1>1. [t.bad EXCEPT ![d] = @ + 1] \in [FlowType -> Nat]
  BY DEF SessionType
<1>2. [t.rd EXCEPT ![d] = @ + 1] \in [FlowType -> Nat]
  BY DEF SessionType
<1>3. /\ [t EXCEPT !.bad[d] = @ + 1] \in SessionType
      /\ [t EXCEPT !.bad[d] = @ + 1].disc = t.disc
  BY <1>1, Zenon DEF SessionType
<1>4. /\ [t EXCEPT !.rd[d] = @ + 1] \in SessionType
      /\ [t EXCEPT !.rd[d] = @ + 1].disc = t.disc
  BY <1>2, Zenon DEF SessionType
<1>. QED  BY <1>3, <1>4, Zenon DEF ReadData

\* The types of the fields of a session that its methods update.
LEMMA FieldTypes ==
    ASSUME NEW t \in SessionType
    PROVE  /\ t.rd \in [FlowType -> Nat] /\ t.wd \in [FlowType -> Nat]
           /\ t.ab \in [FlowType -> Nat] /\ t.bad \in [FlowType -> Nat]
           /\ t.in \in [FlowType -> Seq(Frame)]
           /\ t.out \in [FlowType -> Seq(Frame)]
           /\ t.buf \in [FlowType -> Seq(Frame)]
           /\ t.blocked \in [FlowType -> Seq(PendingWrite)]
           /\ t.sock \in [FlowType -> {"closed", "connecting", "open", "shut"}]
           /\ t.fin \in [FlowType -> BOOLEAN]
           /\ t.ep \in Nat /\ t.retry \in Nat
           /\ t.conn \in State /\ t.eg \in Pipeline
           /\ t.posted \in SUBSET {"both", "backend"}
BY Zenon DEF SessionType

\* Updating a per flow function at one flow keeps its type.
LEMMA FlowUpdate ==
    ASSUME NEW S, NEW f \in [FlowType -> S], NEW x \in S, NEW d \in FlowType
    PROVE  [f EXCEPT ![d] = x] \in [FlowType -> S]
OBVIOUS

\* handleWriteData sends, blocks or fails, and nothing else.
LEMMA HandleWriteDataType ==
    ASSUME NEW t \in SessionType, NEW d \in FlowType, NEW side \in FlowType,
           NEW data \in Seq(Frame)
    PROVE  LET u == HandleWriteData(t, d, side, data)
           IN  u \in SessionType /\ u.disc = t.disc
<1>. DEFINE failed == [t EXCEPT !.bad[d] = @ + 1]
            sent == [t EXCEPT !.wd[d] = @ + 1, !.out[side] = @ \o data]
            w == [flow |-> d, msgs |-> data]
            waits == [t EXCEPT !.blocked[side] = Append(@, w)]
<1>1. /\ [t.bad EXCEPT ![d] = @ + 1] \in [FlowType -> Nat]
      /\ [t.wd EXCEPT ![d] = @ + 1] \in [FlowType -> Nat]
  BY FieldTypes
<1>2. [t.out EXCEPT ![side] = @ \o data] \in [FlowType -> Seq(Frame)]
  <2>1. t.out[side] \in Seq(Frame)
    BY FieldTypes, Zenon
  <2>2. t.out[side] \o data \in Seq(Frame)
    BY <2>1
  <2>. QED  BY <2>2, FlowUpdate, FieldTypes, Zenon
<1>3. [t.blocked EXCEPT ![side] = Append(@, w)]
        \in [FlowType -> Seq(PendingWrite)]
  <2>1. t.blocked[side] \in Seq(PendingWrite)
    BY FieldTypes, Zenon
  <2>2. w \in PendingWrite
    BY DEF PendingWrite
  <2>. HIDE DEF w
  <2>3. Append(t.blocked[side], w) \in Seq(PendingWrite)
    BY <2>1, <2>2
  <2>. QED  BY <2>3, FlowUpdate, FieldTypes, Zenon
<1>5. failed \in SessionType /\ failed.disc = t.disc
  BY <1>1, Zenon DEF SessionType
<1>6. sent \in SessionType /\ sent.disc = t.disc
  BY <1>1, <1>2, Zenon DEF SessionType
<1>7. waits \in SessionType /\ waits.disc = t.disc
  BY <1>3, Zenon DEF SessionType
<1>8. HandleWriteData(t, d, side, data) \in {failed, sent, waits}
  BY DEF HandleWriteData
<1>. HIDE DEF failed, sent, waits
<1>. QED  BY <1>5, <1>6, <1>7, <1>8, Zenon

\* close() turns what is pending on the socket into aborted operations.
LEMMA CloseType ==
    ASSUME NEW t \in SessionType, NEW side \in FlowType
    PROVE  Close(t, side) \in SessionType /\ Close(t, side).disc = t.disc
<1>. DEFINE ab == [d \in FlowType |->
                      t.ab[d] + BlockedOf(t.blocked[side], d)
                              + (IF d = side THEN t.rd[d] ELSE 0)]
            closed == [t EXCEPT !.sock[side] = "closed", !.ab = ab,
                                !.rd[side] = 0, !.blocked[side] = <<>>,
                                !.in[side] = <<>>]
<1>1. \A d \in FlowType : BlockedOf(t.blocked[side], d) \in Nat
  BY BlockedOfType, FieldTypes, Zenon
<1>2. ab \in [FlowType -> Nat]
  BY <1>1, FieldTypes
<1>3. /\ [t.sock EXCEPT ![side] = "closed"]
            \in [FlowType -> {"closed", "connecting", "open", "shut"}]
      /\ [t.rd EXCEPT ![side] = 0] \in [FlowType -> Nat]
  BY FieldTypes
<1>4. <<>> \in Seq(Frame) /\ <<>> \in Seq(PendingWrite)
  OBVIOUS
<1>5. /\ [t.in EXCEPT ![side] = <<>>] \in [FlowType -> Seq(Frame)]
      /\ [t.blocked EXCEPT ![side] = <<>>] \in [FlowType -> Seq(PendingWrite)]
  BY <1>4, FlowUpdate, FieldTypes, Zenon
<1>6. Close(t, side) \in {t, closed}
  BY DEF Close
<1>. HIDE DEF ab
<1>7. closed \in SessionType /\ closed.disc = t.disc
  BY <1>2, <1>3, <1>5, Zenon DEF SessionType
<1>. HIDE DEF closed
<1>. QED  BY <1>6, <1>7, Zenon

-----------------------------------------------------------------------------
\* What every method of Session does to the state t it is called in: the
\* result u is a session state, and finished if t was.
Keeps(t, u) == u \in SessionType /\ (Finished(t) => Finished(u))

\* A method that calls another one keeps what both keep.
LEMMA KeepsTrans ==
    ASSUME NEW t, NEW u, NEW v, Keeps(t, u), Keeps(u, v)
    PROVE  Keeps(t, v)
BY Zenon DEF Keeps

\* The three methods above, in this form.
LEMMA BasicKeeps ==
    ASSUME NEW t \in SessionType, NEW d \in FlowType, NEW side \in FlowType
    PROVE  /\ Keeps(t, t) /\ Keeps(t, ReadData(t, d)) /\ Keeps(t, Close(t, d))
           /\ \A data \in Seq(Frame) :
                 Keeps(t, HandleWriteData(t, d, side, data))
BY ReadDataType, CloseType, HandleWriteDataType, ZenonT(60) DEF Keeps, Finished

\* One frame is a sequence of frames.
LEMMA FrmType ==
    ASSUME NEW f \in FrameType
    PROVE  Frm(f) \in Frame /\ <<Frm(f)>> \in Seq(Frame)
BY DEF Frm, Frame

\* async_shutdown and close, on one socket and on both.
LEMMA ShutdownKeeps ==
    ASSUME NEW t \in SessionType, NEW side \in FlowType
    PROVE  Keeps(t, Shutdown(t, side))
<1>. DEFINE shut == [t EXCEPT !.sock[side] = "shut"]
<1>1. [t.sock EXCEPT ![side] = "shut"]
        \in [FlowType -> {"closed", "connecting", "open", "shut"}]
  BY FieldTypes
<1>2. shut \in SessionType /\ shut.disc = t.disc
  BY <1>1, Zenon DEF SessionType
<1>3. Shutdown(t, side) \in {shut, Close(t, side)}
  BY Zenon DEF Shutdown
<1>. HIDE DEF shut
<1>. QED  BY <1>2, <1>3, BasicKeeps, Zenon DEF Keeps, Finished

\* performDisconnectBoth closes or shuts down both sockets and keeps the session
\* well formed.
LEMMA PerformDisconnectBothKeeps ==
    ASSUME NEW t \in SessionType
    PROVE  Keeps(t, PerformDisconnectBoth(t))
<1>1. "EGRESS" \in FlowType /\ "INGRESS" \in FlowType
  BY DEF FlowType
<1>2. Keeps(t, Shutdown(t, "EGRESS"))
  BY <1>1, ShutdownKeeps, Zenon
<1>3. Keeps(Shutdown(t, "EGRESS"), PerformDisconnectBoth(t))
  BY <1>1, <1>2, ShutdownKeeps, Zenon DEF PerformDisconnectBoth, Keeps
<1>. QED  BY <1>2, <1>3, KeepsTrans, Zenon

\* disconnect(true) finishes the session.
LEMMA DisconnectKeeps ==
    ASSUME NEW t \in SessionType, NEW onIo \in BOOLEAN
    PROVE  Keeps(t, Disconnect(t, onIo))
<1>. DEFINE u == [t EXCEPT !.disc = "DISCONNECTED_PROXY"]
            posted == [u EXCEPT !.posted = @ \cup {"both"}]
<1>1. "DISCONNECTED_PROXY" \in DisconnectType
  BY DEF DisconnectType
<1>2. u \in SessionType /\ u.disc = "DISCONNECTED_PROXY"
  BY <1>1, Zenon DEF SessionType
<1>3. Disconnect(t, onIo) \in {PerformDisconnectBoth(u), posted}
  BY Zenon DEF Disconnect
<1>. HIDE DEF u
<1>4. u.posted \cup {"both"} \in SUBSET {"both", "backend"}
  BY <1>2, FieldTypes
<1>5. posted \in SessionType /\ posted.disc = u.disc
  BY <1>2, <1>4, Zenon DEF SessionType
<1>. HIDE DEF posted
<1>6. Finished(u)
  BY <1>2 DEF Finished
<1>7. Keeps(u, PerformDisconnectBoth(u)) /\ Keeps(u, posted)
  BY <1>2, <1>5, PerformDisconnectBothKeeps, Zenon DEF Keeps, Finished
<1>. QED  BY <1>3, <1>6, <1>7, Zenon DEF Keeps

\* sendSyntheticData writes the frames of the Connector to the side they are for
\* and keeps the session well formed.
LEMMA SendSyntheticDataKeeps ==
    ASSUME NEW t \in SessionType, NEW side \in FlowType, NEW f \in FrameType,
           NEW onIo \in BOOLEAN
    PROVE  Keeps(t, SendSyntheticData(t, side, f, onIo))
<1>. DEFINE u == HandleWriteData(t, side, side, <<Frm(f)>>)
<1>1. Keeps(t, u)
  BY BasicKeeps, FrmType, Zenon
<1>2. SendSyntheticData(t, side, f, onIo) \in {u, Disconnect(u, onIo)}
  BY Zenon DEF SendSyntheticData
<1>. HIDE DEF u
<1>3. Keeps(u, Disconnect(u, onIo))
  BY <1>1, DisconnectKeeps, Zenon DEF Keeps
<1>4. Keeps(t, Disconnect(u, onIo))
  BY <1>1, <1>3, KeepsTrans, Zenon
<1>. QED  BY <1>1, <1>2, <1>4, Zenon

\* handleSessionError, whichever of its branches is taken.
LEMMA HandleSessionErrorKeeps ==
    ASSUME NEW t \in SessionType, NEW d \in FlowType, NEW aborted \in BOOLEAN
    PROVE  Keeps(t, HandleSessionError(t, d, aborted))
<1>0. "EGRESS" \in FlowType /\ "INGRESS" \in FlowType /\ "Close" \in FrameType
  BY DEF FlowType, FrameType, MethodType
<1>. DEFINE c == [t EXCEPT !.conn = "SERVER_CLOSE_SENT"]
            c1 == SendSyntheticData(c, "EGRESS", "Close", TRUE)
            c2 == SendSyntheticData(c1, "INGRESS", "Close", TRUE)
            disc == CASE t.conn = "CLOSED" -> "DISCONNECTED_CLEANLY"
                      [] t.conn # "CLOSED" /\ Finished(t) -> t.disc
                      [] OTHER -> IF d = "INGRESS" THEN "DISCONNECTED_CLIENT"
                                               ELSE "DISCONNECTED_SERVER"
            u == [t EXCEPT !.disc = disc]
            u2 == Close(Close(u, "EGRESS"), "INGRESS")
<1>1. HandleSessionError(t, d, aborted) \in {c2, u, u2}
  BY Zenon DEF HandleSessionError
<1>2. Keeps(t, c)
  <2>1. "SERVER_CLOSE_SENT" \in State
    BY DEF State
  <2>. QED  BY <2>1, Zenon DEF SessionType, Keeps, Finished
<1>3. Keeps(t, c2)
  <2>. HIDE DEF c
  <2>1. Keeps(c, c1)
    BY <1>0, <1>2, SendSyntheticDataKeeps, Zenon DEF Keeps
  <2>. HIDE DEF c1
  <2>2. Keeps(c1, c2)
    BY <1>0, <2>1, SendSyntheticDataKeeps, Zenon DEF Keeps
  <2>. QED  BY <1>2, <2>1, <2>2, KeepsTrans, Zenon
<1>4. disc \in DisconnectType /\ disc # "NOT_DISCONNECTED"
  <2>1. t.disc \in DisconnectType
    BY DEF SessionType
  <2>. QED  BY <2>1 DEF DisconnectType, Finished
<1>5. Keeps(t, u)
  <2>. HIDE DEF disc
  <2>1. u \in SessionType /\ u.disc = disc
    BY <1>4, Zenon DEF SessionType
  <2>. QED  BY <1>4, <2>1, Zenon DEF Keeps, Finished
<1>6. Keeps(t, u2)
  <2>. HIDE DEF u
  <2>1. Keeps(u, Close(u, "EGRESS"))
    BY <1>0, <1>5, BasicKeeps, Zenon DEF Keeps
  <2>2. Keeps(Close(u, "EGRESS"), u2)
    BY <1>0, <2>1, BasicKeeps, Zenon DEF Keeps
  <2>. QED  BY <1>5, <2>1, <2>2, KeepsTrans, Zenon
<1>. HIDE DEF c2, u, u2
<1>. QED  BY <1>1, <1>3, <1>5, <1>6, Zenon

-----------------------------------------------------------------------------
(* The Connector and the PacketProcessor.                                  *)

ResultType ==
    [st : State, out : Seq(Frame), to : FlowType, exc : Exception,
     create : BOOLEAN]

ProcessType ==
    [st : State, exc : Exception, create : BOOLEAN, iw : Seq(Frame),
     ew : Seq(Frame)]

\* A result record of the Connector is well formed when its fields are.
LEMMA ResultTypeOf ==
    ASSUME NEW st \in State, NEW out \in Seq(Frame), NEW to \in FlowType
    PROVE  Result(st, out, to) \in ResultType
BY DEF Result, ResultType, Exception

\* The answers of the Connector are sequences of frames.
LEMMA Answers ==
    /\ <<>> \in Seq(Frame) /\ <<Frm("Start")>> \in Seq(Frame)
    /\ <<Frm("Tune")>> \in Seq(Frame) /\ <<Frm("StartOk")>> \in Seq(Frame)
    /\ <<Frm("TuneOk"), Frm("Open")>> \in Seq(Frame)
    /\ <<Frm("OpenOk")>> \in Seq(Frame) /\ <<Frm("Close")>> \in Seq(Frame)
    /\ <<Frm("CloseOk")>> \in Seq(Frame) /\ <<Frm("Header")>> \in Seq(Frame)
<1>1. \A f \in FrameType : Frm(f) \in Frame
  BY FrmType, Zenon
<1>2. {"Start", "Tune", "StartOk", "TuneOk", "Open", "OpenOk", "Close",
       "CloseOk", "Header"} \subseteq FrameType
  BY DEF FrameType, MethodType
<1>. QED  BY <1>1, <1>2

\* Decoding a frame as a method either throws or is a step of Connector::receive.
LEMMA DecodeMethodType ==
    ASSUME NEW T, NEW m, NEW dir, NEW st \in State, NEW ok \in ResultType
    PROVE  DecodeMethod(T, st, m, dir, ok) \in ResultType
<1>1. Result(st, <<>>, "INGRESS") \in ResultType
  BY Answers, ResultTypeOf, ZenonT(30) DEF FlowType
<1>2. \A e \in Exception :
         [Result(st, <<>>, "INGRESS") EXCEPT !.exc = e] \in ResultType
  BY <1>1, Zenon DEF ResultType
<1>. QED  BY <1>2 DEF DecodeMethod, Exception

\* receive: whatever method arrives in whatever state.
LEMMA ReceiveType ==
    ASSUME NEW st \in State, NEW m \in MethodType, NEW dir \in FlowType
    PROVE  Receive(st, m, dir) \in ResultType
<1>1. \A x \in State, out \in Seq(Frame), to \in FlowType :
         Result(x, out, to) \in ResultType
  BY ResultTypeOf, Zenon
<1>2. "INGRESS" \in FlowType /\ "EGRESS" \in FlowType
  BY DEF FlowType
<1>3. {"OPEN", "CLOSED", "TUNE_SENT", "AWAITING_OPEN", "AWAITING_CONNECTION",
       "STARTOK_SENT", "OPEN_SENT", "CLIENT_CLOSE_SENT", "SERVER_CLOSE_SENT"}
        \subseteq State
  BY DEF State
<1>4. [Result("AWAITING_CONNECTION", <<>>, "INGRESS") EXCEPT !.create = TRUE]
        \in ResultType
  <2>1. Result("AWAITING_CONNECTION", <<>>, "INGRESS") \in ResultType
    BY <1>1, <1>2, <1>3, Answers, ZenonT(30)
  <2>. QED  BY <2>1, Zenon DEF ResultType
<1>5. ReceiveClientCloseSent(m, dir) \in ResultType
  BY <1>1, <1>2, <1>3, Answers, ZenonT(30) DEF ReceiveClientCloseSent
<1>6. ReceiveServerCloseSent(m, dir) \in ResultType
  BY <1>1, <1>2, <1>3, Answers, ZenonT(30) DEF ReceiveServerCloseSent
<1>7. \A T, ok : ok \in ResultType =>
         DecodeMethod(T, st, m, dir, ok) \in ResultType
  BY DecodeMethodType, Zenon
<1>. QED  BY <1>1, <1>2, <1>3, <1>4, <1>5, <1>6, <1>7, Answers, ZenonT(30) DEF Receive

\* The out buffer of a result goes to the side it is for, and the other is empty.
LEMMA CollectType ==
    ASSUME NEW r \in ResultType, NEW create \in BOOLEAN
    PROVE  Collect(r, create) \in ProcessType
<1>1. /\ r.st \in State /\ r.exc \in Exception /\ r.out \in Seq(Frame)
      /\ r.create \in BOOLEAN
  BY Zenon DEF ResultType
<1>2. /\ (IF r.to = "INGRESS" THEN r.out ELSE <<>>) \in Seq(Frame)
      /\ (IF r.to = "EGRESS" THEN r.out ELSE <<>>) \in Seq(Frame)
  BY <1>1, Answers, Zenon
<1>3. (create \/ r.create) \in BOOLEAN
  BY <1>1, Zenon
<1>. QED  BY <1>1, <1>2, <1>3, Zenon DEF Collect, ProcessType

\* One turn of the loop of PacketProcessor::process keeps its result well formed.
LEMMA ProcessFrameType ==
    ASSUME NEW p \in ProcessType, NEW f \in Frame, NEW dir \in FlowType
    PROVE  ProcessFrame(p, f, dir) \in ProcessType
<1>1. p.st \in State /\ p.create \in BOOLEAN
  BY Zenon DEF ProcessType
<1>2. f.type \in MethodType =>
         Collect(Receive(p.st, f.type, dir), p.create) \in ProcessType
  BY <1>1, ReceiveType, CollectType, Zenon
<1>. QED  BY <1>2, Zenon DEF ProcessFrame

\* process: the frames of a buffer in any state of the Connector.
LEMMA ProcessTypeOf ==
    ASSUME NEW st \in State, NEW frames \in Seq(Frame), NEW dir \in FlowType
    PROVE  Process(st, frames, dir) \in ProcessType
<1>. DEFINE p0 == [st |-> st, exc |-> "none", create |-> FALSE,
                   iw |-> <<>>, ew |-> <<>>]
            Step(p, i) == IF i <= Len(frames)
                          THEN ProcessFrame(p, frames[i], dir) ELSE p
            p3 == Step(Step(Step(p0, 1), 2), 3)
<1>1. p0 \in ProcessType
  BY Answers DEF ProcessType, Exception
<1>2. ASSUME NEW p \in ProcessType, NEW i \in {1, 2, 3}
      PROVE  Step(p, i) \in ProcessType
  <2>1. i <= Len(frames) => frames[i] \in Frame
    OBVIOUS
  <2>. QED  BY <2>1, ProcessFrameType, Zenon
<1>. HIDE DEF p0, Step
<1>3. Step(p0, 1) \in ProcessType
  BY <1>1, <1>2
<1>4. Step(Step(p0, 1), 2) \in ProcessType
  BY <1>2, <1>3
<1>5. p3 \in ProcessType
  BY <1>2, <1>4
<1>6. PassThrough(p3, frames, dir) \in ProcessType
  <2>. HIDE DEF p3
  <2>1. \A a, b \in Seq(Frame) :
           [p3 EXCEPT !.iw = a, !.ew = b] \in ProcessType
    BY <1>5, Zenon DEF ProcessType
  <2>2. /\ (IF dir = "EGRESS" THEN frames ELSE <<>>) \in Seq(Frame)
        /\ (IF dir = "INGRESS" THEN frames ELSE <<>>) \in Seq(Frame)
    BY Answers, Zenon
  <2>. QED  BY <1>5, <2>1, <2>2, Zenon DEF PassThrough
<1>7. Collect(ReceiveHeader(frames), FALSE) \in ProcessType
  <2>1. ReceiveHeader(frames) \in ResultType
    BY Answers, ResultTypeOf, ZenonT(30) DEF ReceiveHeader, State, FlowType
  <2>. QED  BY <2>1, CollectType, ZenonT(30)
<1>. QED  BY <1>6, <1>7, Zenon DEF Process, p3, Step, p0

-----------------------------------------------------------------------------
(* Establishing the egress connection.                                     *)

\* Moving on to another asynchronous operation of the egress connection.
LEMMA EgKeeps ==
    ASSUME NEW t \in SessionType, NEW e \in Pipeline
    PROVE  Keeps(t, [t EXCEPT !.eg = e])
BY Zenon DEF SessionType, Keeps, Finished

\* The steps of the egress connection that the handlers set are in its type.
LEMMA PipelineElements ==
    {"none", "limit", "auth", "resolve", "connect", "proxy", "tls"}
        \subseteq Pipeline
BY DEF Pipeline

\* Moving the egress retry counter on keeps the session well formed.
LEMMA RetryKeeps ==
    ASSUME NEW t \in SessionType
    PROVE  Keeps(t, [t EXCEPT !.retry = @ + 1])
<1>1. t.retry + 1 \in Nat
  BY FieldTypes
<1>. QED  BY <1>1, Zenon DEF SessionType, Keeps, Finished

\* attemptConnection, with its early returns and its disconnect when the backends
\* run out, keeps the session well formed.
LEMMA AttemptConnectionKeeps ==
    ASSUME NEW t \in SessionType, NEW onIo \in BOOLEAN
    PROVE  Keeps(t, AttemptConnection(t, onIo))
<1>. DEFINE n == [t EXCEPT !.eg = "none"]
            r == [t EXCEPT !.eg = "resolve"]
<1>1. Keeps(t, n) /\ Keeps(t, r)
  BY EgKeeps, PipelineElements
<1>2. AttemptConnection(t, onIo) \in {n, r, Disconnect(n, onIo)}
  BY DEF AttemptConnection
<1>. HIDE DEF n, r
<1>3. Keeps(n, Disconnect(n, onIo))
  BY <1>1, DisconnectKeeps, Zenon DEF Keeps
<1>4. Keeps(t, Disconnect(n, onIo))
  BY <1>1, <1>3, KeepsTrans, Zenon
<1>. QED  BY <1>1, <1>2, <1>4, Zenon

\* attemptResolvedConnection takes the next endpoint or the next backend and keeps
\* the session well formed.
LEMMA AttemptResolvedConnectionKeeps ==
    ASSUME NEW t \in SessionType
    PROVE  Keeps(t, AttemptResolvedConnection(t))
<1>. DEFINE r == [t EXCEPT !.retry = @ + 1]
            c == [t EXCEPT !.ep = @ - 1, !.eg = "connect",
                           !.sock["EGRESS"] = "connecting"]
<1>1. Keeps(t, AttemptConnection(r, TRUE))
  <2>1. Keeps(t, r)
    BY RetryKeeps, Zenon
  <2>. HIDE DEF r
  <2>2. Keeps(r, AttemptConnection(r, TRUE))
    BY <2>1, AttemptConnectionKeeps, Zenon DEF Keeps
  <2>. QED  BY <2>1, <2>2, KeepsTrans, Zenon
<1>2. t.ep # 0 => Keeps(t, c)
  <2>1. t.ep # 0 => t.ep - 1 \in Nat
    BY FieldTypes
  <2>2. [t.sock EXCEPT !["EGRESS"] = "connecting"]
          \in [FlowType -> {"closed", "connecting", "open", "shut"}]
    <3>1. "EGRESS" \in FlowType
      BY DEF FlowType
    <3>. QED  BY <3>1, FieldTypes
  <2>3. "connect" \in Pipeline
    BY DEF Pipeline
  <2>. QED  BY <2>1, <2>2, <2>3, Zenon DEF SessionType, Keeps, Finished
<1>. HIDE DEF r, c
<1>. QED  BY <1>1, <1>2, Zenon DEF AttemptResolvedConnection, r, c

\* A refused client is sent a Close and disconnected by a session that stays well
\* formed.
LEMMA CloseSentAndDisconnect ==
    ASSUME NEW t \in SessionType, NEW onIo \in BOOLEAN
    PROVE  Keeps(t, Disconnect(SendSyntheticData(t, "INGRESS", "Close", onIo),
                               onIo))
<1>. DEFINE u == SendSyntheticData(t, "INGRESS", "Close", onIo)
<1>1. "INGRESS" \in FlowType /\ "Close" \in FrameType
  BY DEF FlowType, FrameType, MethodType
<1>2. Keeps(t, u)
  BY <1>1, SendSyntheticDataKeeps, Zenon
<1>. HIDE DEF u
<1>3. Keeps(u, Disconnect(u, onIo))
  BY <1>2, DisconnectKeeps, Zenon DEF Keeps
<1>4. Keeps(t, Disconnect(u, onIo))
  BY <1>2, <1>3, KeepsTrans, Zenon
<1>. QED  BY <1>4, Zenon DEF u

\* establishConnection keeps the session well formed for each answer of the
\* connection selector.
LEMMA EstablishConnectionKeeps ==
    ASSUME NEW t \in SessionType, NEW rc, NEW onIo \in BOOLEAN
    PROVE  Keeps(t, EstablishConnection(t, rc, onIo))
<1>. DEFINE p == [t EXCEPT !.ready = TRUE]
            l == [t EXCEPT !.eg = "limit"]
            a == [t EXCEPT !.eg = "auth"]
            x == Disconnect(SendSyntheticData(t, "INGRESS", "Close", onIo),
                            onIo)
<1>1. Keeps(t, p)
  BY Zenon DEF SessionType, Keeps, Finished
<1>2. Keeps(t, l) /\ Keeps(t, a)
  BY EgKeeps, PipelineElements
<1>3. Keeps(t, x)
  BY CloseSentAndDisconnect, Zenon
<1>4. EstablishConnection(t, rc, onIo) \in {p, l, a, x}
  <2>. HIDE DEF p, l, a, x
  <2>. QED  BY DEF EstablishConnection, p, l, a, x
<1>. HIDE DEF p, l, a, x
<1>. QED  BY <1>1, <1>2, <1>3, <1>4, Zenon

\* The callback of the egress TLS handshake keeps the session well formed.
LEMMA EgressHandshookKeeps ==
    ASSUME NEW t \in SessionType
    PROVE  Keeps(t, EgressHandshook(t))
<1>. DEFINE n == [t EXCEPT !.eg = "none"]
<1>1. Keeps(t, n)
  BY EgKeeps, PipelineElements
<1>. HIDE DEF n
<1>2. Keeps(n, HandleWriteData(n, "EGRESS", "EGRESS", <<Frm("Header")>>))
  BY <1>1, BasicKeeps, Answers, Zenon DEF Keeps, FlowType
<1>3. EgressHandshook(t)
        = HandleWriteData(n, "EGRESS", "EGRESS", <<Frm("Header")>>)
  BY Zenon DEF EgressHandshook, n
<1>. QED  BY <1>1, <1>2, <1>3, KeepsTrans, Zenon

\* Starting the egress handshake keeps the session well formed.
LEMMA EgressHandshakeKeeps ==
    ASSUME NEW t \in SessionType
    PROVE  Keeps(t, EgressHandshake(t))
<1>1. Keeps(t, [t EXCEPT !.eg = "tls"])
  BY EgKeeps, PipelineElements
<1>. QED  BY <1>1, EgressHandshookKeeps, Zenon DEF EgressHandshake

\* The vhost event, which may pause the session, keeps it well formed.
LEMMA VhostEstablishedKeeps ==
    ASSUME NEW t \in SessionType, NEW rc
    PROVE  Keeps(t, VhostEstablished(t, rc))
<1>. DEFINE v == [t EXCEPT !.vhost = TRUE, !.paused = @ \/ t.vpaused]
<1>1. Keeps(t, v)
  BY Zenon DEF SessionType, Keeps, Finished
<1>2. VhostEstablished(t, rc) = EstablishConnection(v, rc, TRUE)
  BY Zenon DEF VhostEstablished
<1>. HIDE DEF v
<1>3. Keeps(v, EstablishConnection(v, rc, TRUE))
  BY <1>1, EstablishConnectionKeeps, Zenon DEF Keeps
<1>. QED  BY <1>1, <1>2, <1>3, KeepsTrans, Zenon

\* handleData: a read buffer, whatever is in it.
LEMMA HandleDataKeeps ==
    ASSUME NEW t \in SessionType, NEW d \in FlowType, NEW rc
    PROVE  Keeps(t, HandleData(t, d, rc))
<1>0. "EGRESS" \in FlowType /\ "INGRESS" \in FlowType
  BY DEF FlowType
<1>. DEFINE p  == Process(t.conn, t.buf[d], d)
            t1 == [t EXCEPT !.conn = p.st]
            t2 == IF p.create THEN VhostEstablished(t1, rc) ELSE t1
            t3 == [t2 EXCEPT !.buf[d] = <<>>]
            isOpen == p.st = "OPEN"
            toIngress == HandleWriteData(t3,
                             IF isOpen THEN "EGRESS" ELSE "INGRESS",
                             "INGRESS", p.iw)
            toEgress == HandleWriteData(t3,
                             IF isOpen THEN "INGRESS" ELSE "EGRESS",
                             "EGRESS", p.ew)
            t4 == CASE p.iw # <<>> -> toIngress
                    [] p.iw = <<>> /\ p.ew # <<>> -> toEgress
                    [] OTHER -> ReadData(t3, d)
            told == Disconnect(SendSyntheticData(t2, "INGRESS", "Close", TRUE),
                               TRUE)
<1>1. p \in ProcessType
  BY ProcessTypeOf, FieldTypes, Zenon
<1>2. p.st \in State /\ p.iw \in Seq(Frame) /\ p.ew \in Seq(Frame)
  BY <1>1, Zenon DEF ProcessType
<1>3. HandleData(t, d, rc) \in {told, Disconnect(t2, TRUE),
                                PerformDisconnectBoth(t4),
                                Disconnect(t4, TRUE), t4}
  BY Zenon DEF HandleData
<1>. HIDE DEF p
<1>4. Keeps(t, t1)
  BY <1>2, Zenon DEF SessionType, Keeps, Finished
<1>5. Keeps(t, t2)
  <2>. HIDE DEF t1
  <2>1. Keeps(t1, VhostEstablished(t1, rc))
    BY <1>4, VhostEstablishedKeeps, Zenon DEF Keeps
  <2>2. Keeps(t, VhostEstablished(t1, rc))
    BY <1>4, <2>1, KeepsTrans, Zenon
  <2>. QED  BY <1>4, <2>2, Zenon
<1>. HIDE DEF t2
<1>6. t2 \in SessionType
  BY <1>5, Zenon DEF Keeps
<1>7. Keeps(t2, t3)
  <2>1. [t2.buf EXCEPT ![d] = <<>>] \in [FlowType -> Seq(Frame)]
    BY <1>6, Answers, FlowUpdate, FieldTypes, Zenon
  <2>. QED  BY <1>6, <2>1, Zenon DEF SessionType, Keeps, Finished
<1>8. Keeps(t, t3) /\ t3 \in SessionType
  BY <1>5, <1>7, KeepsTrans, Zenon DEF Keeps
<1>. HIDE DEF t3
<1>9. Keeps(t3, toIngress) /\ Keeps(t3, toEgress) /\ Keeps(t3, ReadData(t3, d))
  BY <1>0, <1>2, <1>8, BasicKeeps, Zenon
<1>10. t4 \in {toIngress, toEgress, ReadData(t3, d)}
  <2>. HIDE DEF toIngress, toEgress
  <2>. QED  OBVIOUS
<1>. HIDE DEF toIngress, toEgress, t4
<1>11. Keeps(t3, t4)
  BY <1>9, <1>10, Zenon
<1>12. Keeps(t, t4) /\ t4 \in SessionType
  BY <1>8, <1>11, KeepsTrans, Zenon DEF Keeps
<1>13. Keeps(t2, told)
  BY <1>6, CloseSentAndDisconnect, Zenon
<1>14. Keeps(t2, Disconnect(t2, TRUE))
  BY <1>6, DisconnectKeeps, Zenon
<1>. HIDE DEF told
<1>15. Keeps(t, told) /\ Keeps(t, Disconnect(t2, TRUE))
  BY <1>5, <1>13, <1>14, KeepsTrans, Zenon
<1>16. Keeps(t4, PerformDisconnectBoth(t4)) /\ Keeps(t4, Disconnect(t4, TRUE))
  BY <1>12, PerformDisconnectBothKeeps, DisconnectKeeps, Zenon
<1>17. Keeps(t, PerformDisconnectBoth(t4)) /\ Keeps(t, Disconnect(t4, TRUE))
  BY <1>12, <1>16, KeepsTrans, Zenon
<1>. QED  BY <1>3, <1>12, <1>15, <1>17, Zenon

-----------------------------------------------------------------------------
(* The steps of the io thread.                                             *)

\* A handler takes its operation off the count it was pending in.
LEMMA TakeKeeps ==
    ASSUME NEW t \in SessionType, NEW d \in FlowType
    PROVE  /\ t.rd[d] > 0 => Keeps(t, [t EXCEPT !.rd[d] = @ - 1])
           /\ t.wd[d] > 0 => Keeps(t, [t EXCEPT !.wd[d] = @ - 1])
           /\ t.ab[d] > 0 => Keeps(t, [t EXCEPT !.ab[d] = @ - 1])
           /\ t.bad[d] > 0 => Keeps(t, [t EXCEPT !.bad[d] = @ - 1])
<1>1. /\ t.rd[d] > 0 => [t.rd EXCEPT ![d] = @ - 1] \in [FlowType -> Nat]
      /\ t.wd[d] > 0 => [t.wd EXCEPT ![d] = @ - 1] \in [FlowType -> Nat]
      /\ t.ab[d] > 0 => [t.ab EXCEPT ![d] = @ - 1] \in [FlowType -> Nat]
      /\ t.bad[d] > 0 => [t.bad EXCEPT ![d] = @ - 1] \in [FlowType -> Nat]
  BY FieldTypes, SMTT(30)
<1>2. t.rd[d] > 0 => Keeps(t, [t EXCEPT !.rd[d] = @ - 1])
  BY <1>1, Zenon DEF SessionType, Keeps, Finished
<1>3. t.wd[d] > 0 => Keeps(t, [t EXCEPT !.wd[d] = @ - 1])
  BY <1>1, Zenon DEF SessionType, Keeps, Finished
<1>4. t.ab[d] > 0 => Keeps(t, [t EXCEPT !.ab[d] = @ - 1])
  BY <1>1, Zenon DEF SessionType, Keeps, Finished
<1>5. t.bad[d] > 0 => Keeps(t, [t EXCEPT !.bad[d] = @ - 1])
  BY <1>1, Zenon DEF SessionType, Keeps, Finished
<1>. QED  BY <1>2, <1>3, <1>4, <1>5, Zenon

\* The read handler with data keeps the session well formed.
LEMMA ReadSomeKeeps ==
    ASSUME s \in SessionType, NEW d \in FlowType, ReadSome(d)
    PROVE  Keeps(s, s')
<1>1. PICK k \in 1..Len(s.in[d]), rc \in Statuses :
         LET t == [s EXCEPT !.rd[d] = @ - 1,
                            !.buf[d] = @ \o SubSeq(s.in[d], 1, k),
                            !.in[d] = SubSeq(@, k + 1, Len(@))]
         IN  s' = IF d = "EGRESS" \/ ~s.paused THEN HandleData(t, d, rc) ELSE t
  BY Zenon DEF ReadSome
<1>. DEFINE t == [s EXCEPT !.rd[d] = @ - 1,
                           !.buf[d] = @ \o SubSeq(s.in[d], 1, k),
                           !.in[d] = SubSeq(@, k + 1, Len(@))]
<1>2. s.rd[d] > 0 /\ s.rd[d] \in Nat
  BY FieldTypes DEF ReadSome
<1>3. [s.rd EXCEPT ![d] = @ - 1] \in [FlowType -> Nat]
  BY <1>2, FieldTypes
<1>4. s.in[d] \in Seq(Frame) /\ s.buf[d] \in Seq(Frame)
  BY FieldTypes, Zenon
<1>5. /\ SubSeq(s.in[d], 1, k) \in Seq(Frame)
      /\ SubSeq(s.in[d], k + 1, Len(s.in[d])) \in Seq(Frame)
  BY <1>4
<1>6. s.buf[d] \o SubSeq(s.in[d], 1, k) \in Seq(Frame)
  BY <1>4, <1>5
<1>7. /\ [s.buf EXCEPT ![d] = @ \o SubSeq(s.in[d], 1, k)]
            \in [FlowType -> Seq(Frame)]
      /\ [s.in EXCEPT ![d] = SubSeq(@, k + 1, Len(@))]
            \in [FlowType -> Seq(Frame)]
  BY <1>5, <1>6, FlowUpdate, FieldTypes, Zenon
<1>8. Keeps(s, t)
  BY <1>3, <1>7, Zenon DEF SessionType, Keeps, Finished
<1>9. s' \in {t, HandleData(t, d, rc)}
  BY <1>1, Zenon
<1>. HIDE DEF t
<1>10. Keeps(t, HandleData(t, d, rc))
  BY <1>8, HandleDataKeeps, Zenon DEF Keeps
<1>11. Keeps(s, HandleData(t, d, rc))
  BY <1>8, <1>10, KeepsTrans, Zenon
<1>. QED  BY <1>8, <1>9, <1>11, Zenon

\* The handlers that end in handleSessionError or in another read.
LEMMA ErrorHandlersKeep ==
    ASSUME s \in SessionType, NEW d \in FlowType,
           \/ ReadEof(d) \/ OperationAborted(d) \/ OperationFailed(d)
           \/ WriteDone(d)
    PROVE  Keeps(s, s')
<1>1. CASE ReadEof(d)
  <2>. DEFINE t == [s EXCEPT !.rd[d] = @ - 1]
  <2>1. Keeps(s, t) /\ s' = HandleSessionError(t, d, FALSE)
    BY <1>1, TakeKeeps, Zenon DEF ReadEof
  <2>. HIDE DEF t
  <2>2. Keeps(t, s')
    BY <2>1, HandleSessionErrorKeeps, Zenon DEF Keeps
  <2>. QED  BY <2>1, <2>2, KeepsTrans, Zenon
<1>2. CASE OperationAborted(d)
  <2>. DEFINE t == [s EXCEPT !.ab[d] = @ - 1]
  <2>1. Keeps(s, t) /\ s' = HandleSessionError(t, d, TRUE)
    BY <1>2, TakeKeeps, Zenon DEF OperationAborted
  <2>. HIDE DEF t
  <2>2. Keeps(t, s')
    BY <2>1, HandleSessionErrorKeeps, Zenon DEF Keeps
  <2>. QED  BY <2>1, <2>2, KeepsTrans, Zenon
<1>3. CASE OperationFailed(d)
  <2>. DEFINE t == [s EXCEPT !.bad[d] = @ - 1]
  <2>1. Keeps(s, t) /\ s' = HandleSessionError(t, d, FALSE)
    BY <1>3, TakeKeeps, Zenon DEF OperationFailed
  <2>. HIDE DEF t
  <2>2. Keeps(t, s')
    BY <2>1, HandleSessionErrorKeeps, Zenon DEF Keeps
  <2>. QED  BY <2>1, <2>2, KeepsTrans, Zenon
<1>4. CASE WriteDone(d)
  <2>. DEFINE t == [s EXCEPT !.wd[d] = @ - 1]
  <2>1. Keeps(s, t) /\ s' = ReadData(t, d)
    BY <1>4, TakeKeeps, Zenon DEF WriteDone
  <2>. HIDE DEF t
  <2>2. Keeps(t, s')
    BY <2>1, BasicKeeps, Zenon DEF Keeps
  <2>. QED  BY <2>1, <2>2, KeepsTrans, Zenon
<1>. QED  BY <1>1, <1>2, <1>3, <1>4, Zenon

\* The reactor sends or fails a blocked write.
LEMMA UnblockKeeps ==
    ASSUME s \in SessionType, NEW side \in FlowType, Unblock(side)
    PROVE  Keeps(s, s')
<1>. DEFINE w == Head(s.blocked[side])
            q == Tail(s.blocked[side])
<1>1. s.blocked[side] \in Seq(PendingWrite) /\ s.blocked[side] # <<>>
  BY FieldTypes, Zenon DEF Unblock
<1>2. w \in PendingWrite /\ q \in Seq(PendingWrite)
  BY <1>1
<1>3. w.flow \in FlowType /\ w.msgs \in Seq(Frame)
  BY <1>2, Zenon DEF PendingWrite
<1>4. [s.blocked EXCEPT ![side] = Tail(@)] \in [FlowType -> Seq(PendingWrite)]
  BY <1>2, FlowUpdate, FieldTypes, Zenon
<1>. DEFINE t == [s EXCEPT !.blocked[side] = Tail(@)]
            sent == [t EXCEPT !.out[side] = @ \o w.msgs, !.wd[w.flow] = @ + 1]
            failed == [t EXCEPT !.bad[w.flow] = @ + 1]
<1>5. s' \in {sent, failed}
  BY Zenon DEF Unblock
<1>6. Keeps(s, t)
  BY <1>4, Zenon DEF SessionType, Keeps, Finished
<1>. HIDE DEF t, w, q
<1>7. t \in SessionType
  BY <1>6, Zenon DEF Keeps
<1>8. /\ [t.wd EXCEPT ![w.flow] = @ + 1] \in [FlowType -> Nat]
      /\ [t.bad EXCEPT ![w.flow] = @ + 1] \in [FlowType -> Nat]
  BY <1>3, <1>7, FieldTypes, SMTT(30)
<1>9. t.out[side] \o w.msgs \in Seq(Frame)
  <2>1. t.out[side] \in Seq(Frame)
    BY <1>7, FieldTypes, Zenon
  <2>. QED  BY <1>3, <2>1
<1>10. [t.out EXCEPT ![side] = @ \o w.msgs] \in [FlowType -> Seq(Frame)]
  BY <1>7, <1>9, FlowUpdate, FieldTypes, Zenon
<1>11. Keeps(t, sent)
  BY <1>7, <1>8, <1>10, Zenon DEF SessionType, Keeps, Finished
<1>12. Keeps(t, failed)
  BY <1>7, <1>8, Zenon DEF SessionType, Keeps, Finished
<1>. HIDE DEF sent, failed
<1>13. Keeps(s, sent) /\ Keeps(s, failed)
  BY <1>6, <1>11, <1>12, KeepsTrans, Zenon
<1>. QED  BY <1>5, <1>13, Zenon

\* A handler of the egress connection clears what was pending and reports an
\* error or goes on.
LEMMA EgressHandlersKeep ==
    ASSUME s \in SessionType,
           LimitTimer \/ AuthResponse \/ ResolveFailed \/ ProxyHeaderWritten
             \/ EgressTls
    PROVE  Keeps(s, s')
<1>0. "INGRESS" \in FlowType
  BY DEF FlowType
<1>. DEFINE n == [s EXCEPT !.eg = "none"]
            r == [s EXCEPT !.retry = @ + 1]
            a == [s EXCEPT !.allowed = TRUE]
<1>1. Keeps(s, n) /\ n \in SessionType
  <2>1. "none" \in Pipeline
    BY PipelineElements
  <2>. QED  BY <2>1, EgKeeps, Zenon DEF Keeps
<1>2. Keeps(s, r) /\ r \in SessionType
  BY RetryKeeps, Zenon DEF Keeps
<1>3. Keeps(s, a)
  BY Zenon DEF SessionType, Keeps, Finished
<1>4. a \in SessionType
  BY <1>3, Zenon DEF Keeps
<1>. DEFINE told == Disconnect(SendSyntheticData(n, "INGRESS", "Close", TRUE),
                               TRUE)
<1>5. Keeps(n, told) /\ Keeps(n, Disconnect(n, TRUE))
  BY <1>1, CloseSentAndDisconnect, DisconnectKeeps, Zenon
<1>6. \A e \in BOOLEAN : Keeps(n, HandleSessionError(n, "INGRESS", e))
  BY <1>0, <1>1, HandleSessionErrorKeeps, Zenon
<1>7. Keeps(n, EgressHandshook(n)) /\ Keeps(s, EgressHandshake(s))
  BY <1>1, EgressHandshookKeeps, EgressHandshakeKeeps, Zenon
<1>8. Keeps(a, AttemptConnection(a, TRUE)) /\ Keeps(r, AttemptConnection(r, TRUE))
  BY <1>2, <1>4, AttemptConnectionKeeps, Zenon
<1>9. \/ s' = told \/ s' = Disconnect(n, TRUE)
      \/ \E e \in BOOLEAN : s' = HandleSessionError(n, "INGRESS", e)
      \/ s' = EgressHandshook(n) \/ s' = EgressHandshake(s)
      \/ s' = AttemptConnection(a, TRUE) \/ s' = AttemptConnection(r, TRUE)
  <2>1. CASE LimitTimer
    BY <2>1, Zenon DEF LimitTimer
  <2>2. CASE AuthResponse
    BY <2>2, Zenon DEF AuthResponse
  <2>3. CASE ResolveFailed
    BY <2>3, Zenon DEF ResolveFailed
  <2>4. CASE ProxyHeaderWritten
    BY <2>4, Zenon DEF ProxyHeaderWritten
  <2>5. CASE EgressTls
    BY <2>5, Zenon DEF EgressTls
  <2>. QED  BY <2>1, <2>2, <2>3, <2>4, <2>5, Zenon
<1>. HIDE DEF n, r, a, told
<1>10. Keeps(s, told) /\ Keeps(s, Disconnect(n, TRUE))
  BY <1>1, <1>5, KeepsTrans, Zenon
<1>11. \A e \in BOOLEAN : Keeps(s, HandleSessionError(n, "INGRESS", e))
  BY <1>1, <1>6, KeepsTrans, Zenon
<1>12. Keeps(s, EgressHandshook(n))
  BY <1>1, <1>7, KeepsTrans, Zenon
<1>13. Keeps(s, AttemptConnection(a, TRUE))
  BY <1>3, <1>8, KeepsTrans, Zenon
<1>14. Keeps(s, AttemptConnection(r, TRUE))
  BY <1>2, <1>8, KeepsTrans, Zenon
<1>. QED  BY <1>7, <1>9, <1>10, <1>11, <1>12, <1>13, <1>14, Zenon

\* The callback of the ingress TLS handshake keeps the session well formed.
LEMMA IngressHandshakeKeeps ==
    ASSUME s \in SessionType, IngressHandshake
    PROVE  Keeps(s, s')
<1>0. "INGRESS" \in FlowType
  BY DEF FlowType
<1>. DEFINE t == [s EXCEPT !.shake = FALSE]
<1>1. Keeps(s, t)
  BY Zenon DEF SessionType, Keeps, Finished
<1>2. \/ s' = ReadData(t, "INGRESS")
      \/ \E e \in BOOLEAN : s' = HandleSessionError(t, "INGRESS", e)
  BY Zenon DEF IngressHandshake
<1>. HIDE DEF t
<1>3. t \in SessionType
  BY <1>1, Zenon DEF Keeps
<1>4. Keeps(t, s')
  BY <1>0, <1>2, <1>3, BasicKeeps, HandleSessionErrorKeeps, Zenon
<1>. QED  BY <1>1, <1>4, KeepsTrans, Zenon

\* The callback of resolve keeps the session well formed.
LEMMA ResolvedKeeps ==
    ASSUME s \in SessionType, Resolved
    PROVE  Keeps(s, s')
<1>1. PICK n \in 1..MaxEndpoints :
         s' = AttemptResolvedConnection([s EXCEPT !.ep = n])
  BY Zenon DEF Resolved
<1>. DEFINE t == [s EXCEPT !.ep = n]
<1>2. n \in Nat
  BY ConstantsAssumption
<1>3. Keeps(s, t)
  BY <1>2, Zenon DEF SessionType, Keeps, Finished
<1>. HIDE DEF t
<1>4. Keeps(t, AttemptResolvedConnection(t))
  BY <1>3, AttemptResolvedConnectionKeeps, Zenon DEF Keeps
<1>5. s' = AttemptResolvedConnection(t)
  BY <1>1, Zenon DEF t
<1>. QED  BY <1>3, <1>4, <1>5, KeepsTrans, Zenon

\* The callback of async_connect keeps the session well formed.
LEMMA ConnectedKeeps ==
    ASSUME s \in SessionType, Connected
    PROVE  Keeps(s, s')
<1>0. "EGRESS" \in FlowType
  BY DEF FlowType
<1>. DEFINE t == [s EXCEPT !.sock["EGRESS"] = "open", !.fin["EGRESS"] = FALSE,
                           !.in["EGRESS"] = <<>>, !.out["EGRESS"] = <<>>]
            x == [t EXCEPT !.eg = "proxy",
                           !.out["EGRESS"] = <<Frm("ProxyHeader")>>]
<1>1. [s.sock EXCEPT !["EGRESS"] = "open"]
        \in [FlowType -> {"closed", "connecting", "open", "shut"}]
  BY <1>0, FieldTypes
<1>2. [s.fin EXCEPT !["EGRESS"] = FALSE] \in [FlowType -> BOOLEAN]
  BY <1>0, FlowUpdate, FieldTypes, Zenon
<1>3. /\ [s.in EXCEPT !["EGRESS"] = <<>>] \in [FlowType -> Seq(Frame)]
      /\ [s.out EXCEPT !["EGRESS"] = <<>>] \in [FlowType -> Seq(Frame)]
  BY <1>0, Answers, FlowUpdate, FieldTypes, Zenon
<1>4. Keeps(s, t)
  BY <1>1, <1>2, <1>3, Zenon DEF SessionType, Keeps, Finished
<1>5. s' = x \/ s' = EgressHandshake(t)
  BY Zenon DEF Connected, SynthesizeProxyProtocolHeader
<1>. HIDE DEF t
<1>6. t \in SessionType
  BY <1>4, Zenon DEF Keeps
<1>7. <<Frm("ProxyHeader")>> \in Seq(Frame)
  BY FrmType DEF FrameType
<1>8. [t.out EXCEPT !["EGRESS"] = <<Frm("ProxyHeader")>>]
        \in [FlowType -> Seq(Frame)]
  BY <1>0, <1>6, <1>7, FlowUpdate, FieldTypes, Zenon
<1>9. Keeps(t, x)
  <2>1. "proxy" \in Pipeline
    BY PipelineElements
  <2>. QED  BY <1>6, <1>8, <2>1, Zenon DEF SessionType, Keeps, Finished
<1>10. Keeps(t, EgressHandshake(t))
  BY <1>6, EgressHandshakeKeeps, Zenon
<1>. HIDE DEF x
<1>11. Keeps(s, x) /\ Keeps(s, EgressHandshake(t))
  BY <1>4, <1>9, <1>10, KeepsTrans, Zenon
<1>. QED  BY <1>5, <1>11, Zenon

\* handleConnectionError keeps the session well formed.
LEMMA ConnectFailedKeeps ==
    ASSUME s \in SessionType, ConnectFailed
    PROVE  Keeps(s, s')
<1>0. "EGRESS" \in FlowType
  BY DEF FlowType
<1>. DEFINE bad == [d \in FlowType |->
                       s.bad[d] + BlockedOf(s.blocked["EGRESS"], d)
                                + (IF d = "EGRESS" THEN s.rd[d] ELSE 0)]
            t == [s EXCEPT !.bad = bad, !.rd["EGRESS"] = 0,
                           !.blocked["EGRESS"] = <<>>]
<1>1. \A d \in FlowType : BlockedOf(s.blocked["EGRESS"], d) \in Nat
  BY <1>0, BlockedOfType, FieldTypes, Zenon
<1>2. bad \in [FlowType -> Nat]
  BY <1>1, FieldTypes
<1>3. [s.rd EXCEPT !["EGRESS"] = 0] \in [FlowType -> Nat]
  BY <1>0, FieldTypes
<1>4. <<>> \in Seq(PendingWrite)
  OBVIOUS
<1>5. [s.blocked EXCEPT !["EGRESS"] = <<>>] \in [FlowType -> Seq(PendingWrite)]
  BY <1>0, <1>4, FlowUpdate, FieldTypes, Zenon
<1>6. s' = AttemptResolvedConnection(t)
  BY Zenon DEF ConnectFailed
<1>. HIDE DEF bad
<1>7. Keeps(s, t)
  BY <1>2, <1>3, <1>5, Zenon DEF SessionType, Keeps, Finished
<1>. HIDE DEF t
<1>8. Keeps(t, AttemptResolvedConnection(t))
  BY <1>7, AttemptResolvedConnectionKeeps, Zenon DEF Keeps
<1>. QED  BY <1>6, <1>7, <1>8, KeepsTrans, Zenon

\* A closure that a command dispatched to the io thread keeps the session well
\* formed when it runs.
LEMMA RunPostedKeeps ==
    ASSUME s \in SessionType, RunPosted
    PROVE  Keeps(s, s')
<1>0. "EGRESS" \in FlowType
  BY DEF FlowType
<1>. DEFINE t(c) == [s EXCEPT !.posted = @ \ {c}]
<1>1. ASSUME NEW c PROVE Keeps(s, t(c))
  <2>1. s.posted \ {c} \in SUBSET {"both", "backend"}
    BY FieldTypes
  <2>. QED  BY <2>1, Zenon DEF SessionType, Keeps, Finished
<1>2. \/ s' = PerformDisconnectBoth(t("both"))
      \/ s' = Shutdown(t("backend"), "EGRESS")
  BY Zenon DEF RunPosted
<1>. HIDE DEF t
<1>3. t("both") \in SessionType /\ t("backend") \in SessionType
  BY <1>1, Zenon DEF Keeps
<1>4. Keeps(t("both"), PerformDisconnectBoth(t("both")))
  BY <1>3, PerformDisconnectBothKeeps, Zenon
<1>5. Keeps(t("backend"), Shutdown(t("backend"), "EGRESS"))
  BY <1>0, <1>3, ShutdownKeeps, Zenon
<1>6. Keeps(s, PerformDisconnectBoth(t("both")))
  BY <1>1, <1>4, KeepsTrans, Zenon
<1>7. Keeps(s, Shutdown(t("backend"), "EGRESS"))
  BY <1>1, <1>5, KeepsTrans, Zenon
<1>. QED  BY <1>2, <1>6, <1>7, Zenon

\* Every step of the io thread.
LEMMA IoStepKeeps ==
    ASSUME s \in SessionType, IoStep
    PROVE  Keeps(s, s')
<1>1. ASSUME NEW d \in FlowType, ShutdownDone(d) PROVE Keeps(s, s')
  BY <1>1, BasicKeeps, Zenon DEF ShutdownDone
<1>. QED  BY <1>1, ReadSomeKeeps, ErrorHandlersKeep, UnblockKeeps,
             EgressHandlersKeep, IngressHandshakeKeeps, ResolvedKeeps,
             ConnectedKeeps, ConnectFailedKeeps, RunPostedKeeps, Zenon
          DEF IoStep

\* Every command of the control thread.
LEMMA ControlStepKeeps ==
    ASSUME s \in SessionType, ControlStep
    PROVE  Keeps(s, s')
<1>0. "INGRESS" \in FlowType /\ "Close" \in FrameType
  BY DEF FlowType, FrameType, MethodType
<1>1. CASE SessionPause
  BY <1>1, Zenon DEF SessionPause, SessionType, Keeps, Finished
<1>2. CASE VhostPause
  <2>1. s' = [s EXCEPT !.vpaused = TRUE, !.paused = @ \/ s.vhost]
    BY <1>2, Zenon DEF VhostPause
  <2>. QED  BY <2>1, ZenonT(60) DEF SessionType, Keeps, Finished
<1>3. CASE VhostUnpause
  <2>. DEFINE t == [s EXCEPT !.vpaused = FALSE]
              u == [t EXCEPT !.ready = FALSE, !.paused = FALSE]
  <2>1. Keeps(s, t)
    BY Zenon DEF SessionType, Keeps, Finished
  <2>2. PICK rc \in Statuses : s' \in {t, Unpause(t, rc)}
    BY <1>3, Zenon DEF VhostUnpause
  <2>3. Unpause(t, rc)
          \in {t, Disconnect(t, FALSE), EstablishConnection(u, rc, FALSE)}
    <3>. HIDE DEF t
    <3>. QED  BY Zenon DEF Unpause
  <2>. HIDE DEF t
  <2>4. t \in SessionType
    BY <2>1, Zenon DEF Keeps
  <2>5. Keeps(t, u)
    BY <2>4, Zenon DEF SessionType, Keeps, Finished
  <2>. HIDE DEF u
  <2>6. Keeps(u, EstablishConnection(u, rc, FALSE))
    BY <2>5, EstablishConnectionKeeps, Zenon DEF Keeps
  <2>7. Keeps(t, EstablishConnection(u, rc, FALSE))
    BY <2>5, <2>6, KeepsTrans, Zenon
  <2>8. Keeps(t, Disconnect(t, FALSE)) /\ Keeps(t, t)
    BY <2>4, DisconnectKeeps, Zenon DEF Keeps
  <2>9. Keeps(t, s')
    BY <2>2, <2>3, <2>7, <2>8, Zenon
  <2>. QED  BY <2>1, <2>9, KeepsTrans, Zenon
<1>4. CASE DisconnectGraceful
  <2>. DEFINE t == [s EXCEPT !.conn = "CLIENT_CLOSE_SENT"]
  <2>1. "CLIENT_CLOSE_SENT" \in State
    BY DEF State
  <2>2. Keeps(s, t)
    BY <2>1, Zenon DEF SessionType, Keeps, Finished
  <2>3. s' = SendSyntheticData(t, "INGRESS", "Close", FALSE)
    BY <1>4, Zenon DEF DisconnectGraceful
  <2>. HIDE DEF t
  <2>4. Keeps(t, s')
    BY <1>0, <2>2, <2>3, SendSyntheticDataKeeps, Zenon DEF Keeps
  <2>. QED  BY <2>2, <2>4, KeepsTrans, Zenon
<1>5. CASE ForceDisconnect
  BY <1>5, DisconnectKeeps, Zenon DEF ForceDisconnect
<1>6. CASE BackendDisconnect
  <2>1. s.posted \cup {"backend"} \in SUBSET {"both", "backend"}
    BY FieldTypes
  <2>2. s' = [s EXCEPT !.posted = @ \cup {"backend"}]
    BY <1>6, Zenon DEF BackendDisconnect
  <2>. QED  BY <2>1, <2>2, Zenon DEF SessionType, Keeps, Finished
<1>. QED  BY <1>1, <1>2, <1>3, <1>4, <1>5, <1>6, Zenon DEF ControlStep

-----------------------------------------------------------------------------
(* The peers.                                                              *)

\* Frames that a peer puts on the wire leave a well formed session.
LEMMA FromPeerKeeps ==
    ASSUME NEW t \in SessionType, NEW side \in FlowType,
           NEW frames \in Seq(Frame)
    PROVE  Keeps(t, FromPeer(t, side, frames))
<1>. DEFINE u == [t EXCEPT !.in[side] = @ \o frames]
<1>1. t.in[side] \in Seq(Frame)
  BY FieldTypes, Zenon
<1>2. t.in[side] \o frames \in Seq(Frame)
  BY <1>1
<1>3. [t.in EXCEPT ![side] = @ \o frames] \in [FlowType -> Seq(Frame)]
  BY <1>2, FlowUpdate, FieldTypes, Zenon
<1>4. Keeps(t, u)
  BY <1>3, Zenon DEF SessionType, Keeps, Finished
<1>5. FromPeer(t, side, frames) \in {t, u}
  BY Zenon DEF FromPeer
<1>6. Keeps(t, t)
  BY Zenon DEF Keeps
<1>. HIDE DEF u
<1>. QED  BY <1>4, <1>5, <1>6, Zenon

\* A peer that takes what it was sent leaves a well formed wire.
LEMMA TookKeeps ==
    ASSUME NEW t \in SessionType, NEW side \in FlowType, t.out[side] # <<>>
    PROVE  Keeps(t, Took(t, side)) /\ Head(t.out[side]) \in Frame
<1>1. t.out[side] \in Seq(Frame)
  BY FieldTypes, Zenon
<1>2. Tail(t.out[side]) \in Seq(Frame) /\ Head(t.out[side]) \in Frame
  BY <1>1
<1>3. [t.out EXCEPT ![side] = Tail(@)] \in [FlowType -> Seq(Frame)]
  BY <1>2, FlowUpdate, FieldTypes, Zenon
<1>. QED  BY <1>2, <1>3, Zenon DEF Took, SessionType, Keeps, Finished

\* A peer that hangs up leaves a well formed wire.
LEMMA HangupKeeps ==
    ASSUME NEW t \in SessionType, NEW side \in FlowType
    PROVE  Keeps(t, Hangup(t, side))
<1>1. [t.fin EXCEPT ![side] = TRUE] \in [FlowType -> BOOLEAN]
  BY FlowUpdate, FieldTypes, Zenon
<1>2. [t.out EXCEPT ![side] = <<>>] \in [FlowType -> Seq(Frame)]
  BY Answers, FlowUpdate, FieldTypes, Zenon
<1>. QED  BY <1>1, <1>2, Zenon DEF Hangup, SessionType, Keeps, Finished

\* The updates the peers make to their own state.
LEMMA PeerUpdates ==
    ASSUME NEW p \in PeerType
    PROVE  /\ \A st \in PeerState, b \in BOOLEAN :
                 /\ [p EXCEPT !.st = st] \in PeerType
                 /\ [p EXCEPT !.st = st, !.opened = b] \in PeerType
           /\ \A n \in Nat : [p EXCEPT !.got = n] \in PeerType
           /\ [p EXCEPT !.sent = @ + 1] \in PeerType
           /\ [p EXCEPT !.hb = @ + 1] \in PeerType
           /\ p.sent + 1 \in Nat
           /\ p.opened \in BOOLEAN
<1>1. p.sent + 1 \in Nat /\ p.hb + 1 \in Nat
  BY DEF PeerType
<1>. QED  BY <1>1, Zenon DEF PeerType

\* The states of the client and of the broker that their steps use are in their
\* types.
LEMMA PeerStates ==
    {"none", "accepted", "header", "startok", "tuned", "opening", "open",
     "closing", "gone"} \subseteq PeerState
BY DEF PeerState

\* A numbered content frame within the bound is a frame.
LEMMA ContentType ==
    ASSUME NEW n \in Nat
    PROVE  <<[type |-> "Content", n |-> n]>> \in Seq(Frame)
BY DEF Frame, FrameType

\* The answers of the client.
LEMMA ClientReplyKeeps ==
    ASSUME NEW t \in SessionType, client \in PeerType, NEW f \in Frame,
           ClientReply(f, t)
    PROVE  Keeps(t, s') /\ client' \in PeerType
<1>0. "INGRESS" \in FlowType /\ f.n \in Nat /\ f.type \in FrameType
  BY DEF FlowType, Frame
<1>1. \/ \E q \in {<<Frm("StartOk")>>, <<Frm("TuneOk"), Frm("Open")>>,
                   <<Frm("CloseOk")>>} : s' = FromPeer(t, "INGRESS", q)
      \/ s' = t \/ s' = Hangup(t, "INGRESS")
  BY DEF ClientReply
<1>2. \/ \E st \in {"startok", "opening", "closing", "gone"} :
            client' = [client EXCEPT !.st = st]
      \/ client' = [client EXCEPT !.st = "open", !.opened = TRUE]
      \/ client' = [client EXCEPT !.got = f.n]
      \/ client' = client
  BY DEF ClientReply
<1>3. Keeps(t, s')
  <2>1. \A q \in Seq(Frame) : Keeps(t, FromPeer(t, "INGRESS", q))
    BY <1>0, FromPeerKeeps, Zenon
  <2>2. Keeps(t, t) /\ Keeps(t, Hangup(t, "INGRESS"))
    BY <1>0, HangupKeeps, Zenon DEF Keeps
  <2>. QED  BY <1>1, <2>1, <2>2, Answers, Zenon
<1>4. client' \in PeerType
  <2>2. \A st \in {"startok", "opening", "closing", "gone"} :
           [client EXCEPT !.st = st] \in PeerType
    BY PeerStates, PeerUpdates, ZenonT(30)
  <2>3. [client EXCEPT !.st = "open", !.opened = TRUE] \in PeerType
    BY PeerStates, PeerUpdates, ZenonT(30)
  <2>4. [client EXCEPT !.got = f.n] \in PeerType
    BY <1>0, PeerUpdates, Zenon
  <2>. QED  BY <1>2, <2>2, <2>3, <2>4, Zenon
<1>. QED  BY <1>3, <1>4, Zenon

\* The answers of the broker.
LEMMA BrokerReplyKeeps ==
    ASSUME NEW t \in SessionType, broker \in PeerType, NEW f \in Frame,
           BrokerReply(f, t)
    PROVE  Keeps(t, s') /\ broker' \in PeerType
<1>0. "EGRESS" \in FlowType /\ f.n \in Nat /\ f.type \in FrameType
  BY DEF FlowType, Frame
<1>1. \A q \in Seq(Frame), st \in PeerState :
         BrokerAnswer(t, q, st) => Keeps(t, s') /\ broker' \in PeerType
  <2>. SUFFICES ASSUME NEW q \in Seq(Frame), NEW st \in PeerState,
                       BrokerAnswer(t, q, st)
                PROVE  Keeps(t, s') /\ broker' \in PeerType
    BY Zenon
  <2>1. (broker.opened \/ st = "open") \in BOOLEAN
    OBVIOUS
  <2>2. broker' = [broker EXCEPT !.st = st,
                                 !.opened = broker.opened \/ st = "open"]
    BY Zenon DEF BrokerAnswer, PeerType
  <2>3. broker' \in PeerType
    BY <2>1, <2>2, PeerUpdates, ZenonT(30)
  <2>4. Keeps(t, s')
    BY <1>0, FromPeerKeeps, Zenon DEF BrokerAnswer
  <2>. QED  BY <2>3, <2>4, Zenon
<1>2. \/ \E q \in {<<>>, <<Frm("Start")>>, <<Frm("Tune")>>, <<Frm("OpenOk")>>,
                   <<Frm("Close")>>, <<Frm("CloseOk")>>},
            st \in {"header", "startok", "tuned", "open", "closing"} :
            BrokerAnswer(t, q, st)
      \/ s' = t /\ broker' = [broker EXCEPT !.got = f.n]
      \/ s' = Hangup(t, "EGRESS") /\ broker' = [broker EXCEPT !.st = "gone"]
      \/ s' = t /\ broker' = broker
  BY DEF BrokerReply
<1>3. {<<>>, <<Frm("Start")>>, <<Frm("Tune")>>, <<Frm("OpenOk")>>,
       <<Frm("Close")>>, <<Frm("CloseOk")>>} \subseteq Seq(Frame)
  BY Answers, Zenon
<1>4. {"header", "startok", "tuned", "open", "closing"} \subseteq PeerState
  BY DEF PeerState
<1>5. CASE \E q \in {<<>>, <<Frm("Start")>>, <<Frm("Tune")>>,
                     <<Frm("OpenOk")>>, <<Frm("Close")>>, <<Frm("CloseOk")>>},
              st \in {"header", "startok", "tuned", "open", "closing"} :
              BrokerAnswer(t, q, st)
  <2>1. PICK q \in Seq(Frame), st \in PeerState : BrokerAnswer(t, q, st)
    BY <1>3, <1>4, <1>5, Zenon
  <2>. QED  BY <1>1, <2>1, Zenon
<1>6. [broker EXCEPT !.got = f.n] \in PeerType
  BY <1>0, PeerUpdates, Zenon
<1>7. [broker EXCEPT !.st = "gone"] \in PeerType
  BY PeerStates, PeerUpdates, ZenonT(30)
<1>8. Keeps(t, t) /\ Keeps(t, Hangup(t, "EGRESS"))
  BY <1>0, HangupKeeps, Zenon DEF Keeps
<1>. QED  BY <1>2, <1>5, <1>6, <1>7, <1>8, Zenon

\* A step of a peer keeps the types and never revives a finished session.
LEMMA PeerStepKeeps ==
    ASSUME TypeOK, PeerStep
    PROVE  TypeOK' /\ Keeps(s, s')
<1>0. /\ "INGRESS" \in FlowType /\ "EGRESS" \in FlowType
      /\ s \in SessionType /\ client \in PeerType /\ broker \in PeerType
      /\ cmds \in Nat
  BY Zenon DEF FlowType, TypeOK
<1>1. SUFFICES /\ Keeps(s, s') /\ client' \in PeerType /\ broker' \in PeerType
               /\ cmds' \in Nat
  BY <1>1, Zenon DEF Keeps, TypeOK
<1>2. \A q \in Seq(Frame) : /\ Keeps(s, FromPeer(s, "INGRESS", q))
                            /\ Keeps(s, FromPeer(s, "EGRESS", q))
  BY <1>0, FromPeerKeeps, Zenon
<1>3. Keeps(s, Hangup(s, "INGRESS")) /\ Keeps(s, Hangup(s, "EGRESS"))
  BY <1>0, HangupKeeps, Zenon
<1>4. \A p \in PeerType :
         /\ [p EXCEPT !.st = "header"] \in PeerType
         /\ [p EXCEPT !.st = "closing"] \in PeerType
         /\ [p EXCEPT !.st = "gone"] \in PeerType
         /\ [p EXCEPT !.sent = @ + 1] \in PeerType
         /\ [p EXCEPT !.hb = @ + 1] \in PeerType
  BY PeerStates, PeerUpdates, ZenonT(30)
<1>5. \A x \in FrameType : <<Frm(x)>> \in Seq(Frame)
  BY FrmType
<1>6. {"Header", "OldHeader", "Heartbeat", "Close"} \subseteq FrameType
  BY DEF FrameType, MethodType
<1>7. CASE ClientStart
  <2>1. PICK h \in {"Header", "OldHeader"} :
           s' = FromPeer(s, "INGRESS", <<Frm(h)>>)
    BY <1>7 DEF ClientStart
  <2>2. Keeps(s, s')
    BY <1>2, <1>5, <1>6, <2>1, ZenonT(30)
  <2>. QED  BY <1>0, <1>4, <1>7, <2>2, Zenon DEF ClientStart
<1>8. CASE ClientReceive
  <2>. DEFINE t == Took(s, "INGRESS")
              f == Head(s.out["INGRESS"])
  <2>1. s.out["INGRESS"] # <<>> /\ ClientReply(f, t)
    BY <1>8, Zenon DEF ClientReceive
  <2>2. Keeps(s, t) /\ f \in Frame
    BY <1>0, <2>1, TookKeeps, Zenon
  <2>. HIDE DEF t, f
  <2>3. Keeps(t, s') /\ client' \in PeerType
    BY <1>0, <2>1, <2>2, ClientReplyKeeps, Zenon DEF Keeps
  <2>4. Keeps(s, s')
    BY <2>2, <2>3, KeepsTrans, Zenon
  <2>. QED  BY <1>0, <1>8, <2>3, <2>4, Zenon DEF ClientReceive
<1>9. CASE ClientSend
  <2>1. <<[type |-> "Content", n |-> client.sent + 1]>> \in Seq(Frame)
    BY <1>0, PeerUpdates, ContentType, Zenon
  <2>2. Keeps(s, s')
    BY <1>2, <1>5, <1>6, <1>9, <2>1, ZenonT(30) DEF ClientSend
  <2>. QED  BY <1>0, <1>4, <1>9, <2>2, Zenon DEF ClientSend
<1>10. CASE ClientGone
  BY <1>0, <1>3, <1>4, <1>10, Zenon DEF ClientGone
<1>11. CASE BrokerReceive
  <2>. DEFINE t == Took(s, "EGRESS")
              f == Head(s.out["EGRESS"])
  <2>1. s.out["EGRESS"] # <<>> /\ BrokerReply(f, t)
    BY <1>11, Zenon DEF BrokerReceive
  <2>2. Keeps(s, t) /\ f \in Frame
    BY <1>0, <2>1, TookKeeps, Zenon
  <2>. HIDE DEF t, f
  <2>3. Keeps(t, s') /\ broker' \in PeerType
    BY <1>0, <2>1, <2>2, BrokerReplyKeeps, Zenon DEF Keeps
  <2>4. Keeps(s, s')
    BY <2>2, <2>3, KeepsTrans, Zenon
  <2>. QED  BY <1>0, <1>11, <2>3, <2>4, Zenon DEF BrokerReceive
<1>12. CASE BrokerSend
  <2>1. <<[type |-> "Content", n |-> broker.sent + 1]>> \in Seq(Frame)
    BY <1>0, PeerUpdates, ContentType, Zenon
  <2>2. Keeps(s, s')
    BY <1>2, <1>5, <1>6, <1>12, <2>1, ZenonT(30) DEF BrokerSend
  <2>. QED  BY <1>0, <1>4, <1>12, <2>2, Zenon DEF BrokerSend
<1>13. CASE BrokerGone
  BY <1>0, <1>3, <1>4, <1>13, Zenon DEF BrokerGone
<1>. QED  BY <1>7, <1>8, <1>9, <1>10, <1>11, <1>12, <1>13, Zenon DEF PeerStep

-----------------------------------------------------------------------------
(* The theorems.                                                           *)

\* The session after start() and its peers are well typed.
LEMMA InitTypeOK == Init => TypeOK
<1>. SUFFICES ASSUME Init PROVE TypeOK
  OBVIOUS
<1>. PICK tls \in Tls, proxy \in ProxyProtocol : s = NewSession(tls, proxy)
  BY DEF Init
<1>1. client \in PeerType /\ broker \in PeerType /\ cmds \in Nat
  BY DEF Init, NewPeer, PeerType, PeerState
<1>2. /\ "AWAITING_PROTOCOL_HEADER" \in State
      /\ "NOT_DISCONNECTED" \in DisconnectType
      /\ "none" \in Pipeline
      /\ ("INGRESS" \in tls) \in BOOLEAN
      /\ [d \in FlowType |-> IF d = "INGRESS" THEN "open" ELSE "closed"]
            \in [FlowType -> {"closed", "connecting", "open", "shut"}]
      /\ [d \in FlowType |-> IF d = "INGRESS" /\ "INGRESS" \notin tls
                             THEN 1 ELSE 0] \in [FlowType -> Nat]
      /\ [d \in FlowType |-> 0] \in [FlowType -> Nat]
      /\ [d \in FlowType |-> FALSE] \in [FlowType -> BOOLEAN]
      /\ {} \in SUBSET {"both", "backend"}
      /\ 0 \in Nat
  BY DEF State, DisconnectType, Pipeline
<1>3. /\ [d \in FlowType |-> <<>>] \in [FlowType -> Seq(Frame)]
      /\ [d \in FlowType |-> <<>>] \in [FlowType -> Seq(PendingWrite)]
  OBVIOUS
<1>4. tls \in SUBSET FlowType /\ proxy \in BOOLEAN
  BY ConstantsAssumption, Zenon
<1>5. s \in SessionType
  BY <1>2, <1>3, <1>4, Zenon DEF NewSession, SessionType
<1>. QED  BY <1>1, <1>5, Zenon DEF TypeOK

\* The other variables under a step of the io thread or a command.
LEMMA PeersKeep ==
    ASSUME TypeOK, IoStep \/ ControlStep
    PROVE  client' \in PeerType /\ broker' \in PeerType /\ cmds' \in Nat
<1>0. client \in PeerType /\ broker \in PeerType /\ cmds \in Nat
  BY Zenon DEF TypeOK
<1>1. CASE ControlStep
  <2>1. client' = client /\ broker' = broker /\ cmds' = cmds + 1
    BY <1>1, Zenon DEF ControlStep, SessionPause, VhostPause, VhostUnpause,
       DisconnectGraceful, ForceDisconnect, BackendDisconnect, Issue
  <2>. QED  BY <1>0, <2>1
<1>2. CASE IoStep
  <2>1. [broker EXCEPT !.st = "accepted"] \in PeerType
    BY <1>0, PeerStates, PeerUpdates, ZenonT(30)
  <2>2. CASE Connected \/ ConnectFailed
    BY <1>0, <2>1, <2>2, Zenon DEF Connected, ConnectFailed, Peers
  <2>3. CASE \E d \in FlowType :
                \/ ReadSome(d) \/ ReadEof(d) \/ OperationAborted(d)
                \/ OperationFailed(d) \/ WriteDone(d) \/ Unblock(d)
                \/ ShutdownDone(d)
    BY <1>0, <2>3, Zenon DEF ReadSome, ReadEof, OperationAborted,
       OperationFailed, WriteDone, Unblock, ShutdownDone, Peers
  <2>4. CASE \/ IngressHandshake \/ LimitTimer \/ AuthResponse \/ Resolved
             \/ ResolveFailed \/ ProxyHeaderWritten \/ EgressTls \/ RunPosted
    BY <1>0, <2>4, Zenon DEF IngressHandshake, LimitTimer, AuthResponse,
       Resolved, ResolveFailed, ProxyHeaderWritten, EgressTls, RunPosted, Peers
  <2>. QED  BY <1>2, <2>2, <2>3, <2>4, Zenon DEF IoStep
<1>. QED  BY <1>1, <1>2, Zenon

\* Every step keeps the types and never revives a finished session.
LEMMA NextKeeps ==
    ASSUME TypeOK, [Next]_vars
    PROVE  TypeOK' /\ (Finished(s) => Finished(s'))
<1>0. s \in SessionType
  BY Zenon DEF TypeOK
<1>1. CASE IoStep \/ ControlStep
  <2>1. Keeps(s, s')
    BY <1>0, <1>1, IoStepKeeps, ControlStepKeeps, Zenon
  <2>2. client' \in PeerType /\ broker' \in PeerType /\ cmds' \in Nat
    BY <1>1, PeersKeep, Zenon
  <2>. QED  BY <2>1, <2>2, Zenon DEF Keeps, TypeOK
<1>2. CASE PeerStep
  BY <1>2, PeerStepKeeps, Zenon DEF Keeps
<1>3. CASE UNCHANGED vars
  BY <1>3, Zenon DEF vars, TypeOK, Finished
<1>. QED  BY <1>1, <1>2, <1>3, Zenon DEF Next

\* Whatever the peers, the services and the operator do, for any number of
\* backends, endpoints, commands and frames: every handler of Session leaves
\* the session, its buffers and its pending operations well formed.
THEOREM TypeCorrect == Spec => []TypeOK
<1>1. Init => TypeOK
  BY InitTypeOK
<1>2. TypeOK /\ [Next]_vars => TypeOK'
  BY NextKeeps
<1>. QED  BY <1>1, <1>2, PTL DEF Spec

\* No handler, timer, retry or command takes a session back from the sessions
\* that SessionCleanup may remove (Session::finished()).
THEOREM FinishedForGood == Spec => FinishedIsStable
<1>1. TypeOK /\ [Next]_vars => [Finished(s) => Finished(s')]_vars
  BY NextKeeps
<1>. QED  BY <1>1, TypeCorrect, PTL DEF Spec, FinishedIsStable

-----------------------------------------------------------------------------
(* What the methods do to the pending operations, to the frames on their   *)
(* way to the client and to the egress connection.                         *)

\* The frames that a client sends, those that a broker sends before (o = FALSE)
\* and after it accepted an Open, and those that may be on their way to the
\* client.
ClientFrame == {f \in Frame : f.type \notin {"Start", "Tune", "OpenOk"}}
BrokerFrame(o) ==
    {f \in Frame : f.type \in {"Start", "Tune", "Close", "CloseOk", "Content"}
                   \/ (o /\ f.type = "OpenOk")}
ToClient(o) == {f \in Frame : f.type = "OpenOk" => o}
WriteToClient(o) == [flow : FlowType, msgs : Seq(ToClient(o))]

\* What the read sockets, the read buffers and the writes to the client hold.
Flows(t, o) ==
    /\ t.in["INGRESS"] \in Seq(ClientFrame) /\ t.buf["INGRESS"] \in Seq(ClientFrame)
    /\ t.in["EGRESS"] \in Seq(BrokerFrame(o)) /\ t.buf["EGRESS"] \in Seq(BrokerFrame(o))
    /\ t.out["INGRESS"] \in Seq(ToClient(o))
    /\ t.blocked["INGRESS"] \in Seq(WriteToClient(o))

\* One operation, if x is y.
One(x, y) == IF x = y THEN 1 ELSE 0

\* The operations pending for a flow in the state t.
Ops(t, d) ==
    t.rd[d] + t.wd[d] + t.ab[d] + t.bad[d]
    + BlockedOf(t.blocked["INGRESS"], d) + BlockedOf(t.blocked["EGRESS"], d)

\* What reading, writing and closing leave alone.
Same(t, u) ==
    /\ u.conn = t.conn /\ u.paused = t.paused /\ u.ready = t.ready
    /\ u.vhost = t.vhost /\ u.vpaused = t.vpaused /\ u.allowed = t.allowed
    /\ u.shake = t.shake /\ u.eg = t.eg

Quiet(t, u, o) ==
    /\ u \in SessionType /\ Same(t, u)
    /\ u.sock["EGRESS"] # "closed" => t.sock["EGRESS"] # "closed"
    /\ Flows(t, o) => Flows(u, o)

\* The two flows of a session.
LEMMA Sides == "INGRESS" \in FlowType /\ "EGRESS" \in FlowType
BY DEF FlowType

\* Two quiet steps of a handler in a row are quiet.
LEMMA QuietTrans ==
    ASSUME NEW t, NEW u, NEW v, NEW o, Quiet(t, u, o), Quiet(u, v, o)
    PROVE  Quiet(t, v, o)
BY Zenon DEF Quiet, Same

\* A per flow function that is updated at one flow.
LEMMA FlowLookup ==
    ASSUME NEW S, NEW f \in [FlowType -> S], NEW x, NEW d \in FlowType
    PROVE  \A e \in FlowType : [f EXCEPT ![d] = x][e] = IF e = d THEN x ELSE f[e]
OBVIOUS

\* The counts that Ops adds up are numbers.
LEMMA CountTypes ==
    ASSUME NEW t \in SessionType
    PROVE  \A e \in FlowType :
              /\ t.rd[e] \in Nat /\ t.wd[e] \in Nat
              /\ t.ab[e] \in Nat /\ t.bad[e] \in Nat
              /\ BlockedOf(t.blocked["INGRESS"], e) \in Nat
              /\ BlockedOf(t.blocked["EGRESS"], e) \in Nat
              /\ t.rd[e] + t.wd[e] + t.ab[e] + t.bad[e] \in Nat
              /\ Ops(t, e) \in Nat
<1>1. ASSUME NEW e \in FlowType
      PROVE  /\ t.rd[e] \in Nat /\ t.wd[e] \in Nat
             /\ t.ab[e] \in Nat /\ t.bad[e] \in Nat
             /\ BlockedOf(t.blocked["INGRESS"], e) \in Nat
             /\ BlockedOf(t.blocked["EGRESS"], e) \in Nat
  BY BlockedOfType, FieldTypes, Sides, ZenonT(40)
<1>2. ASSUME NEW e \in FlowType
      PROVE  /\ t.rd[e] + t.wd[e] + t.ab[e] + t.bad[e] \in Nat
             /\ Ops(t, e) \in Nat
  BY <1>1, SMT DEF Ops
<1>. QED  BY <1>1, <1>2, Zenon

\* No write waits in an empty queue.
LEMMA BlockedOfEmpty == \A d : BlockedOf(<<>>, d) = 0
<1>1. ASSUME NEW d PROVE {i \in DOMAIN <<>> : <<>>[i].flow = d} = {}
  OBVIOUS
<1>. QED  BY <1>1, FS_EmptySet, Zenon DEF BlockedOf

\* A write put at the end of a queue that waits for the socket is one more
\* write of its flow.
LEMMA BlockedOfAppend ==
    ASSUME NEW q \in Seq(PendingWrite), NEW w \in PendingWrite, NEW d
    PROVE  BlockedOf(Append(q, w), d)
             = BlockedOf(q, d) + One(w.flow, d)
<1>. DEFINE D(x) == {i \in DOMAIN x : x[i].flow = d}
<1>1. D(q) \subseteq 1..Len(q) /\ IsFiniteSet(D(q)) /\ Len(q) + 1 \notin D(q)
  <2>1. D(q) \subseteq 1..Len(q) /\ Len(q) + 1 \notin D(q)
    OBVIOUS
  <2>2. IsFiniteSet(1..Len(q))
    BY FS_Interval
  <2>. QED  BY <2>1, <2>2, FS_Subset, Zenon
<1>2. D(Append(q, w)) = IF w.flow = d THEN D(q) \cup {Len(q) + 1} ELSE D(q)
  OBVIOUS
<1>3. Cardinality(D(q) \cup {Len(q) + 1}) = Cardinality(D(q)) + 1
  BY <1>1, FS_AddElement, Zenon
<1>4. Cardinality(D(q)) \in Nat
  BY <1>1, FS_CardinalityType, Zenon
<1>. HIDE DEF D
<1>5. Cardinality(D(Append(q, w)))
        = Cardinality(D(q)) + One(w.flow, d)
  BY <1>2, <1>3, <1>4, SMT DEF One
<1>. QED  BY <1>5, Zenon DEF BlockedOf, D

\* The first write of a queue that waits for the socket, taken off it, is one
\* write of its flow less.
LEMMA BlockedOfTail ==
    ASSUME NEW q \in Seq(PendingWrite), q # <<>>, NEW d
    PROVE  BlockedOf(q, d)
             = BlockedOf(Tail(q), d) + One(Head(q).flow, d)
<1>. DEFINE D(x) == {i \in DOMAIN x : x[i].flow = d}
            R == D(q) \ {1}
            f == [i \in D(Tail(q)) |-> i + 1]
<1>1. IsFiniteSet(D(q)) /\ IsFiniteSet(D(Tail(q)))
  <2>1. D(q) \subseteq 1..Len(q) /\ D(Tail(q)) \subseteq 1..Len(q)
    OBVIOUS
  <2>2. IsFiniteSet(1..Len(q))
    BY FS_Interval
  <2>. QED  BY <2>1, <2>2, FS_Subset, Zenon
<1>2. f \in Bijection(D(Tail(q)), R)
  <2>1. f \in [D(Tail(q)) -> R]
    OBVIOUS
  <2>2. \A i, j \in D(Tail(q)) : f[i] = f[j] => i = j
    OBVIOUS
  <2>3. \A j \in R : \E i \in D(Tail(q)) : f[i] = j
    <3>. TAKE j \in R
    <3>1. j - 1 \in D(Tail(q)) /\ f[j - 1] = j
      OBVIOUS
    <3>. QED  BY <3>1, Zenon
  <2>. HIDE DEF f, R, D
  <2>. QED  BY <2>1, <2>2, <2>3, Zenon DEF Bijection, Injection, Surjection, IsInjective
<1>3. Cardinality(R) = Cardinality(D(Tail(q)))
  BY <1>1, <1>2, FS_Bijection, ZenonT(40) DEF ExistsBijection
<1>4. Cardinality(R) = IF 1 \in D(q) THEN Cardinality(D(q)) - 1 ELSE Cardinality(D(q))
  BY <1>1, FS_RemoveElement, Zenon
<1>5. 1 \in D(q) <=> Head(q).flow = d
  OBVIOUS
<1>6. Cardinality(D(q)) \in Nat /\ Cardinality(D(Tail(q))) \in Nat
  BY <1>1, FS_CardinalityType, Zenon
<1>. HIDE DEF R, D
<1>7. Cardinality(D(q))
        = Cardinality(D(Tail(q))) + One(Head(q).flow, d)
  BY <1>3, <1>4, <1>5, <1>6, SMT DEF One
<1>. QED  BY <1>7, Zenon DEF BlockedOf, D

\* An operation of the flow d is started, or fails at once; the writes that wait
\* at a socket become q.
Started(t, u, d) ==
    /\ u.ab = t.ab /\ u.blocked = t.blocked
    /\ \/ /\ u.rd = [t.rd EXCEPT ![d] = t.rd[d] + 1]
          /\ u.wd = t.wd /\ u.bad = t.bad
       \/ /\ u.wd = [t.wd EXCEPT ![d] = t.wd[d] + 1]
          /\ u.rd = t.rd /\ u.bad = t.bad
       \/ /\ u.bad = [t.bad EXCEPT ![d] = t.bad[d] + 1]
          /\ u.rd = t.rd /\ u.wd = t.wd
SameCounts(t, u) == u.rd = t.rd /\ u.wd = t.wd /\ u.ab = t.ab /\ u.bad = t.bad
Queued(t, u, side, q) ==
    SameCounts(t, u) /\ u.blocked = [t.blocked EXCEPT ![side] = q]

\* async_read or async_write started for a flow is one more pending operation
\* of it, and none of the other flow.
LEMMA OpsStarted ==
    ASSUME NEW t \in SessionType, NEW u, NEW d \in FlowType, Started(t, u, d)
    PROVE  \A e \in FlowType : Ops(u, e) = Ops(t, e) + One(d, e)
<1>. SUFFICES ASSUME NEW e \in FlowType
              PROVE  Ops(u, e) = Ops(t, e) + One(d, e)
  OBVIOUS
<1>1. /\ t.rd[e] \in Nat /\ t.wd[e] \in Nat /\ t.ab[e] \in Nat /\ t.bad[e] \in Nat
      /\ BlockedOf(t.blocked["INGRESS"], e) \in Nat
      /\ BlockedOf(t.blocked["EGRESS"], e) \in Nat
  BY CountTypes, Zenon
<1>2. /\ t.rd \in [FlowType -> Nat] /\ t.wd \in [FlowType -> Nat]
      /\ t.bad \in [FlowType -> Nat]
  BY FieldTypes, Zenon
<1>. QED  BY <1>1, <1>2, SMT DEF Ops, One, Started

\* The same for a write that waits because the socket does not take it yet.
LEMMA OpsQueued ==
    ASSUME NEW t \in SessionType, NEW u, NEW side \in FlowType,
           NEW q \in Seq(PendingWrite), NEW e \in FlowType,
           Queued(t, u, side, q)
    PROVE  Ops(u, e) = (Ops(t, e) - BlockedOf(t.blocked[side], e)) + BlockedOf(q, e)
<1>. DEFINE a == BlockedOf(u.blocked["INGRESS"], e)
            b == BlockedOf(u.blocked["EGRESS"], e)
            c == BlockedOf(t.blocked["INGRESS"], e)
            d == BlockedOf(t.blocked["EGRESS"], e)
            k == t.rd[e] + t.wd[e] + t.ab[e] + t.bad[e]
            x == BlockedOf(q, e)
            y == BlockedOf(t.blocked[side], e)
<1>1. t.blocked \in [FlowType -> Seq(PendingWrite)]
  BY FieldTypes, Zenon
<1>2. \A z \in FlowType : u.blocked[z] = IF z = side THEN q ELSE t.blocked[z]
  BY <1>1, FlowLookup, Zenon DEF Queued
<1>3. "INGRESS" # "EGRESS"
  OBVIOUS
<1>4. x \in Nat /\ c \in Nat /\ d \in Nat /\ k \in Nat
  BY BlockedOfType, CountTypes, Zenon
<1>5. (a = x /\ b = d /\ y = c) \/ (a = c /\ b = x /\ y = d)
  <2>1. CASE side = "INGRESS"
    BY <1>2, <1>3, <2>1, Sides, Zenon
  <2>2. CASE side = "EGRESS"
    BY <1>2, <1>3, <2>2, Sides, Zenon
  <2>. QED  BY <2>1, <2>2, Zenon DEF FlowType
<1>6. /\ u.rd[e] = t.rd[e] /\ u.wd[e] = t.wd[e] /\ u.ab[e] = t.ab[e]
      /\ u.bad[e] = t.bad[e]
  BY Zenon DEF Queued, SameCounts
<1>7. Ops(u, e) = k + a + b /\ Ops(t, e) = k + c + d
  BY <1>6, Zenon DEF Ops
<1>8. k + a + b = ((k + c + d) - y) + x
  <2>. HIDE DEF a, b, c, d, k, x, y
  <2>. QED  BY <1>4, <1>5, SMT
<1>. QED  BY <1>7, <1>8, Zenon

\* readData starts one operation of its flow: a read, or one that fails at
\* once because the socket is closed.
LEMMA ReadDataEffect ==
    ASSUME NEW t \in SessionType, NEW d \in FlowType, NEW o
    PROVE  LET u == ReadData(t, d)
           IN  /\ Quiet(t, u, o) /\ u.disc = t.disc
               /\ \A e \in FlowType :
                     Ops(u, e) = Ops(t, e) + One(d, e)
<1>. DEFINE b == [t EXCEPT !.bad[d] = @ + 1]
            r == [t EXCEPT !.rd[d] = @ + 1]
            u == ReadData(t, d)
<1>1. u \in SessionType /\ u.disc = t.disc
  BY ReadDataType, Zenon
<1>2. /\ Same(t, b) /\ b.sock = t.sock /\ b.in = t.in /\ b.buf = t.buf
      /\ b.out = t.out /\ b.blocked = t.blocked /\ b.rd = t.rd /\ b.wd = t.wd
      /\ b.ab = t.ab /\ b.bad = [t.bad EXCEPT ![d] = t.bad[d] + 1]
  BY Zenon DEF SessionType, Same
<1>3. /\ Same(t, r) /\ r.sock = t.sock /\ r.in = t.in /\ r.buf = t.buf
      /\ r.out = t.out /\ r.blocked = t.blocked /\ r.bad = t.bad /\ r.wd = t.wd
      /\ r.ab = t.ab /\ r.rd = [t.rd EXCEPT ![d] = t.rd[d] + 1]
  BY Zenon DEF SessionType, Same
<1>4. t.rd \in [FlowType -> Nat] /\ t.bad \in [FlowType -> Nat]
  BY FieldTypes, Zenon
<1>5. u = b \/ u = r
  BY DEF ReadData
<1>. HIDE DEF b, r, u
<1>6. Quiet(t, u, o)
  BY <1>1, <1>2, <1>3, <1>5, Zenon DEF Quiet, Flows
<1>7. \A e \in FlowType : Ops(u, e) = Ops(t, e) + One(d, e)
  <2>1. Started(t, u, d)
    BY <1>2, <1>3, <1>5, Zenon DEF Started
  <2>. QED  BY <2>1, OpsStarted, Zenon
<1>. QED  BY <1>1, <1>6, <1>7, Zenon DEF u

\* handleWriteData starts one operation of the flow it goes on with: a write,
\* one that waits for the socket, or one that fails; to the client it adds
\* only what may be sent to it.
LEMMA WriteEffect ==
    ASSUME NEW t \in SessionType, NEW d \in FlowType, NEW side \in FlowType,
           NEW data \in Seq(Frame), NEW o,
           side = "INGRESS" => data \in Seq(ToClient(o))
    PROVE  LET u == HandleWriteData(t, d, side, data)
           IN  /\ Quiet(t, u, o) /\ u.disc = t.disc
               /\ \A e \in FlowType :
                     Ops(u, e) = Ops(t, e) + One(d, e)
<1>. DEFINE w == [flow |-> d, msgs |-> data]
            failed == [t EXCEPT !.bad[d] = @ + 1]
            sent == [t EXCEPT !.wd[d] = @ + 1, !.out[side] = @ \o data]
            waits == [t EXCEPT !.blocked[side] = Append(@, w)]
            u == HandleWriteData(t, d, side, data)
<1>1. u \in SessionType /\ u.disc = t.disc
  BY HandleWriteDataType, Zenon
<1>2. u \in {failed, sent, waits}
  BY DEF HandleWriteData
<1>3. /\ w \in PendingWrite /\ w.flow = d
      /\ side = "INGRESS" => w \in WriteToClient(o)
  BY DEF PendingWrite, WriteToClient
<1>. HIDE DEF w
<1>4. /\ Same(t, failed) /\ failed.sock = t.sock /\ failed.in = t.in
      /\ failed.buf = t.buf /\ failed.out = t.out /\ failed.blocked = t.blocked
      /\ failed.rd = t.rd /\ failed.wd = t.wd /\ failed.ab = t.ab
      /\ failed.bad = [t.bad EXCEPT ![d] = t.bad[d] + 1]
  BY Zenon DEF SessionType, Same
<1>5. /\ Same(t, sent) /\ sent.sock = t.sock /\ sent.in = t.in
      /\ sent.buf = t.buf /\ sent.out = [t.out EXCEPT ![side] = t.out[side] \o data]
      /\ sent.blocked = t.blocked /\ sent.rd = t.rd
      /\ sent.wd = [t.wd EXCEPT ![d] = t.wd[d] + 1]
      /\ sent.ab = t.ab /\ sent.bad = t.bad
  BY Zenon DEF SessionType, Same
<1>6. /\ Same(t, waits) /\ waits.sock = t.sock /\ waits.in = t.in
      /\ waits.buf = t.buf /\ waits.out = t.out
      /\ waits.blocked = [t.blocked EXCEPT ![side] = Append(t.blocked[side], w)]
      /\ waits.rd = t.rd /\ waits.wd = t.wd /\ waits.ab = t.ab /\ waits.bad = t.bad
  BY Zenon DEF SessionType, Same
<1>7. /\ t.bad \in [FlowType -> Nat] /\ t.wd \in [FlowType -> Nat]
      /\ t.out \in [FlowType -> Seq(Frame)]
      /\ t.blocked \in [FlowType -> Seq(PendingWrite)]
  BY FieldTypes, Zenon
<1>. HIDE DEF failed, sent, waits, u
<1>8. Quiet(t, u, o)
  <2>1. Same(t, u) /\ u.sock = t.sock /\ u.in = t.in /\ u.buf = t.buf
    BY <1>2, <1>4, <1>5, <1>6, Zenon
  <2>2. t.out["INGRESS"] \in Seq(ToClient(o)) => u.out["INGRESS"] \in Seq(ToClient(o))
    <3>1. CASE u = sent /\ side = "INGRESS"
      <4>1. u.out["INGRESS"] = t.out["INGRESS"] \o data
        BY <1>5, <1>7, <3>1, Zenon
      <4>. QED  BY <3>1, <4>1
    <3>2. CASE ~(u = sent /\ side = "INGRESS")
      <4>1. side # "INGRESS" => sent.out["INGRESS"] = t.out["INGRESS"]
        BY <1>5, <1>7, FlowLookup, Sides, Zenon
      <4>2. u.out["INGRESS"] = t.out["INGRESS"]
        BY <1>2, <1>4, <1>6, <3>2, <4>1, Zenon
      <4>. QED  BY <4>2, Zenon
    <3>. QED  BY <3>1, <3>2, Zenon
  <2>3. t.blocked["INGRESS"] \in Seq(WriteToClient(o))
          => u.blocked["INGRESS"] \in Seq(WriteToClient(o))
    <3>1. CASE u = waits /\ side = "INGRESS"
      <4>1. u.blocked["INGRESS"] = Append(t.blocked["INGRESS"], w)
        BY <1>6, <1>7, <3>1, Zenon
      <4>. QED  BY <1>3, <3>1, <4>1
    <3>2. CASE ~(u = waits /\ side = "INGRESS")
      <4>1. side # "INGRESS" => waits.blocked["INGRESS"] = t.blocked["INGRESS"]
        BY <1>6, <1>7, FlowLookup, Sides, Zenon
      <4>2. u.blocked["INGRESS"] = t.blocked["INGRESS"]
        BY <1>2, <1>4, <1>5, <3>2, <4>1, Zenon
      <4>. QED  BY <4>2, Zenon
    <3>. QED  BY <3>1, <3>2, Zenon
  <2>. QED  BY <1>1, <2>1, <2>2, <2>3, Zenon DEF Quiet, Flows
<1>9. \A e \in FlowType : Ops(u, e) = Ops(t, e) + One(d, e)
  <2>1. CASE u \in {failed, sent}
    <3>1. Started(t, u, d)
      BY <1>4, <1>5, <2>1, Zenon DEF Started
    <3>. QED  BY <3>1, OpsStarted, Zenon
  <2>2. ASSUME u = waits, NEW e \in FlowType
        PROVE  Ops(u, e) = Ops(t, e) + One(d, e)
    <3>1. /\ t.blocked[side] \in Seq(PendingWrite)
          /\ Append(t.blocked[side], w) \in Seq(PendingWrite)
      BY <1>3, <1>7
    <3>2. BlockedOf(Append(t.blocked[side], w), e)
            = BlockedOf(t.blocked[side], e) + One(d, e)
      BY <1>3, <3>1, BlockedOfAppend, Zenon
    <3>3. Queued(t, u, side, Append(t.blocked[side], w))
      BY <1>6, <2>2, Zenon DEF Queued, SameCounts
    <3>4. Ops(u, e) = (Ops(t, e) - BlockedOf(t.blocked[side], e))
                        + BlockedOf(Append(t.blocked[side], w), e)
      BY <3>1, <3>3, OpsQueued, Zenon
    <3>5. BlockedOf(t.blocked[side], e) \in Nat /\ Ops(t, e) \in Nat
      BY <3>1, BlockedOfType, CountTypes, Zenon
    <3>6. One(d, e) \in Nat
      BY DEF One
    <3>. QED  BY <3>2, <3>4, <3>5, <3>6, SMT
  <2>. QED  BY <1>2, <2>1, <2>2, Zenon
<1>. QED  BY <1>1, <1>8, <1>9, Zenon DEF u

\* What closing does: what is pending stays pending.
Calm(t, u, o) ==
    /\ Quiet(t, u, o) /\ u.disc = t.disc
    /\ \A e \in FlowType : Ops(u, e) = Ops(t, e)

\* Two steps in a row that start and end no operation.
LEMMA CalmTrans ==
    ASSUME NEW t, NEW u, NEW v, NEW o, Calm(t, u, o), Calm(u, v, o)
    PROVE  Calm(t, v, o)
<1>1. Quiet(t, v, o)
  BY QuietTrans, Zenon DEF Calm
<1>. QED  BY <1>1, Zenon DEF Calm

\* Doing nothing starts and ends no operation.
LEMMA QuietSelf ==
    ASSUME NEW t \in SessionType, NEW o
    PROVE  Quiet(t, t, o) /\ Calm(t, t, o)
BY Zenon DEF Quiet, Same, Calm

\* close(): what waits on the socket fails, and is not lost.
LEMMA CloseEffect ==
    ASSUME NEW t \in SessionType, NEW side \in FlowType, NEW o
    PROVE  Calm(t, Close(t, side), o)
<1>. DEFINE ab == [d \in FlowType |->
                      t.ab[d] + BlockedOf(t.blocked[side], d)
                              + (IF d = side THEN t.rd[d] ELSE 0)]
            closed == [t EXCEPT !.sock[side] = "closed", !.ab = ab,
                                !.rd[side] = 0, !.blocked[side] = <<>>,
                                !.in[side] = <<>>]
            u == Close(t, side)
<1>1. u \in SessionType /\ u.disc = t.disc
  BY CloseType, Zenon
<1>2. u = t \/ u = closed
  BY DEF Close
<1>. HIDE DEF ab, u
<1>3. /\ Same(t, closed) /\ closed.sock = [t.sock EXCEPT ![side] = "closed"]
      /\ closed.in = [t.in EXCEPT ![side] = <<>>]
      /\ closed.buf = t.buf /\ closed.out = t.out
      /\ closed.blocked = [t.blocked EXCEPT ![side] = <<>>]
      /\ closed.rd = [t.rd EXCEPT ![side] = 0] /\ closed.wd = t.wd
      /\ closed.ab = ab /\ closed.bad = t.bad
  BY Zenon DEF SessionType, Same
<1>4. /\ t.sock \in [FlowType -> {"closed", "connecting", "open", "shut"}]
      /\ t.in \in [FlowType -> Seq(Frame)] /\ t.rd \in [FlowType -> Nat]
      /\ t.blocked \in [FlowType -> Seq(PendingWrite)]
  BY FieldTypes, Zenon
<1>. HIDE DEF closed
<1>5. CASE u = t
  BY <1>5, QuietSelf, Zenon DEF u
<1>6. CASE u = closed
  <2>1. \A x \in FlowType : /\ u.in[x] = IF x = side THEN <<>> ELSE t.in[x]
                            /\ u.blocked[x] = IF x = side THEN <<>> ELSE t.blocked[x]
                            /\ u.sock[x] = IF x = side THEN "closed" ELSE t.sock[x]
                            /\ u.rd[x] = IF x = side THEN 0 ELSE t.rd[x]
    BY <1>3, <1>4, <1>6, FlowLookup, Zenon
  <2>2. <<>> \in Seq(ClientFrame) /\ <<>> \in Seq(BrokerFrame(o))
        /\ <<>> \in Seq(WriteToClient(o))
    OBVIOUS
  <2>3. Flows(t, o) => Flows(u, o)
    BY <1>3, <1>6, <2>1, <2>2, Sides, Zenon DEF Flows
  <2>4. Quiet(t, u, o)
    BY <1>1, <1>3, <1>6, <2>1, <2>3, Sides, Zenon DEF Quiet
  <2>5. ASSUME NEW e \in FlowType PROVE Ops(u, e) = Ops(t, e)
    <3>. DEFINE a == BlockedOf(u.blocked["INGRESS"], e)
                b == BlockedOf(u.blocked["EGRESS"], e)
                c == BlockedOf(t.blocked["INGRESS"], e)
                d == BlockedOf(t.blocked["EGRESS"], e)
                y == BlockedOf(t.blocked[side], e)
    <3>0. "INGRESS" # "EGRESS"
      OBVIOUS
    <3>1. (a = 0 /\ b = d /\ y = c) \/ (a = c /\ b = 0 /\ y = d)
      <4>1. CASE side = "INGRESS"
        BY <2>1, <3>0, <4>1, BlockedOfEmpty, Sides, Zenon
      <4>2. CASE side = "EGRESS"
        BY <2>1, <3>0, <4>2, BlockedOfEmpty, Sides, Zenon
      <4>. QED  BY <4>1, <4>2, Zenon DEF FlowType
    <3>2. /\ c \in Nat /\ d \in Nat /\ t.rd[e] \in Nat /\ t.wd[e] \in Nat
          /\ t.ab[e] \in Nat /\ t.bad[e] \in Nat
      BY CountTypes, Zenon
    <3>3. /\ u.wd[e] = t.wd[e] /\ u.bad[e] = t.bad[e] /\ u.ab[e] = ab[e]
          /\ u.rd[e] = IF e = side THEN 0 ELSE t.rd[e]
      BY <1>3, <1>6, <2>1, Zenon
    <3>4. ab[e] = t.ab[e] + y + (IF e = side THEN t.rd[e] ELSE 0)
      BY Zenon DEF ab
    <3>5. /\ Ops(u, e) = u.rd[e] + u.wd[e] + u.ab[e] + u.bad[e] + a + b
          /\ Ops(t, e) = t.rd[e] + t.wd[e] + t.ab[e] + t.bad[e] + c + d
      BY Zenon DEF Ops
    <3>. HIDE DEF a, b, c, d, y
    <3>. QED  BY <3>1, <3>2, <3>3, <3>4, <3>5, SMT
  <2>. QED  BY <1>1, <2>4, <2>5, Zenon DEF Calm, u
<1>. QED  BY <1>2, <1>5, <1>6, Zenon DEF u

\* async_shutdown and close of one socket keep its operations pending: they
\* fail later.
LEMMA ShutdownEffect ==
    ASSUME NEW t \in SessionType, NEW side \in FlowType, NEW o
    PROVE  Calm(t, Shutdown(t, side), o)
<1>. DEFINE shut == [t EXCEPT !.sock[side] = "shut"]
            u == Shutdown(t, side)
<1>1. u \in SessionType
  BY ShutdownKeeps, Zenon DEF Keeps
<1>2. \/ u = Close(t, side)
      \/ u = shut /\ t.sock[side] \in {"open", "shut"}
  BY Zenon DEF Shutdown
<1>3. CASE u = shut /\ t.sock[side] \in {"open", "shut"}
  <2>1. /\ Same(t, shut) /\ shut.sock = [t.sock EXCEPT ![side] = "shut"]
        /\ shut.in = t.in /\ shut.buf = t.buf /\ shut.out = t.out
        /\ shut.blocked = t.blocked /\ shut.disc = t.disc
        /\ shut.rd = t.rd /\ shut.wd = t.wd /\ shut.ab = t.ab /\ shut.bad = t.bad
    BY Zenon DEF SessionType, Same
  <2>2. t.sock \in [FlowType -> {"closed", "connecting", "open", "shut"}]
    BY FieldTypes, Zenon
  <2>. HIDE DEF shut, u
  <2>3. u.sock["EGRESS"] # "closed" => t.sock["EGRESS"] # "closed"
    BY <1>3, <2>1, <2>2, SMT
  <2>4. Quiet(t, u, o)
    BY <1>1, <1>3, <2>1, <2>3, Zenon DEF Quiet, Flows
  <2>5. \A e \in FlowType : Ops(u, e) = Ops(t, e)
    BY <1>3, <2>1, Zenon DEF Ops
  <2>. QED  BY <1>3, <2>1, <2>4, <2>5, Zenon DEF Calm, u
<1>. QED  BY <1>2, <1>3, CloseEffect, Zenon

\* performDisconnectBoth: the same for the two sockets.
LEMMA BothEffect ==
    ASSUME NEW t \in SessionType, NEW o
    PROVE  Calm(t, PerformDisconnectBoth(t), o)
<1>. DEFINE u == Shutdown(t, "EGRESS")
<1>1. Calm(t, u, o)
  BY ShutdownEffect, Sides, Zenon
<1>2. u \in SessionType
  BY <1>1, Zenon DEF Calm, Quiet
<1>. HIDE DEF u
<1>3. Calm(u, Shutdown(u, "INGRESS"), o)
  BY <1>2, ShutdownEffect, Sides, Zenon
<1>. QED  BY <1>1, <1>3, CalmTrans, Zenon DEF PerformDisconnectBoth, u

\* What ends a session.
Ends(t, u, o) == Quiet(t, u, o) /\ Finished(u)

\* disconnect(true) ends the session.
LEMMA DisconnectEffect ==
    ASSUME NEW t \in SessionType, NEW onIo \in BOOLEAN, NEW o
    PROVE  Ends(t, Disconnect(t, onIo), o)
<1>. DEFINE u == [t EXCEPT !.disc = "DISCONNECTED_PROXY"]
            posted == [u EXCEPT !.posted = @ \cup {"both"}]
<1>1. "DISCONNECTED_PROXY" \in DisconnectType
  BY DEF DisconnectType
<1>2. u \in SessionType /\ u.disc = "DISCONNECTED_PROXY"
  BY <1>1, Zenon DEF SessionType
<1>3. Quiet(t, u, o)
  <2>1. /\ Same(t, u) /\ u.sock = t.sock /\ u.in = t.in /\ u.buf = t.buf
        /\ u.out = t.out /\ u.blocked = t.blocked
    BY Zenon DEF SessionType, Same
  <2>. HIDE DEF u
  <2>. QED  BY <1>2, <2>1, Zenon DEF Quiet, Flows
<1>4. Disconnect(t, onIo) \in {PerformDisconnectBoth(u), posted}
  BY Zenon DEF Disconnect
<1>. HIDE DEF u
<1>5. posted \in SessionType /\ posted.disc = u.disc
  <2>1. u.posted \cup {"both"} \in SUBSET {"both", "backend"}
    BY <1>2, FieldTypes
  <2>. QED  BY <1>2, <2>1, Zenon DEF SessionType
<1>6. Quiet(u, posted, o)
  <2>1. /\ Same(u, posted) /\ posted.sock = u.sock /\ posted.in = u.in
        /\ posted.buf = u.buf /\ posted.out = u.out /\ posted.blocked = u.blocked
    BY <1>2, Zenon DEF SessionType, Same
  <2>. HIDE DEF posted
  <2>. QED  BY <1>5, <2>1, Zenon DEF Quiet, Flows
<1>. HIDE DEF posted
<1>7. /\ Quiet(u, PerformDisconnectBoth(u), o)
      /\ PerformDisconnectBoth(u).disc = u.disc
  BY <1>2, BothEffect, Zenon DEF Calm
<1>8. Quiet(t, PerformDisconnectBoth(u), o) /\ Quiet(t, posted, o)
  BY <1>3, <1>6, <1>7, QuietTrans, Zenon
<1>9. "DISCONNECTED_PROXY" # "NOT_DISCONNECTED"
  OBVIOUS
<1>. QED  BY <1>2, <1>4, <1>5, <1>7, <1>8, <1>9, Zenon DEF Ends, Finished

\* A step that ends the session, after a quiet one.
LEMMA EndsAfter ==
    ASSUME NEW t, NEW u, NEW v, NEW o, Quiet(t, u, o), Ends(u, v, o)
    PROVE  Ends(t, v, o)
<1>1. Quiet(t, v, o)
  BY QuietTrans, Zenon DEF Ends
<1>. QED  BY <1>1, Zenon DEF Ends

\* Every frame that the session makes up itself may be sent to the client,
\* OpenOk excepted.
LEMMA SyntheticFrames ==
    ASSUME NEW o
    PROVE  \A f \in FrameType \ {"OpenOk"} : <<Frm(f)>> \in Seq(ToClient(o))
BY DEF Frm, ToClient, Frame

\* sendSyntheticData adds no OpenOk to what is on its way to the client.
LEMMA SyntheticEffect ==
    ASSUME NEW t \in SessionType, NEW side \in FlowType, NEW onIo \in BOOLEAN,
           NEW f \in FrameType, f # "OpenOk", NEW o
    PROVE  Quiet(t, SendSyntheticData(t, side, f, onIo), o)
<1>. DEFINE u == HandleWriteData(t, side, side, <<Frm(f)>>)
<1>1. Quiet(t, u, o)
  <2>1. <<Frm(f)>> \in Seq(Frame) /\ <<Frm(f)>> \in Seq(ToClient(o))
    BY FrmType, SyntheticFrames, Zenon
  <2>. QED  BY <2>1, WriteEffect, Zenon
<1>2. SendSyntheticData(t, side, f, onIo) \in {u, Disconnect(u, onIo)}
  BY Zenon DEF SendSyntheticData
<1>. HIDE DEF u
<1>3. Quiet(u, Disconnect(u, onIo), o)
  BY <1>1, DisconnectEffect, Zenon DEF Quiet, Ends
<1>4. Quiet(t, Disconnect(u, onIo), o)
  BY <1>1, <1>3, QuietTrans, Zenon
<1>. QED  BY <1>1, <1>2, <1>4, Zenon

\* A client that is refused is told so and disconnected.
LEMMA RefusedEffect ==
    ASSUME NEW t \in SessionType, NEW onIo \in BOOLEAN, NEW o
    PROVE  Ends(t, Disconnect(SendSyntheticData(t, "INGRESS", "Close", onIo), onIo),
                o)
<1>. DEFINE u == SendSyntheticData(t, "INGRESS", "Close", onIo)
<1>0. "Close" \in FrameType /\ "Close" # "OpenOk"
  BY DEF FrameType, MethodType
<1>1. Quiet(t, u, o)
  BY <1>0, SyntheticEffect, Sides, Zenon
<1>. HIDE DEF u
<1>2. u \in SessionType
  BY <1>1, Zenon DEF Quiet
<1>3. Ends(u, Disconnect(u, onIo), o)
  BY <1>2, DisconnectEffect, Zenon
<1>4. Ends(t, Disconnect(u, onIo), o)
  BY <1>1, <1>3, EndsAfter, Zenon
<1>. QED  BY <1>4, Zenon DEF u

\* What every handler keeps: the frames on their way to the client, and that the
\* egress connection is that of a client which was allowed.
EgAuth(t) ==
    t.eg \in {"resolve", "connect", "proxy", "tls"} \/ t.sock["EGRESS"] # "closed"
        => t.allowed

Good(t, u, o) ==
    /\ u \in SessionType
    /\ Flows(t, o) => Flows(u, o)
    /\ t.allowed => u.allowed
    /\ EgAuth(t) => EgAuth(u)

\* Two steps in a row that keep what the client is sent and who is let
\* through.
LEMMA GoodTrans ==
    ASSUME NEW t, NEW u, NEW v, NEW o, Good(t, u, o), Good(u, v, o)
    PROVE  Good(t, v, o)
BY Zenon DEF Good

\* A quiet step keeps what the client is sent and who is let through.
LEMMA QuietGood ==
    ASSUME NEW t, NEW u, NEW o, Quiet(t, u, o)
    PROVE  Good(t, u, o)
BY Zenon DEF Quiet, Same, Good, EgAuth

\* handleSessionError: after a graceful disconnect the broker and the client are
\* told, otherwise the session ends.
LEMMA ErrorEffect ==
    ASSUME NEW t \in SessionType, NEW d \in FlowType, NEW aborted \in BOOLEAN, NEW o
    PROVE  LET u == HandleSessionError(t, d, aborted)
           IN  /\ Good(t, u, o)
               /\ t.conn # "CLIENT_CLOSE_SENT" => Ends(t, u, o)
<1>0. "Close" \in FrameType /\ "Close" # "OpenOk" /\ "SERVER_CLOSE_SENT" \in State
  BY DEF FrameType, MethodType, State
<1>. DEFINE c == [t EXCEPT !.conn = "SERVER_CLOSE_SENT"]
            c1 == SendSyntheticData(c, "EGRESS", "Close", TRUE)
            c2 == SendSyntheticData(c1, "INGRESS", "Close", TRUE)
            disc == CASE t.conn = "CLOSED" -> "DISCONNECTED_CLEANLY"
                      [] t.conn # "CLOSED" /\ Finished(t) -> t.disc
                      [] OTHER -> IF d = "INGRESS" THEN "DISCONNECTED_CLIENT"
                                               ELSE "DISCONNECTED_SERVER"
            u == [t EXCEPT !.disc = disc]
            u2 == Close(Close(u, "EGRESS"), "INGRESS")
            v == HandleSessionError(t, d, aborted)
<1>1. \/ v = c2 /\ t.conn = "CLIENT_CLOSE_SENT"
      \/ v \in {u, u2}
  BY Zenon DEF HandleSessionError
<1>2. Good(t, c, o)
  <2>1. c \in SessionType
    BY <1>0, Zenon DEF SessionType
  <2>2. /\ c.sock = t.sock /\ c.in = t.in /\ c.buf = t.buf /\ c.out = t.out
        /\ c.blocked = t.blocked /\ c.allowed = t.allowed /\ c.eg = t.eg
    BY Zenon DEF SessionType
  <2>. HIDE DEF c
  <2>. QED  BY <2>1, <2>2, Zenon DEF Good, Flows, EgAuth
<1>. HIDE DEF c
<1>3. Quiet(c, c1, o)
  BY <1>0, <1>2, SyntheticEffect, Sides, Zenon DEF Good
<1>. HIDE DEF c1
<1>4. Quiet(c1, c2, o)
  BY <1>0, <1>3, SyntheticEffect, Sides, Zenon DEF Quiet
<1>. HIDE DEF c2
<1>5. Good(t, c2, o)
  BY <1>2, <1>3, <1>4, QuietGood, GoodTrans, Zenon
<1>6. /\ disc \in DisconnectType /\ disc # "NOT_DISCONNECTED"
  <2>1. t.disc \in DisconnectType
    BY DEF SessionType
  <2>. QED  BY <2>1 DEF DisconnectType, Finished
<1>. HIDE DEF disc
<1>8. u \in SessionType /\ u.disc = disc
  BY <1>6, Zenon DEF SessionType
<1>9. Quiet(t, u, o)
  <2>1. /\ Same(t, u) /\ u.sock = t.sock /\ u.in = t.in /\ u.buf = t.buf
        /\ u.out = t.out /\ u.blocked = t.blocked
    BY Zenon DEF SessionType, Same
  <2>. HIDE DEF u
  <2>. QED  BY <1>8, <2>1, Zenon DEF Quiet, Flows
<1>. HIDE DEF u
<1>10. Calm(u, Close(u, "EGRESS"), o)
  BY <1>8, CloseEffect, Sides, Zenon
<1>11. Calm(Close(u, "EGRESS"), u2, o)
  BY <1>10, CloseEffect, Sides, Zenon DEF Calm, Quiet
<1>. HIDE DEF u2
<1>12. Quiet(t, u2, o) /\ u2.disc = u.disc
  <2>1. Calm(u, u2, o)
    BY <1>10, <1>11, CalmTrans, Zenon
  <2>. QED  BY <1>9, <2>1, QuietTrans, Zenon DEF Calm
<1>13. Ends(t, u, o) /\ Ends(t, u2, o)
  BY <1>6, <1>8, <1>9, <1>12, Zenon DEF Ends, Finished
<1>14. Good(t, u, o) /\ Good(t, u2, o)
  BY <1>9, <1>12, QuietGood, Zenon
<1>. QED  BY <1>1, <1>5, <1>13, <1>14, Zenon

-----------------------------------------------------------------------------
(* The Connector.                                                          *)

\* The states of the Connector before the virtual host is known.
Early == {"AWAITING_PROTOCOL_HEADER", "START_SENT", "TUNE_SENT", "AWAITING_OPEN"}

\* The methods that a flow can hold.
FromSide(dir, o) == IF dir = "INGRESS" THEN ClientFrame ELSE BrokerFrame(o)

\* What the answers of the Connector can be.
LEMMA AnswersToClient ==
    ASSUME NEW o
    PROVE  /\ <<>> \in Seq(ToClient(o)) /\ <<Frm("Start")>> \in Seq(ToClient(o))
           /\ <<Frm("Tune")>> \in Seq(ToClient(o))
           /\ <<Frm("Close")>> \in Seq(ToClient(o))
           /\ <<Frm("CloseOk")>> \in Seq(ToClient(o))
           /\ <<Frm("Header")>> \in Seq(ToClient(o))
           /\ o => <<Frm("OpenOk")>> \in Seq(ToClient(o))
<1>1. {"Start", "Tune", "Close", "CloseOk", "Header"} \subseteq FrameType \ {"OpenOk"}
  BY DEF FrameType, MethodType
<1>2. o => <<Frm("OpenOk")>> \in Seq(ToClient(o))
  BY DEF Frm, ToClient, Frame, FrameType, MethodType
<1>3. <<>> \in Seq(ToClient(o))
  OBVIOUS
<1>. QED  BY <1>1, <1>2, <1>3, SyntheticFrames

\* receive: an OpenOk is sent to the client only when the broker sent one.
LEMMA ReceiveToClient ==
    ASSUME NEW st \in State, NEW m \in MethodType, NEW dir \in FlowType, NEW o,
           m = "OpenOk" => o
    PROVE  LET r == Receive(st, m, dir)
           IN  r.to = "INGRESS" => r.out \in Seq(ToClient(o))
<1>. DEFINE Fine(r) == r.to = "INGRESS" => r.out \in Seq(ToClient(o))
<1>1. \A x, q : /\ Fine(Result(x, q, "EGRESS"))
                /\ \A to \in FlowType : q \in Seq(ToClient(o)) => Fine(Result(x, q, to))
  BY DEF Result
<1>2. \A T, ok : Fine(ok) => Fine(DecodeMethod(T, st, m, dir, ok))
  BY AnswersToClient DEF Result, DecodeMethod
<1>3. Fine([Result("AWAITING_CONNECTION", <<>>, "INGRESS") EXCEPT !.create = TRUE])
  BY AnswersToClient DEF Result
<1>4. Fine(ReceiveClientCloseSent(m, dir))
  BY <1>1, AnswersToClient, Sides, Zenon DEF ReceiveClientCloseSent
<1>5. Fine(ReceiveServerCloseSent(m, dir))
  BY <1>1, AnswersToClient, Sides, Zenon DEF ReceiveServerCloseSent
<1>6. Fine(Receive(st, m, dir))
  <2>. HIDE DEF Fine
  <2>. QED BY <1>1, <1>2, <1>3, <1>4, <1>5, AnswersToClient, Sides, ZenonT(60) DEF Receive
<1>. QED  BY <1>6, Zenon

\* receive, while no graceful disconnect is going on: how the state moves, when the
\* connection is created, and which side is answered.
Moves(st, x, create) ==
    /\ x \notin {"CLIENT_CLOSE_SENT", "AWAITING_PROTOCOL_HEADER"}
    /\ st = "CLOSED" => x = "CLOSED"
    /\ st \notin Early => ~create /\ x \notin Early
    /\ st \in Early => (create <=> x \notin Early)

Expected(st, m, dir) ==
    /\ dir = "EGRESS" => st \notin Early
    /\ dir = "INGRESS" => m \notin {"Start", "Tune", "OpenOk"}

\* Connector::receive, while no graceful disconnect is going on, moves the
\* state as Moves says and answers the side that Expected says.
LEMMA ReceiveMoves ==
    ASSUME NEW st \in State \ {"CLIENT_CLOSE_SENT", "AWAITING_PROTOCOL_HEADER"},
           NEW m \in MethodType, NEW dir \in FlowType
    PROVE  LET r == Receive(st, m, dir)
           IN  /\ Moves(st, r.st, r.create)
               /\ Expected(st, m, dir) /\ r.st # "OPEN" => r.out = <<>> \/ r.to = dir
<1>1. \/ st \in {"START_SENT", "TUNE_SENT", "AWAITING_OPEN", "AWAITING_CONNECTION"}
      \/ st \in {"STARTOK_SENT", "OPEN_SENT", "OPEN", "SERVER_CLOSE_SENT"}
      \/ st \in {"EXPECTING_CLOSE", "CLOSED", "ERROR"}
  BY DEF State
<1>2. CASE st = "START_SENT"
  BY <1>2, SMTT(10) DEF Receive, DecodeMethod, Result, Moves, Early, Expected, FlowType
<1>3. CASE st = "TUNE_SENT"
  BY <1>3, SMTT(10) DEF Receive, DecodeMethod, Result, Moves, Early
<1>4. CASE st = "AWAITING_OPEN"
  BY <1>4, SMTT(10) DEF Receive, DecodeMethod, Result, Moves, Early
<1>5. CASE st = "AWAITING_CONNECTION"
  BY <1>5, SMTT(10) DEF Receive, DecodeMethod, Result, Moves, Early, Expected, FlowType
<1>6. CASE st = "STARTOK_SENT"
  BY <1>6, SMTT(10) DEF Receive, DecodeMethod, Result, Moves, Early, Expected, FlowType
<1>7. CASE st = "OPEN_SENT"
  BY <1>7, SMTT(10) DEF Receive, Result, Moves, Early
<1>8. CASE st = "OPEN"
  BY <1>8, SMTT(10) DEF Receive, Result, Moves, Early
<1>9. CASE st = "SERVER_CLOSE_SENT"
  BY <1>9, SMTT(10) DEF Receive, ReceiveServerCloseSent, Result, Moves, Early
<1>10. CASE st \in {"EXPECTING_CLOSE", "CLOSED", "ERROR"}
  <2>1. Receive(st, m, dir) = Result(st, <<>>, "INGRESS")
    BY <1>10, SMT DEF Receive
  <2>2. st \notin Early
    BY <1>10 DEF Early
  <2>3. Moves(st, st, FALSE)
    BY <2>2 DEF Moves
  <2>4. /\ Result(st, <<>>, "INGRESS").st = st
        /\ Result(st, <<>>, "INGRESS").create = FALSE
        /\ Result(st, <<>>, "INGRESS").out = <<>>
    BY DEF Result
  <2>. QED  BY <2>1, <2>3, <2>4, Zenon
<1>. QED  BY <1>1, <1>2, <1>3, <1>4, <1>5, <1>6, <1>7, <1>8, <1>9, <1>10, Zenon

\* The broker is read only once the virtual host is known.
Timely(st, dir) == dir = "EGRESS" => st \notin Early

\* The frame loop of process: what was received so far.
Loop(p, st, dir) ==
    /\ p \in ProcessType /\ Moves(st, p.st, p.create)
    /\ p.st # "OPEN" /\ Timely(st, dir) =>
          /\ p.iw # <<>> => dir = "INGRESS"
          /\ p.ew # <<>> => dir = "EGRESS"

\* What a flow can hold are frames.
LEMMA FrameOfSide ==
    ASSUME NEW dir \in FlowType, NEW o, NEW f \in FromSide(dir, o)
    PROVE  /\ f \in Frame
           /\ dir = "INGRESS" => f.type \notin {"Start", "Tune", "OpenOk"}
           /\ f.type = "OpenOk" => o
BY SMT DEF FromSide, ClientFrame, BrokerFrame, FlowType

\* One turn of the frame loop of process.
LEMMA ProcessFrameMoves ==
    ASSUME NEW st \in State \ {"CLIENT_CLOSE_SENT", "AWAITING_PROTOCOL_HEADER"},
           NEW dir \in FlowType, NEW p, Loop(p, st, dir), NEW o, NEW f \in FromSide(dir, o)
    PROVE  Loop(ProcessFrame(p, f, dir), st, dir)
<1>. DEFINE r == Receive(p.st, f.type, dir)
            c == Collect(r, p.create)
<1>0. /\ f \in Frame
      /\ dir = "INGRESS" => f.type \notin {"Start", "Tune", "OpenOk"}
  BY FrameOfSide, Zenon
<1>1. ProcessFrame(p, f, dir) \in ProcessType
  BY <1>0, ProcessFrameType, Zenon DEF Loop
<1>2. p.st \in State /\ p.create \in BOOLEAN
  BY Zenon DEF Loop, ProcessType
<1>3. ASSUME f.type \in MethodType PROVE c \in ProcessType => Loop(c, st, dir)
  <2>1. p.st \in State \ {"CLIENT_CLOSE_SENT", "AWAITING_PROTOCOL_HEADER"}
    BY <1>2 DEF Loop, Moves
  <2>2. Moves(p.st, r.st, r.create)
    BY <1>3, <2>1, ReceiveMoves, Zenon
  <2>3. Timely(st, dir) => Expected(p.st, f.type, dir)
    BY <1>0 DEF Loop, Moves, Expected, Timely
  <2>4. r.st # "OPEN" /\ Timely(st, dir) => r.out = <<>> \/ r.to = dir
    BY <1>3, <2>1, <2>3, ReceiveMoves, Zenon
  <2>. HIDE DEF r
  <2>5. /\ c.st = r.st /\ c.create = (p.create \/ r.create)
        /\ c.iw = IF r.to = "INGRESS" THEN r.out ELSE <<>>
        /\ c.ew = IF r.to = "EGRESS" THEN r.out ELSE <<>>
    BY DEF Collect
  <2>. HIDE DEF c
  <2>6. Moves(st, c.st, c.create)
    BY <2>2, <2>5 DEF Loop, Moves
  <2>7. c.st # "OPEN" /\ Timely(st, dir) =>
           /\ c.iw # <<>> => dir = "INGRESS"
           /\ c.ew # <<>> => dir = "EGRESS"
    BY <2>4, <2>5
  <2>. QED  BY <2>6, <2>7, Zenon DEF Loop
<1>4. ProcessFrame(p, f, dir) = p \/ (f.type \in MethodType /\ ProcessFrame(p, f, dir) = c)
  BY Zenon DEF ProcessFrame
<1>. HIDE DEF c
<1>. QED  BY <1>1, <1>3, <1>4, Zenon

\* process: how the state moves, when the connection is created, and that what is
\* written goes on with the flow that was read.
Processed(p, st, dir) ==
    /\ p.st # "CLIENT_CLOSE_SENT" /\ (st = "CLOSED" => p.st = "CLOSED")
    /\ st \notin Early => ~p.create /\ p.st \notin Early
    /\ st \in Early => /\ p.create => p.st \notin Early
                       /\ p.st \notin Early => p.create \/ p.st = "ERROR"
    /\ p.exc = "none" /\ Timely(st, dir) =>
          /\ p.iw # <<>> => (p.st = "OPEN" <=> dir = "EGRESS")
          /\ p.ew # <<>> => (p.st = "OPEN" <=> dir = "INGRESS")

\* Connector::process on any number of frames that a buffer holds, while no
\* graceful disconnect is going on.
LEMMA ProcessMoves ==
    ASSUME NEW st \in State \ {"CLIENT_CLOSE_SENT"}, NEW dir \in FlowType, NEW o,
           NEW frames \in Seq(FromSide(dir, o))
    PROVE  Processed(Process(st, frames, dir), st, dir)
<1>1. CASE st = "AWAITING_PROTOCOL_HEADER"
  <2>1. Timely(st, dir) => dir = "INGRESS"
    BY <1>1 DEF FlowType, Early, Timely
  <2>2. Process(st, frames, dir) = Collect(ReceiveHeader(frames), FALSE)
    BY <1>1, Zenon DEF Process
  <2>3. PICK x \in {"START_SENT", "ERROR"},
             q \in {<<Frm("Start")>>, <<Frm("Header")>>} :
           ReceiveHeader(frames) = Result(x, q, "INGRESS")
    BY Zenon DEF ReceiveHeader
  <2>4. Collect(Result(x, q, "INGRESS"), FALSE)
          = [st |-> x, exc |-> "none", create |-> FALSE, iw |-> q, ew |-> <<>>]
    BY DEF Collect, Result
  <2>. DEFINE p == [st |-> x, exc |-> "none", create |-> FALSE, iw |-> q,
                    ew |-> <<>>]
  <2>5. /\ p.st = x /\ p.exc = "none" /\ p.create = FALSE /\ p.ew = <<>>
    OBVIOUS
  <2>6. Process(st, frames, dir) = p
    BY <2>2, <2>3, <2>4, Zenon
  <2>. HIDE DEF p
  <2>7. Processed(p, st, dir)
    BY <1>1, <2>1, <2>5 DEF Processed, Early
  <2>. QED  BY <2>6, <2>7, Zenon
<1>2. CASE st # "AWAITING_PROTOCOL_HEADER"
  <2>. DEFINE p0 == [st |-> st, exc |-> "none", create |-> FALSE,
                     iw |-> <<>>, ew |-> <<>>]
              Step(p, i) == IF i <= Len(frames)
                            THEN ProcessFrame(p, frames[i], dir) ELSE p
              p3 == Step(Step(Step(p0, 1), 2), 3)
  <2>1. Loop(p0, st, dir)
    <3>1. p0 \in ProcessType
      BY Answers DEF ProcessType, Exception
    <3>2. Moves(st, st, FALSE)
      BY <1>2 DEF Moves
    <3>. QED  BY <3>1, <3>2 DEF Loop
  <2>2. ASSUME NEW p, Loop(p, st, dir), NEW i \in {1, 2, 3}
        PROVE  Loop(Step(p, i), st, dir)
    <3>1. i <= Len(frames) => frames[i] \in FromSide(dir, o)
      OBVIOUS
    <3>2. st \in State \ {"CLIENT_CLOSE_SENT", "AWAITING_PROTOCOL_HEADER"}
      BY <1>2
    <3>. QED  BY <2>2, <3>1, <3>2, ProcessFrameMoves, Zenon
  <2>. HIDE DEF p0, Step
  <2>3. Loop(Step(p0, 1), st, dir)
    BY <2>1, <2>2
  <2>4. Loop(Step(Step(p0, 1), 2), st, dir)
    BY <2>2, <2>3
  <2>5. Loop(p3, st, dir)
    BY <2>2, <2>4
  <2>. HIDE DEF p3
  <2>6. Processed(PassThrough(p3, frames, dir), st, dir)
    <3>. DEFINE x == [p3 EXCEPT !.iw = IF dir = "EGRESS" THEN frames ELSE <<>>,
                                !.ew = IF dir = "INGRESS" THEN frames ELSE <<>>]
    <3>1. CASE p3.st = "OPEN" /\ p3.exc = "none"
      <4>1. /\ x.st = p3.st /\ x.create = p3.create /\ x.exc = p3.exc
            /\ x.iw = IF dir = "EGRESS" THEN frames ELSE <<>>
            /\ x.ew = IF dir = "INGRESS" THEN frames ELSE <<>>
        BY <2>5, Zenon DEF Loop, ProcessType
      <4>2. PassThrough(p3, frames, dir) = x
        BY <3>1, Zenon DEF PassThrough
      <4>. HIDE DEF x
      <4>. QED  BY <2>5, <3>1, <4>1, <4>2, SMT DEF Processed, Loop, Moves
    <3>2. CASE ~(p3.st = "OPEN" /\ p3.exc = "none")
      <4>1. PassThrough(p3, frames, dir) = p3
        BY <3>2, Zenon DEF PassThrough
      <4>. QED  BY <2>5, <3>2, <4>1, SMT DEF Processed, Loop, Moves, FlowType
    <3>. QED  BY <3>1, <3>2, Zenon
  <2>. QED  BY <1>2, <2>6, Zenon DEF Process, p3, Step, p0
<1>. QED  BY <1>1, <1>2, Zenon

\* process: an OpenOk is written to the client only when the broker sent one.
LEMMA ProcessToClient ==
    ASSUME NEW st \in State, NEW dir \in FlowType, NEW o,
           NEW frames \in Seq(FromSide(dir, o))
    PROVE  Process(st, frames, dir).iw \in Seq(ToClient(o))
<1>. DEFINE Fine(p) == p \in ProcessType /\ p.iw \in Seq(ToClient(o))
            p0 == [st |-> st, exc |-> "none", create |-> FALSE,
                   iw |-> <<>>, ew |-> <<>>]
            Step(p, i) == IF i <= Len(frames)
                          THEN ProcessFrame(p, frames[i], dir) ELSE p
            p3 == Step(Step(Step(p0, 1), 2), 3)
<1>1. ASSUME NEW r, r.to = "INGRESS" => r.out \in Seq(ToClient(o)), NEW b
      PROVE  Collect(r, b).iw \in Seq(ToClient(o))
  BY <1>1, AnswersToClient DEF Collect
<1>2. Collect(ReceiveHeader(frames), FALSE).iw \in Seq(ToClient(o))
  <2>1. ReceiveHeader(frames).out \in Seq(ToClient(o))
    BY AnswersToClient DEF ReceiveHeader, Result
  <2>. QED  BY <1>1, <2>1, Zenon
<1>3. Fine(p0)
  BY Answers, AnswersToClient DEF ProcessType, Exception
<1>4. ASSUME NEW p, Fine(p), NEW i \in {1, 2, 3}
      PROVE  Fine(Step(p, i))
  <2>1. i <= Len(frames) => frames[i] \in FromSide(dir, o)
    OBVIOUS
  <2>2. ASSUME NEW f \in FromSide(dir, o) PROVE Fine(ProcessFrame(p, f, dir))
    <3>1. f \in Frame /\ (f.type = "OpenOk" => o)
      BY FrameOfSide, SMT
    <3>2. p.st \in State /\ ProcessFrame(p, f, dir) \in ProcessType
      BY <1>4, <3>1, ProcessFrameType, Zenon DEF ProcessType
    <3>3. f.type \in MethodType =>
             Collect(Receive(p.st, f.type, dir), p.create).iw \in Seq(ToClient(o))
      BY <1>1, <3>1, <3>2, ReceiveToClient, Zenon
    <3>. QED  BY <1>4, <3>2, <3>3, Zenon DEF ProcessFrame
  <2>. QED  BY <1>4, <2>1, <2>2, Zenon
<1>. HIDE DEF p0, Step
<1>5. Fine(Step(p0, 1))
  BY <1>3, <1>4
<1>6. Fine(Step(Step(p0, 1), 2))
  BY <1>4, <1>5
<1>7. Fine(p3)
  BY <1>4, <1>6
<1>. HIDE DEF p3
<1>8. PassThrough(p3, frames, dir).iw \in Seq(ToClient(o))
  <2>. DEFINE a == IF dir = "EGRESS" THEN frames ELSE <<>>
              b == IF dir = "INGRESS" THEN frames ELSE <<>>
  <2>1. a \in Seq(ToClient(o))
    <3>1. dir = "EGRESS" => FromSide(dir, o) \subseteq ToClient(o)
      BY DEF FromSide, BrokerFrame, ToClient
    <3>. QED  BY <3>1, AnswersToClient
  <2>. HIDE DEF a, b
  <2>2. [p3 EXCEPT !.iw = a, !.ew = b].iw = a
    BY <1>7, Zenon DEF ProcessType
  <2>3. PassThrough(p3, frames, dir) \in {p3, [p3 EXCEPT !.iw = a, !.ew = b]}
    BY Zenon DEF PassThrough, a, b
  <2>. QED  BY <1>7, <2>1, <2>2, <2>3, Zenon
<1>. QED  BY <1>2, <1>8, Zenon DEF Process, p3, Step, p0

-----------------------------------------------------------------------------
(* One operation per flow, and the steps of establishConnection.           *)

\* Whether a session can be paused: without a pause no flow waits for a command.
NoPause == Commands \cap {"pause", "vhost_pause"} = {}
AtMostOne(n) == n <= 1 /\ (NoPause => n = 1)

\* What a flow waits for, the handshakes and the steps of establishConnection
\* included.
Ingress(t) == Ops(t, "INGRESS") + One(t.shake, TRUE)
Egress(t) == Ops(t, "EGRESS") + (IF t.eg = "none" THEN 0 ELSE 1)

Base(t) ==
    /\ t.conn # "CLIENT_CLOSE_SENT"
    /\ t.paused \/ t.vpaused => ~NoPause
    /\ t.ready => t.vhost

\* The inductive invariant of a session on which no graceful disconnect is
\* issued.  i and e are the operations that the handler at work has taken off and
\* has not yet put back, zero between two handlers.
Chain(t, i, e) ==
    /\ Base(t)
    /\ ~Finished(t) =>
          /\ AtMostOne(Ingress(t) + i)
          /\ t.vhost => AtMostOne(Egress(t) + e)
          /\ ~t.vhost \/ t.ready => Egress(t) + e = 0
          /\ t.vhost <=> t.conn \notin Early

\* What a flow waits for is a number.
LEMMA PendingTypes ==
    ASSUME NEW t \in SessionType
    PROVE  Ingress(t) \in Nat /\ Egress(t) \in Nat
<1>1. Ops(t, "INGRESS") \in Nat /\ Ops(t, "EGRESS") \in Nat
  BY CountTypes, Sides, Zenon
<1>. QED  BY <1>1 DEF Ingress, Egress, One

\* A step that moves an operation from one place to another.
LEMMA ChainSame ==
    ASSUME NEW t, NEW u, Same(t, u), u.disc = t.disc,
           NEW i, NEW e, NEW j, NEW k, Chain(t, i, e),
           Ingress(u) + j = Ingress(t) + i, Egress(u) + k = Egress(t) + e
    PROVE  Chain(u, j, k)
<1>1. /\ u.conn = t.conn /\ u.paused = t.paused /\ u.ready = t.ready
      /\ u.vhost = t.vhost /\ u.vpaused = t.vpaused
  BY Zenon DEF Same
<1>. QED  BY <1>1, SMT DEF Chain, Base, Finished

\* A step that starts and ends no operation keeps the invariant.
LEMMA ChainCalm ==
    ASSUME NEW t \in SessionType, NEW u, NEW o, Calm(t, u, o),
           NEW i, NEW e, Chain(t, i, e)
    PROVE  Chain(u, i, e)
<1>1. Same(t, u) /\ u.disc = t.disc
  BY Zenon DEF Calm, Quiet
<1>2. Ingress(u) = Ingress(t) /\ Egress(u) = Egress(t)
  BY <1>1, Sides, Zenon DEF Calm, Same, Ingress, Egress
<1>. QED  BY <1>1, <1>2, ChainSame, Zenon

\* A step that starts an operation of the flow d, for the one that was taken off.
LEMMA ChainStarted ==
    ASSUME NEW t \in SessionType, NEW u, NEW d \in FlowType, Same(t, u),
           u.disc = t.disc,
           \A e \in FlowType : Ops(u, e) = Ops(t, e) + One(d, e),
           Chain(t, One(d, "INGRESS"), One(d, "EGRESS"))
    PROVE  Chain(u, 0, 0)
<1>1. Ops(t, "INGRESS") \in Nat /\ Ops(t, "EGRESS") \in Nat
  BY CountTypes, Sides, Zenon
<1>2. /\ Ops(u, "INGRESS") = Ops(t, "INGRESS") + One(d, "INGRESS")
      /\ Ops(u, "EGRESS") = Ops(t, "EGRESS") + One(d, "EGRESS")
      /\ u.shake = t.shake /\ u.eg = t.eg
  BY Sides, Zenon DEF Same
<1>3. /\ Ingress(u) + 0 = Ingress(t) + One(d, "INGRESS")
      /\ Egress(u) + 0 = Egress(t) + One(d, "EGRESS")
  BY <1>1, <1>2, SMT DEF Ingress, Egress, One
<1>. QED  BY <1>3, ChainSame, Zenon

\* A handler takes off its operation.
LEMMA ChainTaken ==
    ASSUME NEW t \in SessionType, NEW u \in SessionType, NEW d \in FlowType,
           Same(t, u), u.disc = t.disc,
           \A e \in FlowType : Ops(t, e) = Ops(u, e) + One(d, e),
           Chain(t, 0, 0)
    PROVE  Chain(u, One(d, "INGRESS"), One(d, "EGRESS"))
<1>1. Ops(u, "INGRESS") \in Nat /\ Ops(u, "EGRESS") \in Nat
  BY CountTypes, Sides, Zenon
<1>2. /\ Ops(t, "INGRESS") = Ops(u, "INGRESS") + One(d, "INGRESS")
      /\ Ops(t, "EGRESS") = Ops(u, "EGRESS") + One(d, "EGRESS")
      /\ u.shake = t.shake /\ u.eg = t.eg
  BY Sides, Zenon DEF Same
<1>3. /\ Ingress(u) + One(d, "INGRESS") = Ingress(t) + 0
      /\ Egress(u) + One(d, "EGRESS") = Egress(t) + 0
  BY <1>1, <1>2, SMT DEF Ingress, Egress, One
<1>. QED  BY <1>3, ChainSame, Zenon

\* A step that ends the session.
LEMMA ChainEnds ==
    ASSUME NEW t, NEW u, NEW o, Ends(t, u, o), Base(t), NEW i, NEW e
    PROVE  Chain(u, i, e)
BY Zenon DEF Ends, Quiet, Same, Base, Chain

-----------------------------------------------------------------------------
(* Establishing the egress connection.                                     *)

\* Moving on to another step of the egress connection.
LEMMA EgEffect ==
    ASSUME NEW t \in SessionType, NEW x \in Pipeline, NEW o
    PROVE  LET u == [t EXCEPT !.eg = x]
           IN  /\ u \in SessionType /\ u.eg = x
               /\ u.disc = t.disc /\ u.conn = t.conn /\ u.paused = t.paused
               /\ u.vpaused = t.vpaused /\ u.ready = t.ready /\ u.vhost = t.vhost
               /\ u.retry = t.retry
               /\ x \in {"none", "limit", "auth"} \/ t.allowed => Good(t, u, o)
               /\ Ingress(u) = Ingress(t)
               /\ Ops(u, "EGRESS") = Ops(t, "EGRESS")
<1>. DEFINE u == [t EXCEPT !.eg = x]
<1>1. /\ u \in SessionType /\ u.eg = x
      /\ u.disc = t.disc /\ u.conn = t.conn /\ u.paused = t.paused
      /\ u.vpaused = t.vpaused /\ u.ready = t.ready /\ u.vhost = t.vhost
      /\ u.retry = t.retry /\ u.allowed = t.allowed /\ u.shake = t.shake
      /\ u.sock = t.sock /\ u.in = t.in /\ u.buf = t.buf /\ u.out = t.out
      /\ u.blocked = t.blocked /\ u.rd = t.rd /\ u.wd = t.wd /\ u.ab = t.ab
      /\ u.bad = t.bad
  BY Zenon DEF SessionType
<1>. HIDE DEF u
<1>2. Flows(t, o) => Flows(u, o)
  BY <1>1, Zenon DEF Flows
<1>3. \A e : Ops(u, e) = Ops(t, e)
  BY <1>1, Zenon DEF Ops
<1>4. x \in {"none", "limit", "auth"} => x \notin {"resolve", "connect", "proxy", "tls"}
  OBVIOUS
<1>5. x \in {"none", "limit", "auth"} \/ t.allowed => Good(t, u, o)
  BY <1>1, <1>2, <1>4, Zenon DEF Good, EgAuth
<1>6. Ingress(u) = Ingress(t)
  BY <1>1, <1>3, Zenon DEF Ingress
<1>. QED  BY <1>1, <1>3, <1>5, <1>6, Zenon DEF u

\* attemptConnection, called when the client is allowed.
LEMMA AttemptConnectionEffect ==
    ASSUME NEW t \in SessionType, NEW onIo \in BOOLEAN, t.allowed, NEW o
    PROVE  LET u == AttemptConnection(t, onIo)
           IN  /\ Good(t, u, o)
               /\ t.eg # "none" /\ Chain(t, 0, 0) => Chain(u, 0, 0)
<1>. DEFINE n == [t EXCEPT !.eg = "none"]
            r == [t EXCEPT !.eg = "resolve"]
            u == AttemptConnection(t, onIo)
<1>0. "none" \in Pipeline /\ "resolve" \in Pipeline /\ "resolve" # "none"
  BY DEF Pipeline
<1>1. /\ n \in SessionType /\ n.eg = "none"
      /\ n.disc = t.disc /\ n.conn = t.conn /\ n.paused = t.paused
      /\ n.vpaused = t.vpaused /\ n.ready = t.ready /\ n.vhost = t.vhost
      /\ Good(t, n, o) /\ Ingress(n) = Ingress(t)
      /\ Ops(n, "EGRESS") = Ops(t, "EGRESS")
  BY <1>0, EgEffect, Zenon
<1>2. /\ r \in SessionType /\ r.eg = "resolve"
      /\ r.disc = t.disc /\ r.conn = t.conn /\ r.paused = t.paused
      /\ r.vpaused = t.vpaused /\ r.ready = t.ready /\ r.vhost = t.vhost
      /\ Good(t, r, o) /\ Ingress(r) = Ingress(t)
      /\ Ops(r, "EGRESS") = Ops(t, "EGRESS")
  BY <1>0, EgEffect, Zenon
<1>3. \/ u = n /\ (t.paused \/ Finished(t))
      \/ u = Disconnect(n, onIo)
      \/ u = r
  BY DEF AttemptConnection
<1>. HIDE DEF n, r, u
<1>4. Ends(n, Disconnect(n, onIo), o)
  BY <1>1, DisconnectEffect, Zenon
<1>5. Good(t, Disconnect(n, onIo), o)
  BY <1>1, <1>4, QuietGood, GoodTrans, Zenon DEF Ends
<1>6. Good(t, u, o)
  BY <1>1, <1>2, <1>3, <1>5, Zenon
<1>7. ASSUME t.eg # "none", Chain(t, 0, 0) PROVE Chain(u, 0, 0)
  <2>1. CASE u = r
    <3>1. Egress(r) = Egress(t)
      BY <1>0, <1>2, <1>7, Zenon DEF Egress
    <3>. QED  BY <1>2, <1>7, <2>1, <3>1, Zenon DEF Chain, Base, Finished
  <2>2. CASE u = n /\ (t.paused \/ Finished(t))
    <3>1. Egress(t) = Ops(t, "EGRESS") + 1 /\ Egress(n) = Ops(t, "EGRESS") + 0
      BY <1>1, <1>7, Zenon DEF Egress
    <3>2. Ops(t, "EGRESS") \in Nat /\ Ingress(t) \in Nat
      BY CountTypes, PendingTypes, Sides, Zenon
    <3>. QED  BY <1>1, <1>7, <2>2, <3>1, <3>2, SMT DEF Chain, Base, Finished, AtMostOne
  <2>3. CASE u = Disconnect(n, onIo)
    <3>1. Base(n)
      BY <1>1, <1>7, Zenon DEF Chain, Base
    <3>. QED  BY <1>4, <2>3, <3>1, ChainEnds, Zenon
  <2>. QED  BY <1>3, <2>1, <2>2, <2>3, Zenon
<1>. QED  BY <1>6, <1>7, Zenon DEF u

\* The next backend is counted.
LEMMA RetryCalm ==
    ASSUME NEW t \in SessionType, NEW o
    PROVE  LET u == [t EXCEPT !.retry = @ + 1]
           IN  Calm(t, u, o)
<1>. DEFINE u == [t EXCEPT !.retry = @ + 1]
<1>1. u \in SessionType
  BY RetryKeeps, Zenon DEF Keeps
<1>2. /\ Same(t, u) /\ u.disc = t.disc /\ u.sock = t.sock /\ u.in = t.in
      /\ u.buf = t.buf /\ u.out = t.out /\ u.blocked = t.blocked
      /\ u.rd = t.rd /\ u.wd = t.wd /\ u.ab = t.ab /\ u.bad = t.bad
  BY Zenon DEF SessionType, Same
<1>. HIDE DEF u
<1>3. Flows(t, o) => Flows(u, o)
  BY <1>2, Zenon DEF Flows
<1>4. \A e \in FlowType : Ops(u, e) = Ops(t, e)
  BY <1>2, Zenon DEF Ops
<1>. QED  BY <1>1, <1>2, <1>3, <1>4, Zenon DEF Calm, Quiet, u

\* attemptResolvedConnection: the next endpoint or the next backend.
LEMMA AttemptResolvedEffect ==
    ASSUME NEW t \in SessionType, t.allowed, NEW o
    PROVE  LET u == AttemptResolvedConnection(t)
           IN  /\ Good(t, u, o)
               /\ t.eg # "none" /\ Chain(t, 0, 0) => Chain(u, 0, 0)
<1>. DEFINE r == [t EXCEPT !.retry = @ + 1]
            c == [t EXCEPT !.ep = @ - 1, !.eg = "connect",
                           !.sock["EGRESS"] = "connecting"]
            u == AttemptResolvedConnection(t)
<1>1. \/ u = AttemptConnection(r, TRUE)
      \/ u = c
  BY DEF AttemptResolvedConnection
<1>2. u \in SessionType
  BY AttemptResolvedConnectionKeeps, Zenon DEF Keeps
<1>3. ASSUME u = AttemptConnection(r, TRUE)
      PROVE  /\ Good(t, u, o)
             /\ t.eg # "none" /\ Chain(t, 0, 0) => Chain(u, 0, 0)
  <2>1. Calm(t, r, o)
    BY RetryCalm, Zenon
  <2>. HIDE DEF r
  <2>2. r \in SessionType /\ r.allowed /\ r.eg = t.eg /\ Good(t, r, o)
    BY <2>1, QuietGood, Zenon DEF Calm, Quiet, Same
  <2>3. Good(r, u, o) /\ (r.eg # "none" /\ Chain(r, 0, 0) => Chain(u, 0, 0))
    BY <1>3, <2>2, AttemptConnectionEffect, Zenon
  <2>. QED  BY <2>1, <2>2, <2>3, GoodTrans, ChainCalm, Zenon
<1>4. ASSUME u = c
      PROVE  /\ Good(t, u, o)
             /\ t.eg # "none" /\ Chain(t, 0, 0) => Chain(u, 0, 0)
  <2>1. /\ c.conn = t.conn /\ c.paused = t.paused /\ c.ready = t.ready
        /\ c.vhost = t.vhost /\ c.vpaused = t.vpaused /\ c.allowed = t.allowed
        /\ c.shake = t.shake /\ c.eg = "connect" /\ c.disc = t.disc
        /\ c.in = t.in /\ c.buf = t.buf /\ c.out = t.out /\ c.blocked = t.blocked
        /\ c.rd = t.rd /\ c.wd = t.wd /\ c.ab = t.ab /\ c.bad = t.bad
    BY Zenon DEF SessionType
  <2>. HIDE DEF c, u
  <2>2. Good(t, u, o)
    BY <1>2, <1>4, <2>1, Zenon DEF Good, Flows, EgAuth
  <2>3. \A e : Ops(u, e) = Ops(t, e)
    BY <1>4, <2>1, Zenon DEF Ops
  <2>4. "connect" # "none"
    OBVIOUS
  <2>5. t.eg # "none" => Ingress(u) = Ingress(t) /\ Egress(u) = Egress(t)
    BY <1>4, <2>1, <2>3, <2>4, Zenon DEF Ingress, Egress
  <2>6. t.eg # "none" /\ Chain(t, 0, 0) => Chain(u, 0, 0)
    BY <1>4, <2>1, <2>5, Zenon DEF Chain, Base, Finished
  <2>. QED  BY <2>2, <2>6, Zenon
<1>. QED  BY <1>1, <1>3, <1>4, Zenon DEF u

\* establishConnection: the egress flow waits for the answer of authenticate, for
\* the timer of a limited connection, or for the end of a pause.
LEMMA EstablishEffect ==
    ASSUME NEW t \in SessionType, NEW rc, NEW onIo \in BOOLEAN, NEW o, NEW i
    PROVE  LET u == EstablishConnection(t, rc, onIo)
           IN  /\ Good(t, u, o) /\ u.conn = t.conn
               /\ Base(t) /\ t.vhost => Base(u)
               /\ Chain(t, i, 1) /\ t.vhost => Chain(u, i, 0)
<1>. DEFINE p == [t EXCEPT !.ready = TRUE]
            x == Disconnect(SendSyntheticData(t, "INGRESS", "Close", onIo), onIo)
            g(e) == [t EXCEPT !.eg = e]
            u == EstablishConnection(t, rc, onIo)
            Fine == /\ Good(t, u, o) /\ u.conn = t.conn
                    /\ Base(t) /\ t.vhost => Base(u)
                    /\ Chain(t, i, 1) /\ t.vhost => Chain(u, i, 0)
<1>1. \/ u = p /\ t.paused
      \/ u = g("limit") \/ u = g("auth")
      \/ u = x
  BY Zenon DEF EstablishConnection
<1>0. Ops(t, "EGRESS") \in Nat
  BY CountTypes, Sides, Zenon
<1>2. CASE u = x
  <2>1. Ends(t, u, o)
    BY <1>2, RefusedEffect, Zenon
  <2>2. u.conn = t.conn
    BY <2>1, Zenon DEF Ends, Quiet, Same
  <2>3. Base(t) => Base(u) /\ Chain(u, i, 0)
    <3>. HIDE DEF u
    <3>. QED  BY <2>1, ChainEnds, Zenon DEF Chain
  <2>. QED  BY <2>1, <2>2, <2>3, QuietGood, Zenon DEF Ends, Chain
<1>3. CASE u = p /\ t.paused
  <2>0. p \in SessionType
    BY Zenon DEF SessionType
  <2>1. /\ p.conn = t.conn /\ p.paused = t.paused /\ p.ready = TRUE
        /\ p.vhost = t.vhost /\ p.vpaused = t.vpaused /\ p.allowed = t.allowed
        /\ p.shake = t.shake /\ p.eg = t.eg /\ p.disc = t.disc /\ p.sock = t.sock
        /\ p.in = t.in /\ p.buf = t.buf /\ p.out = t.out /\ p.blocked = t.blocked
        /\ p.rd = t.rd /\ p.wd = t.wd /\ p.ab = t.ab /\ p.bad = t.bad
    BY Zenon DEF SessionType
  <2>. HIDE DEF p, u
  <2>2. Good(t, u, o)
    BY <1>3, <2>0, <2>1, Zenon DEF Good, Flows, EgAuth
  <2>3. \A e : Ops(u, e) = Ops(t, e)
    BY <1>3, <2>1, Zenon DEF Ops
  <2>4. Ingress(u) = Ingress(t) /\ Egress(u) = Egress(t)
    BY <1>3, <2>1, <2>3, Zenon DEF Ingress, Egress
  <2>5. Base(t) /\ t.vhost => Base(u)
    BY <1>3, <2>1, Zenon DEF Base
  <2>6. Egress(t) \in Nat
    BY PendingTypes, Zenon
  <2>7. ASSUME Chain(t, i, 1), t.vhost PROVE Chain(u, i, 0)
    <3>1. Base(u) /\ ~NoPause
      BY <1>3, <2>5, <2>7, Zenon DEF Chain, Base
    <3>2. ~Finished(t) => Egress(t) = 0
      BY <2>6, <2>7, SMT DEF Chain, AtMostOne
    <3>3. /\ u.vhost = t.vhost /\ u.conn = t.conn /\ (Finished(u) <=> Finished(t))
      BY <1>3, <2>1, Zenon DEF Finished
    <3>4. AtMostOne(0 + 0) /\ 0 + 0 = 0
      BY <3>1 DEF AtMostOne
    <3>. QED  BY <2>4, <2>7, <3>1, <3>2, <3>3, <3>4, Zenon DEF Chain
  <2>. QED  BY <1>3, <2>1, <2>2, <2>5, <2>7, Zenon DEF u
<1>4. ASSUME NEW e \in {"limit", "auth"}, u = g(e) PROVE Fine
  <2>0. e \in Pipeline /\ e \in {"none", "limit", "auth"} /\ e # "none"
    BY <1>4 DEF Pipeline
  <2>1. /\ g(e) \in SessionType /\ g(e).eg = e
        /\ g(e).disc = t.disc /\ g(e).conn = t.conn /\ g(e).paused = t.paused
        /\ g(e).vpaused = t.vpaused /\ g(e).ready = t.ready /\ g(e).vhost = t.vhost
        /\ Good(t, g(e), o)
        /\ Ingress(g(e)) = Ingress(t)
        /\ Ops(g(e), "EGRESS") = Ops(t, "EGRESS")
    BY <2>0, EgEffect, Zenon
  <2>. HIDE DEF g, u
  <2>2. Base(t) => Base(u)
    BY <1>4, <2>1, Zenon DEF Base
  <2>3. Egress(u) = Ops(t, "EGRESS") + 1
    BY <1>4, <2>0, <2>1, Zenon DEF Egress
  <2>4. ASSUME Chain(t, i, 1), t.vhost PROVE Chain(u, i, 0)
    <3>1. ~Finished(t) => Egress(t) + 1 <= 1 /\ (t.ready => Egress(t) + 1 = 0)
      BY <2>4, Zenon DEF Chain, AtMostOne
    <3>2. ~Finished(t) => Ops(t, "EGRESS") = 0 /\ ~t.ready
      BY <1>0, <3>1, SMT DEF Egress
    <3>3. ~Finished(t) => AtMostOne(Egress(u) + 0)
      BY <2>3, <3>2, SMT DEF AtMostOne
    <3>4. Base(u) /\ (Finished(u) <=> Finished(t))
      BY <1>4, <2>1, <2>2, <2>4, Zenon DEF Chain, Finished
    <3>. QED  BY <1>4, <2>1, <2>4, <3>2, <3>3, <3>4, Zenon DEF Chain
  <2>. QED  BY <1>4, <2>1, <2>2, <2>4, Zenon DEF u
<1>. QED  BY <1>1, <1>2, <1>3, <1>4, Zenon

\* A step of the egress connection is over.
LEMMA EgOver ==
    ASSUME NEW t \in SessionType, NEW o
    PROVE  LET n == [t EXCEPT !.eg = "none"]
           IN  /\ Good(t, n, o) /\ n.allowed = t.allowed
               /\ t.eg # "none" /\ Chain(t, 0, 0) => Chain(n, 0, 1)
               /\ Base(t) => Base(n)
<1>. DEFINE n == [t EXCEPT !.eg = "none"]
<1>0. n.allowed = t.allowed
  BY Zenon DEF SessionType
<1>1. /\ n \in SessionType /\ n.eg = "none"
      /\ n.disc = t.disc /\ n.conn = t.conn /\ n.paused = t.paused
      /\ n.vpaused = t.vpaused /\ n.ready = t.ready /\ n.vhost = t.vhost
      /\ Good(t, n, o) /\ Ingress(n) = Ingress(t)
      /\ Ops(n, "EGRESS") = Ops(t, "EGRESS")
  BY EgEffect, Zenon DEF Pipeline
<1>2. Ops(t, "EGRESS") \in Nat
  BY CountTypes, Sides, Zenon
<1>. HIDE DEF n
<1>3. t.eg # "none" => Egress(n) + 1 = Egress(t) + 0
  BY <1>1, <1>2, SMT DEF Egress
<1>4. Base(t) => Base(n)
  BY <1>1, Zenon DEF Base
<1>5. t.eg # "none" /\ Chain(t, 0, 0) => Chain(n, 0, 1)
  BY <1>1, <1>3, <1>4, Zenon DEF Chain, Finished
<1>. QED  BY <1>0, <1>1, <1>4, <1>5, Zenon DEF n

\* The protocol header is written to the broker.
LEMMA HandshookEffect ==
    ASSUME NEW t \in SessionType, NEW o
    PROVE  LET u == EgressHandshook(t)
           IN  /\ Good(t, u, o)
               /\ \/ t.eg # "none" /\ Chain(t, 0, 0)
                  \/ t.eg = "none" /\ Chain(t, 0, 1)
                  => Chain(u, 0, 0)
<1>. DEFINE n == [t EXCEPT !.eg = "none"]
            u == HandleWriteData(n, "EGRESS", "EGRESS", <<Frm("Header")>>)
<1>0. u = EgressHandshook(t)
  BY Zenon DEF EgressHandshook
<1>1. /\ Good(t, n, o)
      /\ t.eg # "none" /\ Chain(t, 0, 0) => Chain(n, 0, 1)
  BY EgOver, Zenon
<1>2. t.eg = "none" => n = t
  BY ZenonT(40) DEF SessionType
<1>. HIDE DEF n
<1>3. n \in SessionType
  BY <1>1, Zenon DEF Good
<1>4. /\ <<Frm("Header")>> \in Seq(Frame)
      /\ "EGRESS" = "INGRESS" => <<Frm("Header")>> \in Seq(ToClient(o))
  BY Answers, AnswersToClient, Zenon
<1>5. /\ Quiet(n, u, o) /\ u.disc = n.disc
      /\ \A e \in FlowType : Ops(u, e) = Ops(n, e) + One("EGRESS", e)
  BY <1>3, <1>4, WriteEffect, Sides, Zenon
<1>. HIDE DEF u
<1>6. Good(t, u, o)
  BY <1>1, <1>5, QuietGood, GoodTrans, Zenon
<1>7. One("EGRESS", "INGRESS") = 0 /\ One("EGRESS", "EGRESS") = 1
  BY DEF One
<1>8. Chain(n, 0, 1) => Chain(u, 0, 0)
  BY <1>3, <1>5, <1>7, ChainStarted, Sides, Zenon DEF Quiet
<1>. QED  BY <1>0, <1>1, <1>2, <1>6, <1>8, Zenon

\* async_handshake with the broker.
LEMMA HandshakeEffect ==
    ASSUME NEW t \in SessionType, t.allowed, t.eg # "none", NEW o
    PROVE  LET u == EgressHandshake(t)
           IN  /\ Good(t, u, o)
               /\ Chain(t, 0, 0) => Chain(u, 0, 0)
<1>. DEFINE x == [t EXCEPT !.eg = "tls"]
<1>1. /\ x \in SessionType /\ x.eg = "tls"
      /\ x.disc = t.disc /\ x.conn = t.conn /\ x.paused = t.paused
      /\ x.vpaused = t.vpaused /\ x.ready = t.ready /\ x.vhost = t.vhost
      /\ Good(t, x, o) /\ Ingress(x) = Ingress(t)
      /\ Ops(x, "EGRESS") = Ops(t, "EGRESS")
  BY EgEffect, Zenon DEF Pipeline
<1>2. EgressHandshake(t) \in {x, EgressHandshook(t)}
  BY Zenon DEF EgressHandshake
<1>3. "tls" # "none"
  OBVIOUS
<1>. HIDE DEF x
<1>4. Egress(x) = Egress(t)
  BY <1>1, <1>3, Zenon DEF Egress
<1>5. Chain(t, 0, 0) => Chain(x, 0, 0)
  BY <1>1, <1>4, Zenon DEF Chain, Base, Finished
<1>. QED  BY <1>1, <1>2, <1>5, HandshookEffect, Zenon

-----------------------------------------------------------------------------
(* handleData.                                                             *)

\* connectionVhostEstablished: what the vhost event changes before
\* establishConnection is called.
LEMMA VhostKnown ==
    ASSUME NEW t \in SessionType, NEW o
    PROVE  LET v == [t EXCEPT !.vhost = TRUE, !.paused = @ \/ t.vpaused]
           IN  /\ Good(t, v, o) /\ v.conn = t.conn /\ v.vhost /\ v.disc = t.disc
               /\ v.ready = t.ready /\ v.vpaused = t.vpaused
               /\ v.paused = (t.paused \/ t.vpaused)
               /\ Ingress(v) = Ingress(t) /\ Egress(v) = Egress(t)
<1>. DEFINE v == [t EXCEPT !.vhost = TRUE, !.paused = @ \/ t.vpaused]
<1>1. /\ v \in SessionType /\ v.conn = t.conn /\ v.vhost = TRUE /\ v.disc = t.disc
      /\ v.ready = t.ready /\ v.vpaused = t.vpaused
      /\ v.paused = (t.paused \/ t.vpaused)
      /\ v.shake = t.shake /\ v.eg = t.eg /\ v.sock = t.sock
      /\ v.allowed = t.allowed /\ v.in = t.in /\ v.buf = t.buf /\ v.out = t.out
      /\ v.blocked = t.blocked /\ v.rd = t.rd /\ v.wd = t.wd /\ v.ab = t.ab
      /\ v.bad = t.bad
  BY Zenon DEF SessionType
<1>. HIDE DEF v
<1>2. Good(t, v, o)
  BY <1>1, Zenon DEF Good, Flows, EgAuth
<1>3. \A e : Ops(v, e) = Ops(t, e)
  BY <1>1, Zenon DEF Ops
<1>4. Ingress(v) = Ingress(t) /\ Egress(v) = Egress(t)
  BY <1>1, <1>3, Zenon DEF Ingress, Egress
<1>. QED  BY <1>1, <1>2, <1>4, Zenon DEF v

\* The Connector moves on to the state st.
LEMMA ConnMoved ==
    ASSUME NEW t \in SessionType, NEW st \in State, NEW o
    PROVE  LET u == [t EXCEPT !.conn = st]
           IN  /\ Good(t, u, o) /\ u.conn = st /\ u.vhost = t.vhost
               /\ u.disc = t.disc /\ u.ready = t.ready /\ u.vpaused = t.vpaused
               /\ u.paused = t.paused /\ u.allowed = t.allowed
               /\ Ingress(u) = Ingress(t) /\ Egress(u) = Egress(t)
<1>. DEFINE u == [t EXCEPT !.conn = st]
<1>1. /\ u \in SessionType /\ u.conn = st /\ u.vhost = t.vhost /\ u.disc = t.disc
      /\ u.ready = t.ready /\ u.vpaused = t.vpaused /\ u.paused = t.paused
      /\ u.shake = t.shake /\ u.eg = t.eg /\ u.sock = t.sock
      /\ u.allowed = t.allowed /\ u.in = t.in /\ u.buf = t.buf /\ u.out = t.out
      /\ u.blocked = t.blocked /\ u.rd = t.rd /\ u.wd = t.wd /\ u.ab = t.ab
      /\ u.bad = t.bad
  BY Zenon DEF SessionType
<1>. HIDE DEF u
<1>2. Good(t, u, o)
  BY <1>1, Zenon DEF Good, Flows, EgAuth
<1>3. \A e : Ops(u, e) = Ops(t, e)
  BY <1>1, Zenon DEF Ops
<1>4. Ingress(u) = Ingress(t) /\ Egress(u) = Egress(t)
  BY <1>1, <1>3, Zenon DEF Ingress, Egress
<1>. QED  BY <1>1, <1>2, <1>4, Zenon DEF u

\* handleData, up to the call of the connection creation handler.
Owes(t, d) == Chain(t, One(d, "INGRESS"), One(d, "EGRESS"))

\* handleData up to the connection creation handler: with the vhost the egress
\* flow starts to wait for establishConnection, and the flow that was read
\* still owes an operation.
LEMMA CreateEffect ==
    ASSUME NEW t \in SessionType, NEW d \in FlowType, NEW p \in ProcessType, NEW rc,
           NEW o
    PROVE  LET t1 == [t EXCEPT !.conn = p.st]
               t2 == IF p.create THEN VhostEstablished(t1, rc) ELSE t1
           IN  /\ Good(t, t2, o) /\ t2.conn = p.st
               /\ Base(t) /\ Processed(p, t.conn, d) => Base(t2)
               /\ /\ Owes(t, d) /\ ~Finished(t) /\ Processed(p, t.conn, d)
                  /\ p.st # "ERROR"
                  => Owes(t2, d) /\ Timely(t.conn, d)
<1>. DEFINE t1 == [t EXCEPT !.conn = p.st]
            v == [t1 EXCEPT !.vhost = TRUE, !.paused = @ \/ t1.vpaused]
            e2 == EstablishConnection(v, rc, TRUE)
            t2 == IF p.create THEN VhostEstablished(t1, rc) ELSE t1
<1>0. p.st \in State /\ p.create \in BOOLEAN
  BY Zenon DEF ProcessType
<1>1. /\ Good(t, t1, o) /\ t1.conn = p.st /\ t1.vhost = t.vhost
      /\ t1.disc = t.disc /\ t1.ready = t.ready /\ t1.vpaused = t.vpaused
      /\ t1.paused = t.paused /\ t1.allowed = t.allowed
      /\ Ingress(t1) = Ingress(t) /\ Egress(t1) = Egress(t)
  BY <1>0, ConnMoved, Zenon
<1>2. t2 = IF p.create THEN e2 ELSE t1
  BY Zenon DEF VhostEstablished
<1>. HIDE DEF t1, t2
<1>3. t1 \in SessionType
  BY <1>1, Zenon DEF Good
<1>4. /\ Good(t1, v, o) /\ v.conn = t1.conn /\ v.vhost /\ v.disc = t1.disc
      /\ v.ready = t1.ready /\ v.vpaused = t1.vpaused
      /\ v.paused = (t1.paused \/ t1.vpaused)
      /\ Ingress(v) = Ingress(t1) /\ Egress(v) = Egress(t1)
  BY <1>3, VhostKnown, Zenon
<1>. HIDE DEF v
<1>5. v \in SessionType
  BY <1>4, Zenon DEF Good
<1>6. /\ Good(v, e2, o) /\ e2.conn = v.conn
      /\ Base(v) => Base(e2)
      /\ Chain(v, 1, 1) => Chain(e2, 1, 0)
  BY <1>4, <1>5, EstablishEffect, Zenon
<1>. HIDE DEF e2
<1>7. Good(t, t2, o) /\ t2.conn = p.st
  BY <1>1, <1>2, <1>4, <1>6, GoodTrans, Zenon
<1>8. ASSUME Base(t), Processed(p, t.conn, d)
      PROVE  Base(t2) /\ Base(t1) /\ Base(v)
  <2>1. Base(t1)
    BY <1>1, <1>8, Zenon DEF Base, Processed
  <2>2. Base(v)
    BY <1>4, <2>1, Zenon DEF Base
  <2>. QED  BY <1>2, <1>6, <2>1, <2>2, Zenon
<1>9. ASSUME Owes(t, d), ~Finished(t), Processed(p, t.conn, d), p.st # "ERROR"
      PROVE  Owes(t2, d) /\ Timely(t.conn, d)
  <2>0. Base(t2) /\ Base(t1) /\ Base(v)
    BY <1>8, <1>9, Zenon DEF Owes, Chain
  <2>1. Ingress(t) \in Nat /\ Egress(t) \in Nat
    BY PendingTypes, Zenon
  <2>2. ASSUME t.conn \in Early
        PROVE  /\ d = "INGRESS" /\ Egress(t) = 0 /\ ~t.ready /\ ~t.vhost
    <3>1. ~t.vhost /\ Egress(t) + One(d, "EGRESS") = 0 /\ ~t.ready
      BY <1>9, <2>2, Zenon DEF Owes, Chain, Base
    <3>2. One(d, "EGRESS") = 0 /\ Egress(t) = 0
      BY <2>1, <3>1 DEF One
    <3>3. d = "INGRESS"
      BY <3>2 DEF One, FlowType
    <3>. QED  BY <3>1, <3>2, <3>3, Zenon
  <2>3. Timely(t.conn, d)
    BY <2>2 DEF Timely
  <2>4. CASE ~p.create
    <3>1. t2 = t1 /\ (t1.conn \in Early <=> t.conn \in Early)
      BY <1>0, <1>1, <1>2, <1>9, <2>4, Zenon DEF Processed
    <3>2. Finished(t1) <=> Finished(t)
      BY <1>1, Zenon DEF Finished
    <3>. QED  BY <1>1, <1>9, <2>0, <2>3, <3>1, <3>2, Zenon DEF Owes, Chain
  <2>5. CASE p.create
    <3>1. t2 = e2 /\ t.conn \in Early /\ p.st \notin Early
      BY <1>2, <1>9, <2>5, Zenon DEF Processed
    <3>2. d = "INGRESS" /\ Egress(t) = 0 /\ ~t.ready
      BY <2>2, <3>1, Zenon
    <3>3. One(d, "INGRESS") = 1 /\ One(d, "EGRESS") = 0
      BY <3>2 DEF One
    <3>4. AtMostOne(0 + 1)
      BY DEF AtMostOne
    <3>5. AtMostOne(Ingress(v) + 1)
      BY <1>1, <1>4, <1>9, <3>3, Zenon DEF Owes, Chain
    <3>6. AtMostOne(Egress(v) + 1)
      BY <1>1, <1>4, <3>2, <3>4, Zenon
    <3>7. Chain(v, 1, 1)
      BY <1>1, <1>4, <2>0, <3>1, <3>2, <3>5, <3>6, Zenon DEF Chain
    <3>. QED  BY <1>6, <2>3, <3>1, <3>3, <3>7, Zenon DEF Owes
  <2>. QED  BY <2>4, <2>5, Zenon
<1>. QED  BY <1>7, <1>8, <1>9, Zenon DEF t2, t1

\* The read buffer is emptied.
LEMMA EmptiedCalm ==
    ASSUME NEW t \in SessionType, NEW d \in FlowType, NEW o
    PROVE  Calm(t, [t EXCEPT !.buf[d] = <<>>], o)
<1>. DEFINE u == [t EXCEPT !.buf[d] = <<>>]
<1>0. t.buf \in [FlowType -> Seq(Frame)]
  BY FieldTypes, Zenon
<1>1. [t.buf EXCEPT ![d] = <<>>] \in [FlowType -> Seq(Frame)]
  BY <1>0
<1>2. /\ u \in SessionType /\ Same(t, u) /\ u.disc = t.disc /\ u.sock = t.sock
      /\ u.in = t.in /\ u.out = t.out /\ u.blocked = t.blocked
      /\ u.rd = t.rd /\ u.wd = t.wd /\ u.ab = t.ab /\ u.bad = t.bad
      /\ u.buf = [t.buf EXCEPT ![d] = <<>>]
  BY <1>1, Zenon DEF SessionType, Same
<1>. HIDE DEF u
<1>3. \A x \in FlowType : u.buf[x] = IF x = d THEN <<>> ELSE t.buf[x]
  BY <1>0, <1>2, FlowLookup, Zenon
<1>4. <<>> \in Seq(ClientFrame) /\ <<>> \in Seq(BrokerFrame(o))
  OBVIOUS
<1>5. Flows(t, o) => Flows(u, o)
  BY <1>2, <1>3, <1>4, Sides, Zenon DEF Flows
<1>6. \A e \in FlowType : Ops(u, e) = Ops(t, e)
  BY <1>2, Zenon DEF Ops
<1>. QED  BY <1>2, <1>5, <1>6, Zenon DEF Calm, Quiet, u

\* handleData: every way out of it starts one operation of the flow that was read,
\* or ends the session.
LEMMA HandleDataEffect ==
    ASSUME NEW t \in SessionType, NEW d \in FlowType, NEW rc, NEW o, Flows(t, o)
    PROVE  LET u == HandleData(t, d, rc)
           IN  /\ Good(t, u, o)
               /\ Owes(t, d) => Chain(u, 0, 0)
<1>. DEFINE p  == Process(t.conn, t.buf[d], d)
            t1 == [t EXCEPT !.conn = p.st]
            t2 == IF p.create THEN VhostEstablished(t1, rc) ELSE t1
            t3 == [t2 EXCEPT !.buf[d] = <<>>]
            fi == IF p.st = "OPEN" THEN "EGRESS" ELSE "INGRESS"
            fe == IF p.st = "OPEN" THEN "INGRESS" ELSE "EGRESS"
            t4 == CASE p.iw # <<>> -> HandleWriteData(t3, fi, "INGRESS", p.iw)
                    [] p.iw = <<>> /\ p.ew # <<>> ->
                         HandleWriteData(t3, fe, "EGRESS", p.ew)
                    [] OTHER -> ReadData(t3, d)
            u == HandleData(t, d, rc)
            refused == Disconnect(SendSyntheticData(t2, "INGRESS", "Close", TRUE), TRUE)
<1>1. t.conn \in State /\ t.buf[d] \in Seq(Frame) /\ t.buf[d] \in Seq(FromSide(d, o))
  <2>1. t.conn \in State /\ t.buf[d] \in Seq(Frame)
    BY FieldTypes, Zenon DEF SessionType
  <2>2. CASE d = "INGRESS"
    BY <2>1, <2>2, Zenon DEF Flows, FromSide
  <2>3. CASE d = "EGRESS"
    <3>1. FromSide(d, o) = BrokerFrame(o)
      BY <2>3 DEF FromSide
    <3>. QED  BY <2>1, <2>3, <3>1, Zenon DEF Flows
  <2>. QED  BY <2>2, <2>3, Zenon DEF FlowType
<1>2. p \in ProcessType
  BY <1>1, ProcessTypeOf, Zenon
<1>3. t.conn # "CLIENT_CLOSE_SENT" => Processed(p, t.conn, d)
  <2>1. t.conn # "CLIENT_CLOSE_SENT" => t.conn \in State \ {"CLIENT_CLOSE_SENT"}
    BY <1>1
  <2>. QED  BY <1>1, <2>1, ProcessMoves, Zenon
<1>4. p.iw \in Seq(ToClient(o))
  BY <1>1, ProcessToClient, Zenon
<1>5. /\ p.iw \in Seq(Frame) /\ p.ew \in Seq(Frame) /\ fi \in FlowType /\ fe \in FlowType
  BY <1>2, Zenon DEF ProcessType, FlowType
<1>6. u = CASE p.exc = "CloseError" -> refused
            [] p.exc = "runtime_error" -> Disconnect(t2, TRUE)
            [] p.exc = "none" /\ p.st = "CLOSED" -> PerformDisconnectBoth(t4)
            [] p.exc = "none" /\ p.st = "ERROR" -> Disconnect(t4, TRUE)
            [] OTHER -> t4
  BY Zenon DEF HandleData
<1>7. p.exc \in {"none", "CloseError", "runtime_error"}
  BY <1>2, Zenon DEF ProcessType, Exception
<1>. HIDE DEF p, u
<1>8. /\ Good(t, t2, o) /\ t2.conn = p.st
      /\ Base(t) /\ Processed(p, t.conn, d) => Base(t2)
      /\ /\ Owes(t, d) /\ ~Finished(t) /\ Processed(p, t.conn, d)
         /\ p.st # "ERROR"
         => Owes(t2, d) /\ Timely(t.conn, d)
  BY <1>2, CreateEffect, Zenon
<1>. HIDE DEF t2
<1>9. t2 \in SessionType
  BY <1>8, Zenon DEF Good
<1>10. Calm(t2, t3, o)
  BY <1>9, EmptiedCalm, Zenon
<1>. HIDE DEF t3
<1>11. t3 \in SessionType
  BY <1>10, Zenon DEF Calm, Quiet
<1>12. /\ Quiet(t3, t4, o) /\ t4.disc = t3.disc
       /\ \E x \in FlowType :
             /\ \A e \in FlowType : Ops(t4, e) = Ops(t3, e) + One(x, e)
             /\ \/ p.iw # <<>> /\ x = fi
                \/ p.ew # <<>> /\ x = fe
                \/ x = d
  <2>0. ASSUME NEW x \in FlowType, NEW q \in Seq(Frame)
        PROVE  /\ LET w == HandleWriteData(t3, x, "EGRESS", q)
                  IN  /\ Quiet(t3, w, o) /\ w.disc = t3.disc
                      /\ \A e \in FlowType : Ops(w, e) = Ops(t3, e) + One(x, e)
               /\ q \in Seq(ToClient(o)) =>
                  LET w == HandleWriteData(t3, x, "INGRESS", q)
                  IN  /\ Quiet(t3, w, o) /\ w.disc = t3.disc
                      /\ \A e \in FlowType : Ops(w, e) = Ops(t3, e) + One(x, e)
    <3>1. "EGRESS" = "INGRESS" => q \in Seq(ToClient(o))
      OBVIOUS
    <3>2. ASSUME NEW side \in FlowType, side = "INGRESS" => q \in Seq(ToClient(o))
          PROVE  LET w == HandleWriteData(t3, x, side, q)
                 IN  /\ Quiet(t3, w, o) /\ w.disc = t3.disc
                     /\ \A e \in FlowType : Ops(w, e) = Ops(t3, e) + One(x, e)
      BY <1>11, <3>2, WriteEffect, ZenonT(40)
    <3>. QED  BY <3>1, <3>2, Sides, Zenon
  <2>1. CASE p.iw # <<>>
    <3>. DEFINE w == HandleWriteData(t3, fi, "INGRESS", p.iw)
    <3>1. t4 = w
      BY <2>1, Zenon
    <3>. HIDE DEF t4, fi, fe
    <3>2. /\ Quiet(t3, w, o) /\ w.disc = t3.disc
          /\ \A e \in FlowType : Ops(w, e) = Ops(t3, e) + One(fi, e)
      BY <1>4, <1>5, <1>11, <2>0, Zenon
    <3>. HIDE DEF w
    <3>. QED  BY <1>5, <2>1, <3>1, <3>2, Zenon
  <2>2. CASE p.iw = <<>> /\ p.ew # <<>>
    <3>. DEFINE w == HandleWriteData(t3, fe, "EGRESS", p.ew)
    <3>1. t4 = w
      BY <2>2, Zenon
    <3>. HIDE DEF t4, fi, fe
    <3>3. /\ Quiet(t3, w, o) /\ w.disc = t3.disc
          /\ \A e \in FlowType : Ops(w, e) = Ops(t3, e) + One(fe, e)
      BY <1>5, <1>11, <2>0, Zenon
    <3>. HIDE DEF w
    <3>. QED  BY <1>5, <2>2, <3>1, <3>3, Zenon
  <2>3. CASE p.iw = <<>> /\ p.ew = <<>>
    <3>1. t4 = ReadData(t3, d)
      BY <2>3, Zenon
    <3>. HIDE DEF t4
    <3>. QED  BY <1>11, <3>1, ReadDataEffect, Zenon
  <2>. QED  BY <2>1, <2>2, <2>3, Zenon
<1>. HIDE DEF t4
<1>13. t4 \in SessionType
  BY <1>12, Zenon DEF Quiet
<1>14. /\ Ends(t2, refused, o) /\ Ends(t2, Disconnect(t2, TRUE), o)
       /\ Ends(t4, Disconnect(t4, TRUE), o) /\ Calm(t4, PerformDisconnectBoth(t4), o)
  BY <1>9, <1>13, RefusedEffect, DisconnectEffect, BothEffect, Zenon
<1>. HIDE DEF refused
<1>15. Good(t, u, o)
  <2>1. Good(t, t4, o)
    BY <1>8, <1>10, <1>12, QuietGood, GoodTrans, Zenon DEF Calm
  <2>2. /\ Good(t2, refused, o) /\ Good(t2, Disconnect(t2, TRUE), o)
        /\ Good(t4, Disconnect(t4, TRUE), o) /\ Good(t4, PerformDisconnectBoth(t4), o)
    BY <1>14, QuietGood, Zenon DEF Ends, Calm
  <2>. QED  BY <1>6, <1>7, <1>8, <2>1, <2>2, GoodTrans, Zenon
<1>16. ASSUME Owes(t, d) PROVE Chain(u, 0, 0)
  <2>1. Base(t) /\ Processed(p, t.conn, d) /\ Base(t2)
    BY <1>3, <1>8, <1>16, Zenon DEF Owes, Chain, Base
  <2>2. Base(t4)
    <3>1. Base(t3)
      BY <1>10, <2>1, Zenon DEF Calm, Quiet, Same, Base
    <3>. QED  BY <1>12, <3>1, Zenon DEF Quiet, Same, Base
  <2>3. /\ Chain(refused, 0, 0) /\ Chain(Disconnect(t2, TRUE), 0, 0)
        /\ Chain(Disconnect(t4, TRUE), 0, 0)
    BY <1>14, <2>1, <2>2, ChainEnds, Zenon
  <2>4. CASE Finished(t)
    <3>1. Finished(u)
      BY <2>4, HandleDataKeeps, Zenon DEF Keeps, u
    <3>2. Base(PerformDisconnectBoth(t4))
      BY <1>14, <2>2, Zenon DEF Calm, Quiet, Same, Base
    <3>3. Base(u)
      BY <1>6, <1>7, <2>2, <2>3, <3>2, Zenon DEF Chain
    <3>. QED  BY <3>1, <3>3, Zenon DEF Chain
  <2>5. CASE ~Finished(t) /\ p.exc = "none" /\ p.st # "ERROR"
    <3>1. Owes(t2, d) /\ Timely(t.conn, d)
      BY <1>8, <1>16, <2>1, <2>5, Zenon
    <3>2. Owes(t3, d)
      BY <1>9, <1>10, <3>1, ChainCalm, Zenon DEF Owes
    <3>3. p.iw # <<>> => fi = d
      BY <2>1, <2>5, <3>1, Zenon DEF Processed, FlowType
    <3>4. p.ew # <<>> => fe = d
      BY <2>1, <2>5, <3>1, Zenon DEF Processed, FlowType
    <3>5. \A e \in FlowType : Ops(t4, e) = Ops(t3, e) + One(d, e)
      BY <1>12, <3>3, <3>4, Zenon
    <3>6. Same(t3, t4) /\ t4.disc = t3.disc
      BY <1>12, Zenon DEF Quiet
    <3>7. Chain(t4, 0, 0)
      BY <1>11, <3>2, <3>5, <3>6, ChainStarted, Zenon DEF Owes
    <3>8. Chain(PerformDisconnectBoth(t4), 0, 0)
      BY <1>13, <1>14, <3>7, ChainCalm, Zenon
    <3>. QED  BY <1>6, <2>5, <3>7, <3>8, Zenon
  <2>6. CASE p.exc # "none" \/ p.st = "ERROR"
    BY <1>6, <1>7, <2>3, <2>6
  <2>. QED  BY <2>4, <2>5, <2>6, Zenon
<1>. QED  BY <1>15, <1>16, Zenon DEF u

=============================================================================
