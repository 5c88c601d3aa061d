----------------------------- MODULE Connector -----------------------------
(***************************************************************************)
(* The AMQP handshake state machine of one session: Connector (the         *)
(* receive methods and the synthesize methods) and PacketProcessor (which  *)
(* frames of a read buffer reach the Connector and which bytes are handed  *)
(* back to be written).                                                    *)
(*                                                                         *)
(* Everything here is a pure operator: Session.tla owns the state and      *)
(* applies these operators to it.  A frame is its kind and, for content    *)
(* frames, a sequence number; all other payload is abstracted away.        *)
(***************************************************************************)
EXTENDS Naturals, Sequences

FlowType == {"INGRESS", "EGRESS"}

\* Connector::State
State ==
    {"AWAITING_PROTOCOL_HEADER", "START_SENT", "TUNE_SENT", "AWAITING_OPEN",
     "AWAITING_CONNECTION", "STARTOK_SENT", "OPEN_SENT", "OPEN",
     "CLIENT_CLOSE_SENT", "SERVER_CLOSE_SENT", "EXPECTING_CLOSE", "CLOSED",
     "ERROR"}

\* The methods of the AMQP class 10 (Connection) that the Connector decodes.
MethodType ==
    {"Start", "StartOk", "Tune", "TuneOk", "Open", "OpenOk", "Close",
     "CloseOk"}

\* What travels on a socket.  "Header" is a supported AMQP protocol header,
\* "OldHeader" any other; "Heartbeat" and "Content" are frames that are not
\* methods of class 10.
FrameType ==
    MethodType \cup
    {"Header", "OldHeader", "ProxyHeader", "Heartbeat", "Content"}

Frame == [type : FrameType, n : Nat]

Frm(t) == [type |-> t, n |-> 0]

-----------------------------------------------------------------------------
(***************************************************************************)
(* Connector::receive.  The result of receiving one method:                *)
(*   st      the next state,                                               *)
(*   out     the frames left in d_buffer (outBuffer()),                    *)
(*   to      the side d_sendToIngressSide selects, meaningful when out is  *)
(*           not empty,                                                    *)
(*   exc     the exception thrown, if any,                                 *)
(*   create  whether the connection creation handler was called.           *)
(***************************************************************************)
Exception == {"none", "CloseError", "runtime_error"}

Result(st, out, to) ==
    [st |-> st, out |-> out, to |-> to, exc |-> "none", create |-> FALSE]

\* decodeMethod<T>: the expected method or an exception.  A Close from the
\* broker is reported as CloseError, anything else as a runtime_error.
DecodeMethod(T, st, m, dir, ok) ==
    IF m = T
    THEN ok
    ELSE [Result(st, <<>>, "INGRESS") EXCEPT
            !.exc = IF m = "Close" /\ dir = "EGRESS" THEN "CloseError"
                                                     ELSE "runtime_error"]

\* Case CLIENT_CLOSE_SENT of receive.  synthesizeClose(false) starts by
\* emptying d_buffer, so on a Close from the client the CloseOk that was just
\* put there is dropped and only the Close to the broker remains.
ReceiveClientCloseSent(m, dir) ==
    CASE dir = "INGRESS" /\ m \in {"Close", "CloseOk"} ->
            Result("SERVER_CLOSE_SENT", <<Frm("Close")>>, "EGRESS")
      [] dir = "EGRESS" /\ m = "Close" ->
            Result("CLOSED", <<Frm("CloseOk")>>, "EGRESS")
      [] OTHER -> Result("CLIENT_CLOSE_SENT", <<>>, "INGRESS")

\* Case SERVER_CLOSE_SENT of receive: a Close is answered to the side it came
\* from, and a Close or CloseOk from the broker ends the session.
ReceiveServerCloseSent(m, dir) ==
    Result(IF dir = "EGRESS" /\ m \in {"Close", "CloseOk"}
           THEN "CLOSED" ELSE "SERVER_CLOSE_SENT",
           IF m = "Close" THEN <<Frm("CloseOk")>> ELSE <<>>,
           dir)

Receive(st, m, dir) ==
    CASE st = "OPEN" ->
            Result(IF m \in {"Close", "CloseOk"} THEN "CLOSED" ELSE "OPEN",
                   <<>>, "INGRESS")
      [] st = "START_SENT" ->
            DecodeMethod("StartOk", st, m, dir,
                Result("TUNE_SENT", <<Frm("Tune")>>, "INGRESS"))
      [] st = "TUNE_SENT" ->
            DecodeMethod("TuneOk", st, m, dir,
                Result("AWAITING_OPEN", <<>>, "INGRESS"))
      [] st = "AWAITING_OPEN" ->
            DecodeMethod("Open", st, m, dir,
                [Result("AWAITING_CONNECTION", <<>>, "INGRESS")
                    EXCEPT !.create = TRUE])
      [] st = "AWAITING_CONNECTION" ->
            DecodeMethod("Start", st, m, dir,
                Result("STARTOK_SENT", <<Frm("StartOk")>>, "EGRESS"))
      [] st = "STARTOK_SENT" ->
            DecodeMethod("Tune", st, m, dir,
                Result("OPEN_SENT", <<Frm("TuneOk"), Frm("Open")>>, "EGRESS"))
      [] st = "OPEN_SENT" ->
            IF m = "OpenOk" THEN Result("OPEN", <<Frm("OpenOk")>>, "INGRESS")
                            ELSE Result("OPEN_SENT", <<>>, "INGRESS")
      [] st = "CLIENT_CLOSE_SENT" -> ReceiveClientCloseSent(m, dir)
      [] st = "SERVER_CLOSE_SENT" -> ReceiveServerCloseSent(m, dir)
      [] OTHER -> Result(st, <<>>, "INGRESS")

\* Connector::receive(const Buffer &): the protocol header.  The whole buffer
\* is compared with it, and anything else is answered with the supported one.
ReceiveHeader(frames) ==
    IF frames = <<Frm("Header")>>
    THEN Result("START_SENT", <<Frm("Start")>>, "INGRESS")
    ELSE Result("ERROR", <<Frm("Header")>>, "INGRESS")

-----------------------------------------------------------------------------
(***************************************************************************)
(* PacketProcessor::process over the frames of one read buffer.  iw and ew *)
(* are ingressWrite() and egressWrite(): each method received replaces     *)
(* both, so only the answer to the last one survives.  Once the Connector  *)
(* is OPEN no frame is decoded and the whole buffer is passed through to   *)
(* the other side, the OpenOk that opened it included.                     *)
(***************************************************************************)
\* The answer r of the Connector as the state of the frame loop.
Collect(r, create) ==
    [st |-> r.st, exc |-> r.exc, create |-> create \/ r.create,
     iw |-> IF r.to = "INGRESS" THEN r.out ELSE <<>>,
     ew |-> IF r.to = "EGRESS"  THEN r.out ELSE <<>>]

\* One iteration of the frame loop; an exception leaves the loop.
ProcessFrame(p, f, dir) ==
    IF p.exc = "none" /\ p.st # "OPEN" /\ f.type \in MethodType
    THEN Collect(Receive(p.st, f.type, dir), p.create)
    ELSE p

\* A read buffer holds at most this many frames.
BufferFrames == 3

\* Mutant of PassThrough: only the first frame of the buffer is written.
PassThroughFirst(p, frames, dir) ==
    IF p.st = "OPEN" /\ p.exc = "none"
    THEN [p EXCEPT !.iw = IF dir = "EGRESS"  THEN <<frames[1]>> ELSE <<>>,
                   !.ew = IF dir = "INGRESS" THEN <<frames[1]>> ELSE <<>>]
    ELSE p

PassThrough(p, frames, dir) ==
    IF p.st = "OPEN" /\ p.exc = "none"
    THEN [p EXCEPT !.iw = IF dir = "EGRESS"  THEN frames ELSE <<>>,
                   !.ew = IF dir = "INGRESS" THEN frames ELSE <<>>]
    ELSE p

Process(st, frames, dir) ==
    IF st = "AWAITING_PROTOCOL_HEADER"
    THEN Collect(ReceiveHeader(frames), FALSE)
    ELSE LET p0 == [st |-> st, exc |-> "none", create |-> FALSE,
                    iw |-> <<>>, ew |-> <<>>]
             Step(p, i) == IF i <= Len(frames)
                           THEN ProcessFrame(p, frames[i], dir) ELSE p
         IN  PassThrough(Step(Step(Step(p0, 1), 2), 3), frames, dir)

=============================================================================
