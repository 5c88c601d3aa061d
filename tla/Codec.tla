------------------------------- MODULE Codec -------------------------------
(***************************************************************************)
(* What the proxy reads from the wire and what it writes: frames, methods  *)
(* and field tables (Frame, Method, Types and the methods), the messages    *)
(* the connector makes itself and those it passes on from client to       *)
(* broker, with its own fields added (Connector::sendResponse,             *)
(* ConnectorUtil).  One handshake, its frames cut anywhere.                *)
(*                                                                         *)
(* Octets are integers.  Those that carry numbers are digits to the base   *)
(* Base (256 in the code), so that every width keeps its number of octets  *)
(* and a short string its limit, Base - 1.  A letter is its ASCII code.    *)
(* A buffer being read is the sequence of the octets not yet consumed; a   *)
(* buffer being written is the number of octets still available.           *)
(***************************************************************************)
EXTENDS Integers, Sequences, SequencesExt

CONSTANTS
    Base,           \* values of an octet
    MaxFrameSize,   \* Frame::maxFrameSize
    Values,         \* field values a client may send in its properties
    Pads,           \* lengths of the field before it
    Vhosts,         \* virtual hosts a client opens
    Answers         \* answers of the authentication service

VARIABLES
    client,         \* what the client sends: [startOk, tuneOk, open], fixed
    pc,             \* what the connector waits for
    avail,          \* octets of the present message(s) that have arrived
    used,           \* octets of them that were decoded
    got,            \* d_startOk, d_tuneOk, d_open, as far as received
    out,            \* d_buffer, the octets to write
    told,           \* history: the methods meant to be in out
    fault           \* "none", "throw" or "assert"

vars == <<client, pc, avail, used, got, out, told, fault>>

-----------------------------------------------------------------------------
(* Numbers and letters *)

\* boost::endian::big_*: n in k octets, the most significant first.
Digits(n, k) ==
    [i \in 1..k |-> ((n % (Base ^ k)) \div (Base ^ (k - i))) % Base]

Unsigned(s) == FoldLeft(LAMBDA n, d : n * Base + d, 0, s)

Signed(s) == LET n == Unsigned(s)
                 b == Base ^ Len(s)
             IN  IF 2 * n >= b THEN n - b ELSE n

Ascii == [t |-> 116, b |-> 98, B |-> 66, U |-> 85, s |-> 115, u |-> 117,
          I |-> 73, i |-> 105, l |-> 108, L |-> 76, f |-> 102, d |-> 100,
          D |-> 68, S |-> 83, A |-> 65, T |-> 84, F |-> 70, V |-> 86,
          x |-> 120]

Known(c) == \E a \in DOMAIN Ascii : Ascii[a] = c
Letter(c) == CHOOSE a \in DOMAIN Ascii : Ascii[a] = c

Width == [t |-> 1, b |-> 1, B |-> 1, U |-> 2, s |-> 2, u |-> 2, I |-> 4,
          i |-> 4, l |-> 8, L |-> 8, T |-> 8]

IsSigned == {"b", "U", "s", "I", "l", "L"}

Octets == [f |-> 4, d |-> 8, D |-> 5]

\* FieldValue: 't' holds 0 or 1, 'V' nothing, 'A' a sequence of values and
\* 'F' a sequence of <<name, value>>.
FieldValue(type, value) == [type |-> type, value |-> value]

ShortStringLimit == Base - 1

-----------------------------------------------------------------------------
(* The wire format, as the protocol defines it: the reference *)

RECURSIVE WireValue(_)

WireShort(s) == Digits(Len(s), 1) \o s
WireLong(s)  == Digits(Len(s), 4) \o s

WireTable(t) ==
    WireLong(FlattenSeq([i \in DOMAIN t |->
                            WireShort(t[i][1]) \o WireValue(t[i][2])]))

WireValue(v) ==
    <<Ascii[v.type]>> \o
    (CASE v.type \in DOMAIN Width  -> Digits(v.value, Width[v.type])
       [] v.type \in DOMAIN Octets -> v.value
       [] v.type \in {"S", "x"}    -> WireLong(v.value)
       [] v.type = "A" -> WireLong(FlattenSeq([i \in DOMAIN v.value |->
                                                  WireValue(v.value[i])]))
       [] v.type = "F" -> WireTable(v.value)
       [] v.type = "V" -> <<>>)

\* A method of class 10 (Connection).
WireMethod(m) ==
    Digits(10, 2) \o Digits(m.id, 2) \o
    (CASE m.id = 10 -> Digits(m.args[1], 1) \o Digits(m.args[2], 1)
                       \o WireTable(m.args[3])
                       \o WireLong(m.args[4]) \o WireLong(m.args[5])
       [] m.id = 11 -> WireTable(m.args[1]) \o WireShort(m.args[2])
                       \o WireLong(m.args[3]) \o WireShort(m.args[4])
       [] m.id \in {30, 31} -> Digits(m.args[1], 2) \o Digits(m.args[2], 4)
                               \o Digits(m.args[3], 2)
       [] m.id = 40 -> WireShort(m.args[1]) \o WireShort(<<>>) \o <<0>>
       [] m.id = 41 -> WireShort(<<>>)
       [] m.id = 50 -> Digits(m.args[1], 2) \o WireShort(m.args[2])
                       \o Digits(m.args[3], 2) \o Digits(m.args[4], 2))

WireFrame(m) == LET p == WireMethod(m)
                IN  <<1>> \o Digits(0, 2) \o WireLong(p) \o <<206>>

\* The protocol header stands for a method of its own, number 0.
ProtocolHeader == <<65, 77, 81, 80, 0, 0, 9, 1>>

WireSent(m) == IF m.id = 0 THEN ProtocolHeader ELSE WireFrame(m)

-----------------------------------------------------------------------------
(* Decoding.  A decoder returns what it read and what is left, or that it   *)
(* failed: it returned false, or the assertion in Buffer::skip did.         *)

Fail           == [ok |-> FALSE, fault |-> "throw"]
Overrun        == [ok |-> FALSE, fault |-> "assert"]
Read(v, rest)  == [ok |-> TRUE, val |-> v, rest |-> rest]
\* Go on from what was read, if it was.
IfOk(r, Then(_, _)) == IF r.ok THEN Then(r.val, r.rest) ELSE r

After(buf, k)  == SubSeq(buf, k + 1, Len(buf))
Copy(buf, k)   == SubSeq(buf, 1, k)

DecodeByteVector(buf, k) ==
    IF k > Len(buf) THEN Fail ELSE Read(Copy(buf, k), After(buf, k))

\* decodeString<T>, and the 'x' value, that is written the same way.
DecodeString(buf, k) ==
    IF Len(buf) < k THEN Fail
    ELSE DecodeByteVector(After(buf, k), Unsigned(Copy(buf, k)))

RECURSIVE DecodeFieldArray(_), DecodeFieldTable(_)

\* 'U' is read as 's'.  The type and the numbers are copied with no check that
\* their octets are there; a type that is not known is refused.
DecodeFieldValue(buf) ==
    LET c == Letter(buf[1])
        b == Tail(buf)
        Typed(r) == IfOk(r, LAMBDA v, rest :
                                Read(FieldValue(IF c = "U" THEN "s" ELSE c, v), rest))
        Number(s) == CASE c = "t"           -> IF s[1] # 0 THEN 1 ELSE 0
                       [] c \in IsSigned    -> Signed(s)
                       [] OTHER             -> Unsigned(s)
    IN  IF buf = <<>> THEN Overrun
        ELSE IF ~Known(buf[1]) THEN Fail
        ELSE
        CASE c \in DOMAIN Width    -> IF Len(b) < Width[c] THEN Overrun
                                      ELSE Typed(Read(Number(Copy(b, Width[c])),
                                                      After(b, Width[c])))
          [] c \in DOMAIN Octets   -> Typed(DecodeByteVector(b, Octets[c]))
          [] c \in {"S", "x"}      -> Typed(DecodeString(b, 4))
          [] c = "A"               -> Typed(DecodeFieldArray(b))
          [] c = "F"               -> Typed(DecodeFieldTable(b))
          [] c = "V"               -> Typed(Read(0, b))

\* The loops of decodeFieldArray and decodeFieldTable over the octets of one,
\* with the values read so far: vector->push_back, table->pushField.
RECURSIVE PushBack(_, _), PushField(_, _)

PushBack(buf, vector) ==
    IF buf = <<>> THEN Read(vector, buf)
    ELSE IfOk(DecodeFieldValue(buf), LAMBDA v, rest :
             PushBack(rest, Append(vector, v)))

PushField(buf, table) ==
    IF buf = <<>> THEN Read(table, buf)
    ELSE IfOk(DecodeString(buf, 1), LAMBDA name, left :
             IfOk(DecodeFieldValue(left), LAMBDA v, rest :
                 PushField(rest, Append(table, <<name, v>>))))

\* An array or a table ends where its length says.
DecodeFieldArray(buf) ==
    IfOk(DecodeString(buf, 4), LAMBDA s, rest :
        IfOk(PushBack(s, <<>>), LAMBDA v, none : Read(v, rest)))

DecodeFieldTable(buf) ==
    IfOk(DecodeString(buf, 4), LAMBDA s, rest :
        IfOk(PushField(s, <<>>), LAMBDA v, none : Read(v, rest)))

Bytes == [u8 |-> 1, u16 |-> 2, u32 |-> 4]

DecodePart(kind, buf) ==
    CASE kind = "table" -> DecodeFieldTable(buf)
      [] kind = "short" -> DecodeString(buf, 1)
      [] kind = "long"  -> DecodeString(buf, 4)
      [] kind \in DOMAIN Bytes ->
            IF Len(buf) < Bytes[kind] THEN Fail
            ELSE Read(Unsigned(Copy(buf, Bytes[kind])), After(buf, Bytes[kind]))

\* The parts of a method in the order decode reads and encode writes them.
StartParts   == <<"u8", "u8", "table", "long", "long">>
StartOkParts == <<"table", "short", "long", "short">>
TuneParts    == <<"u16", "u32", "u16">>
TuneOkParts  == <<"u16", "u32", "u16">>
\* Open::decode leaves the two reserved parts unread.
OpenParts    == <<"short">>
OpenOkParts  == <<"short">>
CloseParts   == <<"u16", "short", "u16", "u16">>

Parts(id) == CASE id = 10 -> StartParts
               [] id = 11 -> StartOkParts
               [] id = 30 -> TuneParts
               [] id = 31 -> TuneOkParts
               [] id = 40 -> OpenParts
               [] id = 41 -> OpenOkParts
               [] id = 50 -> CloseParts

\* T::decode of the method with this id.
DecodeArgs(id, buf) ==
    FoldLeft(LAMBDA acc, kind :
                IfOk(acc, LAMBDA args, left :
                    IfOk(DecodePart(kind, left), LAMBDA v, rest :
                        Read(Append(args, v), rest))),
             Read(<<>>, buf), Parts(id))

\* Method::decode, then T::decode of the payload.
DecodeMethod(buf) ==
    IF Len(buf) < 4 THEN Fail
    ELSE LET id == Unsigned(SubSeq(buf, 3, 4))
         IN  IfOk(DecodeArgs(id, After(buf, 4)), LAMBDA args, rest :
                 Read([id |-> id, args |-> args], <<>>))

FrameOverhead == 8

\* Frame::decode: "more", "throw" or the payload and the octets of the frame.
\* (a mutant: the end octet is not counted, so the frame seems complete early)
FrameDecodeEarly(buf) ==
    IF Len(buf) < FrameOverhead THEN [is |-> "more"]
    ELSE LET length == Unsigned(SubSeq(buf, 4, 7))
         IN  IF FrameOverhead + length > Len(buf) + 1 THEN [is |-> "more"]
             ELSE [is |-> "frame", payload |-> SubSeq(buf, 8, 7 + length),
                   size |-> FrameOverhead + length]

FrameDecode(buf) ==
    IF Len(buf) < FrameOverhead THEN [is |-> "more"]
    ELSE LET length == Unsigned(SubSeq(buf, 4, 7))
         IN  IF FrameOverhead + length > Len(buf)
             THEN [is |-> IF FrameOverhead + length > MaxFrameSize
                          THEN "throw" ELSE "more"]
             ELSE IF buf[FrameOverhead + length] # 206 THEN [is |-> "throw"]
             ELSE [is |-> "frame", payload |-> SubSeq(buf, 8, 7 + length),
                   size |-> FrameOverhead + length]

-----------------------------------------------------------------------------
(* Encoding into a buffer with n octets available *)

Refused   == [is |-> "refused", oct |-> <<>>]
Asserted  == [is |-> "assert", oct |-> <<>>]
Wrote(s)  == [is |-> "ok", oct |-> s]

\* What e encoded, behind the octets s.
Behind(s, e) == IF e.is = "ok" THEN Wrote(s \o e.oct) ELSE e

\* Encoders in a row, each into what the ones before left: a && b && c.
InTurn(n, Encode(_, _), parts) ==
    FoldLeft(LAMBDA acc, p : IF acc.is # "ok" THEN acc
                             ELSE Behind(acc.oct, Encode(n - Len(acc.oct), p)),
             Wrote(<<>>), parts)

\* Buffer::writeIn<T>.
WriteIn(n, value, k) == IF n < k THEN Refused ELSE Wrote(Digits(value, k))

EncodeByteVector(n, s) == IF n < Len(s) THEN Refused ELSE Wrote(s)

EncodeLongString(n, s) ==
    IF n < Len(s) + 4 THEN Refused ELSE Wrote(Digits(Len(s), 4) \o s)

EncodeShortString(n, s) ==
    IF n < Len(s) + 1 \/ Len(s) > ShortStringLimit THEN Refused
    ELSE Wrote(Digits(Len(s), 1) \o s)

\* encodeFieldArray, encodeFieldTable: skip(4), which asserts that the octets
\* are there, then the elements, then their length into the skipped octets.
WithLength(e) == Behind(Digits(Len(e.oct), 4), e)

RECURSIVE EncodeFieldValue(_, _)

EncodeFieldArray(n, vector) ==
    IF n < 4 THEN Asserted ELSE WithLength(InTurn(n - 4, EncodeFieldValue, vector))

EncodeField(n, field) ==
    LET name == EncodeShortString(n, field[1])
    IN  IF name.is # "ok" THEN name
        ELSE Behind(name.oct, EncodeFieldValue(n - Len(name.oct), field[2]))

EncodeFieldTable(n, table) ==
    IF n < 4 THEN Asserted ELSE WithLength(InTurn(n - 4, EncodeField, table))

\* There is no case for 'U'.
EncodeFieldValue(n, v) ==
    IF n < 1 \/ v.type = "U" THEN Refused
    ELSE Behind(<<Ascii[v.type]>>,
                CASE v.type \in DOMAIN Width -> WriteIn(n - 1, v.value, Width[v.type])
                  [] v.type \in DOMAIN Octets -> EncodeByteVector(n - 1, v.value)
                  [] v.type \in {"S", "x"} -> EncodeLongString(n - 1, v.value)
                  [] v.type = "A" -> EncodeFieldArray(n - 1, v.value)
                  [] v.type = "F" -> EncodeFieldTable(n - 1, v.value)
                  [] v.type = "V" -> Wrote(<<>>))

EncodePart(n, p) ==
    CASE p[1] = "table" -> EncodeFieldTable(n, p[2])
      [] p[1] = "short" -> EncodeShortString(n, p[2])
      [] p[1] = "long"  -> EncodeLongString(n, p[2])
      [] p[1] \in DOMAIN Bytes -> WriteIn(n, p[2], Bytes[p[1]])

\* Open::encode writes its two reserved parts, empty and zero, and
\* OpenOk::encode an empty string.
ToWrite(m) ==
    CASE m.id = 40 -> << <<"short", m.args[1]>>, <<"short", <<>> >>, <<"u8", 0>> >>
      [] m.id = 41 -> << <<"short", <<>> >> >>
      [] OTHER -> [i \in DOMAIN m.args |-> <<Parts(m.id)[i], m.args[i]>>]

\* Method::encode.
MethodEncode(n, m) == InTurn(n, EncodePart, << <<"u16", 10>>, <<"u16", m.id>> >> \o ToWrite(m))

FrameEncode(p) ==
    IF p.is # "ok" THEN p
    ELSE IF Len(p.oct) + FrameOverhead > MaxFrameSize THEN Refused
    ELSE Wrote(<<1>> \o Digits(0, 2) \o Digits(Len(p.oct), 4) \o p.oct \o <<206>>)

-----------------------------------------------------------------------------
(* The connector *)

\* A reply buffer, and whether an assertion has failed.
Buffer(oct, failed) == [oct |-> oct, failed |-> failed]

\* Mutant of Expand: the reply buffer is written from its start.
ExpandFromStart(buf, f) ==
    Buffer(IF f.is = "ok" THEN f.oct ELSE buf.oct, buf.failed \/ f.is = "assert")

\* The reply buffer is expanded by a frame; what could not be encoded is logged
\* and left out.
Expand(buf, f) == Buffer(buf.oct \o f.oct, buf.failed \/ f.is = "assert")

\* sendResponse after octets already in the reply buffer: a temporary buffer of
\* the largest frame, then the frame behind what is there.
SendResponse(buf, m) == Expand(buf, FrameEncode(MethodEncode(MaxFrameSize, m)))

Reply(ms, buf) ==
    /\ out' = buf.oct
    /\ told' = ms
    /\ fault' = IF buf.failed THEN "assert" ELSE fault

\* The connector answers with the methods ms.
Answer(ms) == Reply(ms, FoldLeft(SendResponse, Buffer(<<>>, FALSE), ms))

\* ConnectorUtil: the tables and numbers are fixed, here one of each kind.
GenerateServerProperties ==
    << <<<<1>>, FieldValue("F", << <<<<2>>, FieldValue("t", 1)>> >>)>>,
       <<<<3>>, FieldValue("S", <<4>>)>> >>

SynthesizedStart ==
    [id |-> 10, args |-> <<0, Base - 1, GenerateServerProperties, <<5>>, <<6>> >>]

SynthesizedTune == [id |-> 30, args |-> <<Base ^ 2 - 1, Base ^ 3, Base>>]

OpenOk == [id |-> 41, args |-> << <<>> >>]

\* methods::Close::setReply.
CloseWith(code, text, class, method) ==
    [id |-> 50, args |-> <<code, text, class, method>>]

\* synthesizeMessage: what was in the reply buffer is forgotten.
SynthesizeMessage(code, text, class, method) ==
    Answer(<<CloseWith(code, text, class, method)>>)

\* FieldTable::findFieldValue: the values under a name, the first one counts.
FindFieldValue(table, name) ==
    LET hits == SelectSeq(table, LAMBDA f : f[1] = name)
    IN  IF hits = <<>> THEN FieldValue("V", 0) ELSE hits[1][2]

Capabilities == <<0>>
AuthenticationFailureClose == <<2>>

\* disconnectUnauthClient: a Close, the reason cut to a short string, for the
\* clients that announce that they can take it.
UnauthClose(startOk, reason) ==
    LET cap == FindFieldValue(startOk.args[1], Capabilities)
        can == IF cap.type = "F"
               THEN FindFieldValue(cap.value, AuthenticationFailureClose)
               ELSE FieldValue("V", 0)
        n == IF Len(reason) < ShortStringLimit THEN Len(reason)
             ELSE ShortStringLimit
    IN  IF can = FieldValue("t", 1)
        THEN <<CloseWith(Base, SubSeq(reason, 1, n), 10, 11)>>
        ELSE <<>>

Field(name, text) == <<name, FieldValue("S", text)>>

\* amqpprox_client and amqpprox_host at the end of the client's properties.
\* (a mutant: in front of them)
InjectInFront(m) ==
    [m EXCEPT !.args[1] = <<Field(<<1, 1>>, <<1, 2, 3>>), Field(<<1, 2>>, <<4, 5, 6>>)>> \o @]

InjectProxyClientIdent(m) ==
    [m EXCEPT !.args[1] = @ \o <<Field(<<1, 1>>, <<1, 2, 3>>), Field(<<1, 2>>, <<4, 5, 6>>)>>]

\* The ALLOW branch of the authentication response: with authdata, the
\* mechanism and the credentials, and the reason as a property.
Authorised(m, a) ==
    IF ~a.authdata THEN m
    ELSE [m EXCEPT !.args[2] = a.mechanism,
                   !.args[3] = a.credentials,
                   !.args[1] = IF a.reason = <<>> THEN @
                               ELSE Append(@, Field(<<1, 3>>, a.reason))]

\* PacketProcessor::process on the octets that have arrived since the last
\* complete frame: decode frames as long as there are any.
RECURSIVE Process(_, _, _)
Process(buf, n, methods) ==
    LET f == FrameDecode(buf)
    IN  CASE f.is = "more" -> [used |-> n, got |-> methods, fault |-> "none"]
          [] f.is = "throw" -> [used |-> n, got |-> methods, fault |-> "throw"]
          [] f.is = "frame" ->
                LET m == DecodeMethod(f.payload)
                IN  IF ~m.ok
                    THEN [used |-> n + f.size, got |-> methods, fault |-> m.fault]
                    ELSE Process(After(buf, f.size), n + f.size,
                                 Append(methods, m.val))

-----------------------------------------------------------------------------
(* The handshake *)

\* What the client sends while the connector is in a state: after Start its
\* StartOk, after Tune its TuneOk and Open.
Sent(p) == CASE p = "START_SENT" -> <<client.startOk>>
             [] p = "TUNE_SENT"  -> <<client.tuneOk, client.open>>
             [] OTHER            -> <<>>

Input(p) == FlattenSeq([i \in DOMAIN Sent(p) |-> WireFrame(Sent(p)[i])])

StartOk(v, pad) ==
    [id |-> 11,
     args |-> << << <<<<7>>, FieldValue("x", [i \in 1..pad |-> i % Base])>>,
                    <<<<0>>, v>> >>, <<5>>, <<0, 1>>, <<6>> >>]

\* Clients keep to the frame size the proxy announces, which is below
\* Frame::maxFrameSize.
Init ==
    /\ \E v \in Values, pad \in Pads, host \in Vhosts :
          client = [startOk |-> StartOk(v, pad),
                    tuneOk |-> [id |-> 31, args |-> <<Base, Base ^ 2 - 1, 0>>],
                    open |-> [id |-> 40, args |-> <<host>>]]
    /\ Len(WireFrame(client.startOk)) <= MaxFrameSize
    /\ pc = "AWAITING_PROTOCOL_HEADER"
    /\ avail = 0 /\ used = 0
    /\ got = <<>>
    /\ out = <<>> /\ told = <<>>
    /\ fault = "none"

\* receive(header): send Start.
ReceiveHeader ==
    /\ pc = "AWAITING_PROTOCOL_HEADER"
    /\ pc' = "START_SENT"
    /\ Answer(<<SynthesizedStart>>)
    /\ UNCHANGED <<client, avail, used, got>>

\* One octet more arrives, or all the others at once, so that the input may be
\* cut anywhere; a state ends with its last method.
Receive ==
    /\ avail < Len(Input(pc))
    /\ \E n \in {avail + 1, Len(Input(pc))} :
          LET r == Process(SubSeq(Input(pc), used + 1, n), used, got)
              before == IF pc = "START_SENT" THEN 0 ELSE 1
              done == r.fault = "none" /\ Len(r.got) = before + Len(Sent(pc))
          IN  /\ got' = r.got
              /\ avail' = IF done THEN 0 ELSE n
              /\ used' = IF done THEN 0 ELSE r.used
              /\ pc' = IF ~done THEN pc
                       ELSE IF pc = "START_SENT" THEN "TUNE_SENT" ELSE "AUTH"
              /\ IF done /\ pc = "START_SENT" THEN Answer(<<SynthesizedTune>>)
                 ELSE /\ fault' = r.fault
                      /\ UNCHANGED <<out, told>>
    /\ UNCHANGED client

\* The authentication service answers.  Allow goes on to a backend, to which the
\* protocol header is sent first.
Authenticate ==
    /\ pc = "AUTH"
    /\ \E a \in Answers :
          IF a.allow
          THEN /\ pc' = "AWAITING_CONNECTION"
               /\ got' = [got EXCEPT ![1] = Authorised(@, a)]
               /\ out' = ProtocolHeader
               /\ told' = <<[id |-> 0]>>
               /\ UNCHANGED fault
          ELSE /\ pc' = "CLOSED"
               /\ Answer(UnauthClose(got[1], a.reason))
               /\ UNCHANGED got
    /\ UNCHANGED <<client, avail, used>>

\* No connection for the vhost, or none within the limit: a Close whose text
\* has the vhost in it, and is not cut.
NoConnection ==
    /\ pc = "AUTH"
    /\ pc' = "CLOSED"
    /\ SynthesizeMessage(Base, <<1>> \o got[3].args[1] \o <<2>>, 0, 0)
    /\ UNCHANGED <<client, avail, used, got>>

\* receive(Start) from the broker: the client's StartOk with the proxy's fields.
RelayStartOk ==
    /\ pc = "AWAITING_CONNECTION"
    /\ pc' = "STARTOK_SENT"
    /\ got' = [got EXCEPT ![1] = InjectProxyClientIdent(@)]
    /\ Answer(<<got'[1]>>)
    /\ UNCHANGED <<client, avail, used>>

\* receive(Tune): TuneOk and Open in one write.
RelayTuneOkOpen ==
    /\ pc = "STARTOK_SENT"
    /\ pc' = "OPEN_SENT"
    /\ Answer(<<got[2], got[3]>>)
    /\ UNCHANGED <<client, avail, used, got>>

ReceiveOpenOk ==
    /\ pc = "OPEN_SENT"
    /\ pc' = "OPEN"
    /\ Answer(<<OpenOk>>)
    /\ UNCHANGED <<client, avail, used, got>>

\* A failed assertion ends the program and an exception the session.
Next ==
    /\ fault = "none"
    /\ \/ ReceiveHeader
       \/ Receive
       \/ Authenticate
       \/ NoConnection
       \/ RelayStartOk
       \/ RelayTuneOkOpen
       \/ ReceiveOpenOk

Spec == Init /\ [][Next]_vars

-----------------------------------------------------------------------------
(* Properties *)

RECURSIVE Plain(_)

\* A value as the proxy passes it on: 'U' becomes 's', everywhere.
Plain(v) ==
    CASE v.type = "U" -> FieldValue("s", v.value)
      [] v.type = "A" -> FieldValue("A", [i \in DOMAIN v.value |-> Plain(v.value[i])])
      [] v.type = "F" -> FieldValue("F", [i \in DOMAIN v.value |->
                                            <<v.value[i][1], Plain(v.value[i][2])>>])
      [] OTHER -> v

PlainMethod(m) ==
    IF m.id # 11 THEN m
    ELSE [m EXCEPT !.args[1] = [i \in DOMAIN @ |-> <<@[i][1], Plain(@[i][2])>>]]

\* Decoding in pieces: however the client's octets are cut, the connector has
\* decoded exactly the frames that have arrived whole, no octet of the next one
\* is consumed, no frame waits that is complete, and what was decoded is what
\* the client meant (PacketProcessor::process, Frame::decode, Types::decode*).
DecodedInPieces ==
    LET earlier == IF pc = "TUNE_SENT" THEN 1 ELSE 0
        whole == {k \in 0..Len(Sent(pc)) :
                    Len(FlattenSeq([i \in 1..k |-> WireFrame(Sent(pc)[i])])) <= avail}
        k == CHOOSE j \in whole : \A i \in whole : i <= j
    IN  pc \in {"START_SENT", "TUNE_SENT"} =>
            /\ fault # "throw"
            /\ Len(got) = earlier + k
            /\ used = Len(FlattenSeq([i \in 1..k |-> WireFrame(Sent(pc)[i])]))
            /\ \A i \in 1..Len(got) :
                  WireMethod(got[i]) =
                  WireMethod(PlainMethod(<<client.startOk, client.tuneOk,
                                           client.open>>[i]))

\* What the connector puts on the wire is the protocol's encoding of what it
\* meant to send, one frame after the other, or, where a frame would be too
\* large or a short string too long, nothing of it: never a part of a method
\* and never one over another (Connector::sendResponse, Types::encode*).
EncodedWhole ==
    LET Shorts(m) == CASE m.id = 11 -> {m.args[2], m.args[4]}
                       [] m.id \in {40, 41} -> {m.args[1]}
                       [] m.id = 50 -> {m.args[2]}
                       [] OTHER -> {}
        Fits(m) == /\ Len(WireSent(m)) <= MaxFrameSize
                   /\ \A s \in Shorts(m) : Len(s) <= ShortStringLimit
    IN  out = FlattenSeq([i \in DOMAIN told |->
                            IF Fits(told[i]) THEN WireSent(told[i]) ELSE <<>>])

\* Room for lengths: the encoder skips the four octets of a table's or array's
\* length without a check but an assertion, and the decoder the type and the
\* number of a field.  It never fails for the values of the protocol: a table
\* ends with a field, and what the proxy adds to a StartOk comes behind everything
\* the client's frame already had room for (Buffer::skip, Types::decodeFieldValue,
\* Types::encodeFieldTable, ConnectorUtil::injectProxyClientIdent).
RoomForLengths == fault # "assert"
=============================================================================
