------------------------------ MODULE Framing --------------------------------
(***************************************************************************)
(* The wire format (aether-core/src/framing.rs): a frame is built, gets    *)
(* extensions, is encoded, may be damaged on its way, and is decoded.      *)
(*                                                                         *)
(* A datagram is the sequence of its octets.  Fields that share octets     *)
(* (version, type, H, E, stream id) and offset and length are numbers;     *)
(* connection ids and payloads are opaque octets.                          *)
(***************************************************************************)
EXTENDS Naturals, Sequences, SequencesExt

CONSTANTS
    None, Error,    \* no long header, nothing decoded; decode() failed
    StreamIds,      \* the stream ids a program uses
    Offsets,        \* the stream offsets it sends at
    Payloads,       \* what it sends
    ConnectionId,   \* four octets
    SourceId,       \* eight octets
    Nonce,          \* eight octets
    Additions,      \* the extensions it adds
    MaxExtensions,  \* bound on their number
    Damages         \* what the network writes over an octet

Octets == 0 .. 255
SHORT_HEADER_SIZE == 16
LONG_HEADER_SIZE  == 24
MAX_STREAM_ID     == 262143
AETHER_VERSION    == 0

FrameType ==
    [Initial |-> 0, Handshake |-> 1, Data |-> 2, Ack |-> 3, Close |-> 4, Ping |-> 5,
     PathChallenge |-> 6, PathResponse |-> 7, StreamOpen |-> 8, StreamClose |-> 9]
LongTypes == {FrameType.Initial, FrameType.Handshake}

ExtType ==
    [Terminator |-> 0, Timestamp |-> 1, Priority |-> 2, Padding |-> 3, PathId |-> 4,
     FlowControl |-> 5]

(* What the fields of the Rust types can hold: a u32, four or eight octets,  *)
(* three octets for the length of an extension.                              *)
OctetsOf(n) == {s \in Seq(Octets) : Len(s) = n}
Words32     == {n \in Nat : n \div 65536 < 65536}
Words24     == {n \in Nat : n \div 65536 < 256}
Values      == {v \in Seq(Octets) : Len(v) \in Words24}

Extensions  == [ext_type : 1 .. 5, value : Values]
Terminators == [ext_type : {ExtType.Terminator}, value : Values]
Chains      == [extensions : Seq(Extensions), at : Nat]

Headers ==
    [version : 0 .. 15, frame_type : 0 .. 9, has_extensions : BOOLEAN,
     stream_id : 0 .. MAX_STREAM_ID, offset : Words32, length : Words32,
     connection_id : OctetsOf(4)]
LongHeaders == [short : Headers, source : OctetsOf(8)]

Frames ==
    [long_header : LongHeaders \cup {None}, header : Headers,
     extensions : Seq(Extensions), payload : Seq(Octets)]

ASSUME RangeAssumption ==
    /\ StreamIds \subseteq 0 .. MAX_STREAM_ID
    /\ Offsets \subseteq Words32
    /\ \A p \in Payloads : p \in Seq(Octets) /\ Len(p) + 1 \in Words32
    /\ ConnectionId \in OctetsOf(4)
    /\ SourceId \in OctetsOf(8) /\ Nonce \in OctetsOf(8)
    /\ Damages \subseteq Octets
    /\ Additions \subseteq Extensions

\* Result and Option: an error, or no long header, is none of the values.
ASSUME ResultAssumption ==
    /\ Error \notin Extensions \cup Terminators \cup Chains \cup Seq(Octets) \cup Frames
    /\ None \notin LongHeaders

VARIABLES
    stage,     \* "building", "sent" or "received"
    frame,     \* the sender's frame
    datagram,  \* what the network carries
    damage,    \* what the network did to it, and where
    decoded    \* what the receiver made of it

vars == <<stage, frame, datagram, damage, decoded>>

-----------------------------------------------------------------------------
(* Numbers as octets, the most significant first. *)

Octets16(n) == <<(n \div 256) % 256, n % 256>>
Octets24(n) == <<(n \div 65536) % 256>> \o Octets16(n)
Octets32(n) == Octets16(n \div 65536) \o Octets16(n)

Word16(b, i) == b[i] * 256 + b[i + 1]
Word24(b, i) == b[i] * 65536 + Word16(b, i + 1)
Word32(b, i) == Word16(b, i) * 65536 + Word16(b, i + 2)

From(b, i) == SubSeq(b, i, Len(b))

-----------------------------------------------------------------------------
(* Headers. *)

Header(type, stream_id, offset, payload) ==
    [version |-> AETHER_VERSION, frame_type |-> type, has_extensions |-> FALSE,
     stream_id |-> stream_id, offset |-> offset, length |-> Len(payload),
     connection_id |-> ConnectionId]

\* Faulty variant of FlagOctet: the two high bits of the stream id are lost.
FlagOctetShort(h, long) ==
    (h.frame_type % 4) * 64 + (IF long THEN 32 ELSE 0)
        + (IF h.has_extensions THEN 16 ELSE 0)

\* Two bits of the type, H, E, two reserved bits, two bits of the stream id.
FlagOctet(h, long) ==
    (h.frame_type % 4) * 64 + (IF long THEN 32 ELSE 0)
        + (IF h.has_extensions THEN 16 ELSE 0) + ((h.stream_id \div 65536) % 4)

EncodeHeader(h, long) ==
    <<(h.version % 16) * 16 + h.frame_type \div 4, FlagOctet(h, long)>>
        \o Octets16(h.stream_id) \o Octets32(h.offset) \o Octets32(h.length)
        \o h.connection_id

LongBit(b) == (b[2] \div 32) % 2 = 1

DecodedType(b) == (b[1] % 16) * 4 + b[2] \div 64

DecodeHeader(b) ==
    [version |-> b[1] \div 16, frame_type |-> DecodedType(b),
     has_extensions |-> (b[2] \div 16) % 2 = 1,
     stream_id |-> (b[2] % 4) * 65536 + Word16(b, 3),
     offset |-> Word32(b, 5), length |-> Word32(b, 9),
     connection_id |-> SubSeq(b, 13, 16)]

-----------------------------------------------------------------------------
(* Extensions: type, 24 bits of length, value. *)

Extension(type, value) == [ext_type |-> type, value |-> value]

EncodeExtension(e) == <<e.ext_type>> \o Octets24(Len(e.value)) \o e.value

\* Faulty variant of EncodeChain: an empty chain is left out altogether.
EncodeChainUnlessEmpty(es) ==
    IF es = <<>> THEN <<>>
    ELSE FlattenSeq([i \in DOMAIN es |-> EncodeExtension(es[i])])
            \o EncodeExtension(Extension(ExtType.Terminator, <<>>))

\* The chain ends with an empty extension of type Terminator.
EncodeChain(es) ==
    FlattenSeq([i \in DOMAIN es |-> EncodeExtension(es[i])])
        \o EncodeExtension(Extension(ExtType.Terminator, <<>>))

\* from_u8().unwrap_or(Terminator): a type it does not know ends the chain.
DecodedExtType(octet) == IF octet \in 1 .. 5 THEN octet ELSE ExtType.Terminator

DecodeExtension(b) ==
    IF Len(b) < 4 \/ Len(b) < 4 + Word24(b, 2) THEN Error
    ELSE Extension(DecodedExtType(b[1]), SubSeq(b, 5, 4 + Word24(b, 2)))

ExtensionSize(e) == 4 + Len(e.value)

Chain(extensions, at) == [extensions |-> extensions, at |-> at]

\* The extensions from octet i on, and where the octets after them begin.
DecodeChain(b, start) ==
    LET rest[i \in start .. Len(b) + 1] ==
            IF i > Len(b) THEN Error
            ELSE LET e == DecodeExtension(From(b, i))
                 IN  IF e = Error THEN Error
                     ELSE IF e.ext_type = ExtType.Terminator
                     THEN Chain(<<>>, i + ExtensionSize(e))
                     ELSE LET more == rest[i + ExtensionSize(e)]
                          IN  IF more = Error THEN Error
                              ELSE Chain(<<e>> \o more.extensions, more.at)
    IN  rest[start]

-----------------------------------------------------------------------------
(* Frames. *)

Frame(long_header, header, extensions, payload) ==
    [long_header |-> long_header, header |-> header, extensions |-> extensions,
     payload |-> payload]

\* The long header keeps its own copy of the first 16 octets.
NewLong(type, payload) ==
    LET short == Header(type, 0, 0, payload)
    IN  Frame([short |-> short, source |-> SourceId], short, <<>>, payload)

NewShort(type, stream_id, offset, payload) ==
    Frame(None, Header(type, stream_id, offset, payload), <<>>, payload)

\* Only header is told, not the copy in the long header.
WithExtension(f, e) ==
    [f EXCEPT !.header.has_extensions = TRUE, !.extensions = Append(@, e)]

\* The constructors of the frames a program sends.
LongFrames   == {NewLong(type, p) : type \in LongTypes, p \in Payloads}
DataFrames   == {NewShort(FrameType.Data, id, offset, p) :
                    id \in StreamIds, offset \in Offsets, p \in Payloads}
AckFrames    == {NewShort(FrameType.Ack, id, 0, Octets32(offset)) :
                    id \in StreamIds, offset \in Offsets}
PingFrame    == NewShort(FrameType.Ping, 0, 0, Nonce)
CloseFrames  == {NewShort(FrameType.Close, 0, 0, <<code>> \o reason) :
                    code \in {0, 8}, reason \in Payloads}
PathFrames   == {WithExtension(NewShort(type, 0, 0, Nonce),
                               Extension(ExtType.PathId, <<1>>)) :
                    type \in {FrameType.PathChallenge, FrameType.PathResponse}}
StreamFrames == {NewShort(type, id, 0, <<>>) :
                    type \in {FrameType.StreamOpen, FrameType.StreamClose},
                    id \in StreamIds}
NewFrames == LongFrames \cup DataFrames \cup AckFrames \cup {PingFrame}
                \cup CloseFrames \cup PathFrames \cup StreamFrames

\* wire_size() adds up on its own: the header, the extensions and four octets for
\* their terminator, the payload.
ExtensionsSize(es) ==
    LET size[i \in 0 .. Len(es)] == IF i = 0 THEN 0 ELSE size[i - 1] + ExtensionSize(es[i])
    IN  size[Len(es)]

HeaderSize(f) == IF f.long_header = None THEN SHORT_HEADER_SIZE ELSE LONG_HEADER_SIZE
ChainSize(f)  == IF f.header.has_extensions THEN ExtensionsSize(f.extensions) + 4 ELSE 0

WireSize(f) == HeaderSize(f) + ChainSize(f) + Len(f.payload)

Encode(f) ==
    (IF f.long_header = None
     THEN EncodeHeader(f.header, FALSE)
     ELSE EncodeHeader(f.long_header.short, TRUE) \o f.long_header.source)
    \o (IF f.header.has_extensions THEN EncodeChain(f.extensions) ELSE <<>>)
    \o f.payload

\* Faulty variant of PayloadOf: what is there is taken for what was announced.
PayloadOfRest(b, header, at) ==
    IF at > Len(b) + 1 THEN Error
    ELSE SubSeq(b, at, IF at + header.length - 1 <= Len(b) THEN at + header.length - 1 ELSE Len(b))

\* Faulty variant of PayloadOf: a zero at the end is taken for padding.
PayloadOfTrimmed(b, header, at) ==
    IF at + header.length - 1 > Len(b) THEN Error
    ELSE IF header.length > 0 /\ b[at + header.length - 1] = 0
    THEN SubSeq(b, at, at + header.length - 2)
    ELSE SubSeq(b, at, at + header.length - 1)

PayloadOf(b, header, at) ==
    IF at + header.length - 1 <= Len(b)
    THEN SubSeq(b, at, at + header.length - 1)
    ELSE Error

\* What follows the header, which is the same for both kinds of header.
DecodeBody(b, long_header, header, start) ==
    LET chain == IF header.has_extensions THEN DecodeChain(b, start)
                 ELSE Chain(<<>>, start)
        payload == IF chain = Error THEN Error ELSE PayloadOf(b, header, chain.at)
    IN  IF payload = Error THEN Error
        ELSE Frame(long_header, header, chain.extensions, payload)

DecodeLong(b) ==
    IF Len(b) < LONG_HEADER_SIZE \/ DecodedType(b) \notin LongTypes THEN Error
    ELSE DecodeBody(b, [short |-> DecodeHeader(b), source |-> SubSeq(b, 17, 24)],
                    DecodeHeader(b), LONG_HEADER_SIZE + 1)

\* A short header may be of any type the code knows, Initial included.
DecodeShort(b) ==
    IF DecodedType(b) \notin 0 .. 9 THEN Error
    ELSE DecodeBody(b, None, DecodeHeader(b), SHORT_HEADER_SIZE + 1)

Decode(b) ==
    IF Len(b) < SHORT_HEADER_SIZE THEN Error
    ELSE IF LongBit(b) THEN DecodeLong(b)
    ELSE DecodeShort(b)

-----------------------------------------------------------------------------
(* A frame's way. *)

NoDamage == [kind |-> "none", at |-> 0]

Init ==
    /\ stage    = "building"
    /\ frame    \in NewFrames
    /\ datagram = <<>>
    /\ damage   = NoDamage
    /\ decoded  = None

AddExtension(e) ==
    /\ stage = "building"
    /\ Len(frame.extensions) < MaxExtensions
    /\ frame' = WithExtension(frame, e)
    /\ UNCHANGED <<stage, datagram, damage, decoded>>

Send ==
    /\ stage = "building"
    /\ stage' = "sent"
    /\ datagram' = Encode(frame)
    /\ UNCHANGED <<frame, damage, decoded>>

\* One damage: cut short, an octet overwritten, octets added.
Damaged(kind, at, octets) ==
    /\ damage' = [kind |-> kind, at |-> at]
    /\ datagram' = octets

Damage ==
    /\ stage = "sent"
    /\ damage = NoDamage
    /\ \/ \E n \in 0 .. Len(datagram) - 1 : Damaged("cut", n, SubSeq(datagram, 1, n))
       \/ \E i \in DOMAIN datagram, d \in Damages :
             Damaged("overwritten", i, [datagram EXCEPT ![i] = d])
       \/ \E d \in Damages :
             Damaged("extended", Len(datagram) + 1, Append(datagram, d))
    /\ UNCHANGED <<stage, frame, decoded>>

Receive ==
    /\ stage = "sent"
    /\ stage' = "received"
    /\ decoded' = Decode(datagram)
    /\ UNCHANGED <<frame, datagram, damage>>

Next == (\E e \in Additions : AddExtension(e)) \/ Send \/ Damage \/ Receive

Spec == Init /\ [][Next]_vars

-----------------------------------------------------------------------------
(* Safety. *)

\* add_extension on a long frame does not reach the header that is encoded:
\* such a frame is outside what the properties promise.
Expressible(f) == f.long_header # None => f.extensions = <<>>

Arrived(kinds) == stage = "received" /\ damage.kind \in kinds /\ Expressible(frame)

\* decode() undoes encode(), for every frame type and chain, and what follows
\* the frame in the datagram changes nothing.
RoundTrip == Arrived({"none", "extended"}) => decoded = frame

\* A datagram that was cut short, wherever, is refused: in the header, inside
\* an extension, between two of them, or in the payload.
CutIsRefused == Arrived({"cut"}) => decoded = Error

\* What a receiver accepts, damaged or not, is worth encoding again: the same
\* frame comes out, as long as wire_size() announces, and not longer than what
\* was received.
AcceptedIsStable ==
    stage = "received" /\ decoded # Error =>
        /\ Decode(Encode(decoded)) = decoded
        /\ Len(Encode(decoded)) = WireSize(decoded)
        /\ WireSize(decoded) <= Len(datagram)

\* Damage in the payload stays there: no header field, no extension and no
\* boundary depends on it.
PayloadDamageIsLocal ==
    Arrived({"overwritten"}) /\ damage.at > Len(datagram) - Len(frame.payload) =>
        /\ decoded # Error
        /\ [decoded EXCEPT !.payload = frame.payload] = frame
        /\ Len(decoded.payload) = Len(frame.payload)
=============================================================================
