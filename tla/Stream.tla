------------------------------- MODULE Stream --------------------------------
(***************************************************************************)
(* One end of a stream (Stream and FlowControl in aether-core/src/stream.rs)*)
(* as operators on records.  StreamLink.tla joins two ends over a network, *)
(* StreamManager.tla keeps the table of streams of a connection.           *)
(*                                                                         *)
(* Bytes are their positions in the stream.  A fragment is what one Data   *)
(* frame carries: `off' is the offset on the wire, a u32, and `from' the   *)
(* position of the first byte as the writer counts it, a u64.              *)
(***************************************************************************)
EXTENDS Naturals, Sequences

CONSTANT OffsetSpace   \* offsets on the wire: 2^32 in the code

ASSUME OffsetSpaceAssumption == OffsetSpace \in Nat \ {0}

Greater(m, n) == IF m > n THEN m ELSE n

-----------------------------------------------------------------------------
(* State.  No code constructs StreamState::Idle. *)

StreamStates == {"Open", "HalfClosedLocal", "HalfClosedRemote", "Closed"}

NewStream(window) ==
    [state |-> "Open", max_offset |-> window, received_offset |-> 0,
     sent_offset |-> 0, buffer |-> <<>>]

\* Faulty variant of CanWrite: the FIN this end has sent is forgotten.
CanWriteAfterFin(s) == s.state \in {"Open", "HalfClosedLocal"}

CanWrite(s) == s.state = "Open"
IsClosed(s) == s.state = "Closed"

\* Faulty variant of ReadClosed: the peer's FIN is taken for this end's own.
ReadClosedLocal ==
    [Open |-> "HalfClosedLocal", HalfClosedLocal |-> "HalfClosedLocal",
     HalfClosedRemote |-> "Closed", Closed |-> "Closed"]

WriteClosed ==
    [Open |-> "HalfClosedLocal", HalfClosedLocal |-> "HalfClosedLocal",
     HalfClosedRemote |-> "Closed", Closed |-> "Closed"]
ReadClosed ==
    [Open |-> "HalfClosedRemote", HalfClosedRemote |-> "HalfClosedRemote",
     HalfClosedLocal |-> "Closed", Closed |-> "Closed"]

CloseWrite(s) == [s EXCEPT !.state = WriteClosed[@]]
CloseRead(s)  == [s EXCEPT !.state = ReadClosed[@]]

-----------------------------------------------------------------------------
(* Flow control and writing. *)

\* Faulty variant of CanSend: the length of the data is not counted.
CanSendAny(s, n) == s.sent_offset < s.max_offset

CanSend(s, n) == s.sent_offset + n <= s.max_offset

ReserveSend(s, n) == [s EXCEPT !.sent_offset = @ + n]

UpdateWindow(s, max) == [s EXCEPT !.max_offset = Greater(@, max)]

\* The Data frame for the next n bytes: reserve_send truncates the offset.
Fragment(s, n) ==
    [off |-> s.sent_offset % OffsetSpace, from |-> s.sent_offset, len |-> n]

-----------------------------------------------------------------------------
(* The receive buffer. *)

\* Faulty variant of ReceiveData: the offset counts bytes received.
ReceiveDataCounting(s, f) ==
    [s EXCEPT !.buffer = Append(@, f), !.received_offset = @ + f.len]

\* The buffer keeps every fragment, repeated ones too.
ReceiveData(s, f) ==
    [s EXCEPT !.buffer = Append(@, f),
              !.received_offset = Greater(@, f.off + f.len)]

\* The (one) order sort_by_key puts a buffer in: by offset, and stable.
StableOrders(buffer) ==
    {p \in [DOMAIN buffer -> DOMAIN buffer] :
        \A i, j \in DOMAIN buffer :
            i < j => \/ buffer[p[i]].off < buffer[p[j]].off
                     \/ buffer[p[i]].off = buffer[p[j]].off /\ p[i] < p[j]}

Arranged(buffer, p) == [i \in DOMAIN buffer |-> buffer[p[i]]]

\* Faulty variant of Takes: a read starts at the first fragment there is.
TakesFromAnywhere(frags, max_len, k) ==
    /\ k \in DOMAIN frags
    /\ \A i \in 1 .. k - 1 : /\ frags[i + 1].off = frags[i].off + frags[i].len
                             /\ frags[i].off + frags[i].len < max_len

\* A read takes k fragments of the sorted buffer: they follow each other from
\* offset 0 of the STREAM, and the read goes on to the next fragment only
\* while it has fewer than max_len bytes and the next one follows.
Takes(frags, max_len, k) ==
    /\ k \in DOMAIN frags
    /\ frags[1].off = 0
    /\ \A i \in 1 .. k - 1 : /\ frags[i + 1].off = frags[i].off + frags[i].len
                             /\ frags[i].off + frags[i].len < max_len
    /\ k + 1 \in DOMAIN frags /\ frags[k].off + frags[k].len < max_len =>
          frags[k + 1].off # frags[k].off + frags[k].len

\* read() returns nothing although the buffer holds something.
WaitsForData(s) ==
    /\ s.buffer # <<>>
    /\ \A i \in DOMAIN s.buffer : s.buffer[i].off # 0
=============================================================================
