----------------------------- MODULE StreamLink ------------------------------
(***************************************************************************)
(* One stream of a connection, from StreamOpen to its removal, at both     *)
(* ends (aether-core/src/stream.rs): the operations of Stream and the      *)
(* entry of StreamManager's table that holds it.                           *)
(*                                                                         *)
(* Connection does not hand frames to its StreamManager: the program that  *)
(* uses the library does.  Each received frame is one call here:           *)
(* StreamOpen is accept_stream, Data receive_data, StreamClose             *)
(* close_stream, a FlowControl extension update_window; an operation that  *)
(* concerns the peer sends its frame.  Frames travel over UDP: any frame   *)
(* in flight may be delivered next, or never, and some of them twice.      *)
(***************************************************************************)
EXTENDS Stream, FiniteSets

CONSTANTS
    None,       \* no entry in the table
    Writers,    \* the ends that write
    Lens,       \* lengths of one write
    ReadSizes,  \* max_len arguments of read()
    Window,     \* initial_stream_window
    Windows,    \* the larger windows a reader may grant
    MaxBytes,   \* bound on the bytes each end writes
    DupKinds,   \* the kinds of frames that may be delivered twice
    MaxDups     \* bound on the number of repeated deliveries

Ends == {"opener", "acceptor"}
Peer(e) == IF e = "opener" THEN "acceptor" ELSE "opener"

ASSUME EndsAssumption  == Writers \subseteq Ends /\ None \notin Ends
ASSUME SizeAssumption  == /\ Lens \subseteq Nat \ {0}
                          /\ ReadSizes \subseteq Nat \ {0}
                          /\ Window \in Nat /\ Windows \subseteq Nat
ASSUME BoundAssumption == MaxBytes \in Nat /\ MaxDups \in Nat

VARIABLES
    opened,     \* open_stream has run: ids are drawn once, so only once
    table,      \* [Ends -> the stream in that end's table, or None]
    net,        \* frames in flight
    dups,       \* repeated deliveries so far
    granted,    \* [Ends -> the largest window that end has granted]
    finned,     \* the ends that have sent StreamClose
    written,    \* [Ends -> bytes written]
    delivered   \* [Ends -> fragments read() has returned, in order]

vars == <<opened, table, net, dups, granted, finned, written, delivered>>

Present(e) == table[e] # None

Init ==
    /\ opened    = FALSE
    /\ table     = [e \in Ends |-> None]
    /\ net       = {}
    /\ dups      = 0
    /\ granted   = [e \in Ends |-> Window]
    /\ finned    = {}
    /\ written   = [e \in Ends |-> 0]
    /\ delivered = [e \in Ends |-> <<>>]

-----------------------------------------------------------------------------
(* Frames. *)

OpenFrame        == [kind |-> "open", to |-> "acceptor"]
DataFrame(e, f)  == [kind |-> "data", to |-> e, frag |-> f]
FinFrame(e)      == [kind |-> "fin", to |-> e]
WindowFrame(e, m) == [kind |-> "window", to |-> e, max |-> m]

\* The end e has not closed its side yet: only then does closing it send FIN.
WriteSideOpen(e) == table[e].state \in {"Open", "HalfClosedRemote"}

SendFin(e) ==
    IF WriteSideOpen(e)
    THEN /\ net' = net \cup {FinFrame(Peer(e))}
         /\ finned' = finned \cup {e}
    ELSE UNCHANGED <<net, finned>>

-----------------------------------------------------------------------------
(* Calls of the program at one end. *)

\* open_stream, announced with a StreamOpen frame.
Open ==
    /\ ~opened
    /\ opened' = TRUE
    /\ table' = [table EXCEPT !["opener"] = NewStream(Window)]
    /\ net' = net \cup {OpenFrame}
    /\ UNCHANGED <<dups, granted, finned, written, delivered>>

\* Stream::write and the Data frame for it.  A refused write changes nothing.
Write(e) ==
    /\ Present(e)
    /\ CanWrite(table[e])
    /\ \E n \in Lens :
          /\ CanSend(table[e], n)
          /\ written[e] + n <= MaxBytes
          /\ table' = [table EXCEPT ![e] = ReserveSend(@, n)]
          /\ net' = net \cup {DataFrame(Peer(e), Fragment(table[e], n))}
          /\ written' = [written EXCEPT ![e] = @ + n]
    /\ UNCHANGED <<opened, dups, granted, finned, delivered>>

\* Stream::read with data to return.
ReadData(e) ==
    /\ Present(e)
    /\ \E p \in StableOrders(table[e].buffer), max_len \in ReadSizes,
          k \in DOMAIN table[e].buffer :
          LET frags == Arranged(table[e].buffer, p)
          IN  /\ Takes(frags, max_len, k)
              /\ table' = [table EXCEPT ![e].buffer = SubSeq(frags, k + 1, Len(frags))]
              /\ delivered' = [delivered EXCEPT ![e] = @ \o SubSeq(frags, 1, k)]
    /\ UNCHANGED <<opened, net, dups, granted, finned, written>>

\* Stream::read that returns nothing still sorts the buffer.
ReadNothing(e) ==
    /\ Present(e)
    /\ WaitsForData(table[e])
    /\ \E p \in StableOrders(table[e].buffer) :
          table' = [table EXCEPT ![e].buffer = Arranged(@, p)]
    /\ UNCHANGED <<opened, net, dups, granted, finned, written, delivered>>

\* close_write on the stream: even a stream closed by it stays in the table.
CloseWriteSide(e) ==
    /\ Present(e)
    /\ table' = [table EXCEPT ![e] = CloseWrite(@)]
    /\ SendFin(e)
    /\ UNCHANGED <<opened, dups, granted, written, delivered>>

\* shutdown_stream: both sides are closed, so the entry always goes.
Shutdown(e) ==
    /\ Present(e)
    /\ LET s == CloseRead(CloseWrite(table[e]))
       IN  table' = [table EXCEPT ![e] = IF IsClosed(s) THEN None ELSE s]
    /\ SendFin(e)
    /\ UNCHANGED <<opened, dups, granted, written, delivered>>

\* The reader lets its peer send more.
Grant(e) ==
    /\ Present(e)
    /\ \E m \in Windows :
          /\ m > granted[e]
          /\ granted' = [granted EXCEPT ![e] = m]
          /\ net' = net \cup {WindowFrame(Peer(e), m)}
    /\ UNCHANGED <<opened, table, dups, finned, written, delivered>>

-----------------------------------------------------------------------------
(* Delivery of a frame.  A frame for a stream that is not in the table is    *)
(* an error for the caller and changes nothing.                              *)

AcceptStream(m) ==
    /\ m.kind = "open"
    /\ table' = [table EXCEPT ![m.to] = IF @ = None THEN NewStream(Window) ELSE @]

ReceiveFragment(m) ==
    /\ m.kind = "data"
    /\ table' = [table EXCEPT ![m.to] = IF @ = None THEN @ ELSE ReceiveData(@, m.frag)]

\* close_stream
ReceiveFin(m) ==
    /\ m.kind = "fin"
    /\ table' = [table EXCEPT ![m.to] =
                    IF @ = None \/ IsClosed(CloseRead(@)) THEN None ELSE CloseRead(@)]

ReceiveWindow(m) ==
    /\ m.kind = "window"
    /\ table' = [table EXCEPT ![m.to] = IF @ = None THEN @ ELSE UpdateWindow(@, m.max)]

\* The network delivers m and forgets it, or keeps it to deliver it again.
Arrives(m) ==
    \/ net' = net \ {m} /\ UNCHANGED dups
    \/ /\ m.kind \in DupKinds
       /\ dups < MaxDups
       /\ dups' = dups + 1
       /\ UNCHANGED net

Deliver(m) ==
    /\ Arrives(m)
    /\ \/ AcceptStream(m)
       \/ ReceiveFragment(m)
       \/ ReceiveFin(m)
       \/ ReceiveWindow(m)
    /\ UNCHANGED <<opened, granted, finned, written, delivered>>

Next ==
    \/ Open
    \/ \E e \in Writers : Write(e)
    \/ \E e \in Ends : ReadData(e) \/ ReadNothing(e)
    \/ \E e \in Ends : CloseWriteSide(e) \/ Shutdown(e) \/ Grant(e)
    \/ \E m \in net : Deliver(m)

Spec == Init /\ [][Next]_vars

-----------------------------------------------------------------------------
(* Types. *)

Fragments == [off : Nat, from : Nat, len : Nat \ {0}]
Streams   == [state : StreamStates, max_offset : Nat, received_offset : Nat,
              sent_offset : Nat, buffer : Seq(Fragments)]
Frames    == [kind : {"open", "fin"}, to : Ends]
                \cup [kind : {"data"}, to : Ends, frag : Fragments]
                \cup [kind : {"window"}, to : Ends, max : Nat]

\* Every variable keeps its type.
TypeOK ==
    /\ opened    \in BOOLEAN
    /\ table     \in [Ends -> Streams \cup {None}]
    /\ net       \subseteq Frames
    /\ dups      \in Nat
    /\ granted   \in [Ends -> Nat]
    /\ finned    \subseteq Ends
    /\ written   \in [Ends -> Nat]
    /\ delivered \in [Ends -> Seq(Fragments)]

-----------------------------------------------------------------------------
(* Safety. *)

\* No end ever receives past the largest window it granted, although
\* receive_data does not check: it is the writer's can_send that stops it, and
\* late or repeated window updates do not widen what it uses.
ReceivedWithinGrant ==
    \A e \in Ends : Present(e) => table[e].received_offset <= granted[e]

\* received_offset never runs ahead of what the peer has written.
ReceivedWithinWritten ==
    \A e \in Ends : Present(e) => table[e].received_offset <= written[Peer(e)]

\* The state of an entry says which FINs there were: the read side is closed
\* only after the peer closed its write side, and the write side iff this end
\* closed it, in whatever order FINs, data and local calls come.
CloseMatches ==
    \A e \in Ends : Present(e) =>
        /\ table[e].state \in {"HalfClosedRemote", "Closed"} => Peer(e) \in finned
        /\ table[e].state \in {"HalfClosedLocal", "Closed"} <=> e \in finned

\* An end that has sent its FIN writes nothing more.
NothingAfterFin ==
    [][\A e \in finned : written'[e] = written[e]]_vars

\* Each direction implements PrefixStream: whatever is reordered, lost or
\* repeated, no read has a hole, and no read starts past what the reads before
\* it have handed over.
AtAcceptor == INSTANCE PrefixStream
                WITH written <- written["opener"], delivered <- delivered["acceptor"]
AtOpener   == INSTANCE PrefixStream
                WITH written <- written["acceptor"], delivered <- delivered["opener"]

ReadsInOrder == AtAcceptor!Spec /\ AtOpener!Spec

\* The buffer holds the byte that follows all that was handed over.
HasNextByte(e) ==
    \E i \in DOMAIN table[e].buffer :
        LET f == table[e].buffer[i]
        IN  /\ AtAcceptor!Reaches(delivered[e], f.from)
            /\ ~AtAcceptor!Reaches(delivered[e], f.from + f.len)

\* A read that returns nothing waits for a byte that is missing, as the comment
\* in Stream::read says, and not for one that was read before.
WaitsOnlyForHole ==
    \A e \in Ends : Present(e) /\ WaitsForData(table[e]) => ~HasNextByte(e)
=============================================================================
