--------------------------- MODULE StreamLinkProofs ---------------------------
(***************************************************************************)
(* Proofs about StreamLink for any windows, lengths and numbers of bytes,  *)
(* and any number of repeated deliveries.                                  *)
(***************************************************************************)
EXTENDS StreamLink, SequenceTheorems, TLAPS

-----------------------------------------------------------------------------
(* What the operations of Stream do to its fields. *)

LEMMA NewStreamType ==
    /\ NewStream(Window) \in Streams
    /\ NewStream(Window).state = "Open"
    /\ NewStream(Window).max_offset = Window
    /\ NewStream(Window).received_offset = 0
    /\ NewStream(Window).sent_offset = 0
    /\ NewStream(Window).buffer = <<>>
<1>1. <<>> \in Seq(Fragments)
  OBVIOUS
<1> QED
  BY <1>1, SizeAssumption DEF NewStream, Streams, StreamStates

LEMMA ReserveSendType ==
    ASSUME NEW s \in Streams, NEW n \in Nat
    PROVE  /\ ReserveSend(s, n) \in Streams
           /\ ReserveSend(s, n).state = s.state
           /\ ReserveSend(s, n).max_offset = s.max_offset
           /\ ReserveSend(s, n).received_offset = s.received_offset
           /\ ReserveSend(s, n).sent_offset = s.sent_offset + n
           /\ ReserveSend(s, n).buffer = s.buffer
  BY DEF ReserveSend, Streams

LEMMA UpdateWindowType ==
    ASSUME NEW s \in Streams, NEW m \in Nat
    PROVE  /\ UpdateWindow(s, m) \in Streams
           /\ UpdateWindow(s, m).state = s.state
           /\ UpdateWindow(s, m).max_offset \in {m, s.max_offset}
           /\ UpdateWindow(s, m).received_offset = s.received_offset
           /\ UpdateWindow(s, m).sent_offset = s.sent_offset
           /\ UpdateWindow(s, m).buffer = s.buffer
  BY DEF UpdateWindow, Greater, Streams

LEMMA ReceiveDataType ==
    ASSUME NEW s \in Streams, NEW f \in Fragments
    PROVE  /\ ReceiveData(s, f) \in Streams
           /\ ReceiveData(s, f).state = s.state
           /\ ReceiveData(s, f).max_offset = s.max_offset
           /\ ReceiveData(s, f).received_offset
                 \in {s.received_offset, f.off + f.len}
           /\ ReceiveData(s, f).sent_offset = s.sent_offset
           /\ ReceiveData(s, f).buffer = Append(s.buffer, f)
<1>1. Append(s.buffer, f) \in Seq(Fragments)
  BY DEF Streams
<1>2. f.off \in Nat /\ f.len \in Nat
  BY DEF Fragments
<1>3. Greater(s.received_offset, f.off + f.len) \in Nat
  BY <1>2 DEF Greater, Streams
<1> QED
  BY <1>1, <1>2, <1>3 DEF ReceiveData, Streams, Greater

(* Closing a side changes the state alone, by the table for that side. *)
LEMMA CloseType ==
    ASSUME NEW s \in Streams
    PROVE  /\ CloseWrite(s) \in Streams /\ CloseRead(s) \in Streams
           /\ CloseWrite(s).state = WriteClosed[s.state]
           /\ CloseRead(s).state = ReadClosed[s.state]
           /\ CloseWrite(s) = [s EXCEPT !.state = WriteClosed[s.state]]
           /\ CloseRead(s) = [s EXCEPT !.state = ReadClosed[s.state]]
<1>1. s.state \in StreamStates
  BY DEF Streams
<1>2. WriteClosed[s.state] \in StreamStates /\ ReadClosed[s.state] \in StreamStates
  BY <1>1 DEF StreamStates, WriteClosed, ReadClosed
<1> QED
  BY <1>2 DEF CloseWrite, CloseRead, Streams

LEMMA FragmentType ==
    ASSUME NEW s \in Streams, NEW n \in Nat \ {0}
    PROVE  /\ Fragment(s, n) \in Fragments
           /\ Fragment(s, n).off <= s.sent_offset
           /\ Fragment(s, n).from = s.sent_offset
           /\ Fragment(s, n).len = n
           /\ s.sent_offset < OffsetSpace => Fragment(s, n).off = s.sent_offset
<1>1. s.sent_offset \in Nat
  BY DEF Streams
<1>2. /\ s.sent_offset % OffsetSpace \in Nat
      /\ s.sent_offset % OffsetSpace <= s.sent_offset
      /\ s.sent_offset < OffsetSpace => s.sent_offset % OffsetSpace = s.sent_offset
  BY <1>1, OffsetSpaceAssumption
<1> QED
  BY <1>1, <1>2 DEF Fragment, Fragments

(* Sorting a buffer keeps it a sequence of the same fragments. *)
LEMMA ArrangedType ==
    ASSUME NEW S, NEW buffer \in Seq(S), NEW p \in StableOrders(buffer)
    PROVE  Arranged(buffer, p) \in Seq(S) /\ Len(Arranged(buffer, p)) = Len(buffer)
<1>1. \A i \in 1 .. Len(buffer) : p[i] \in 1 .. Len(buffer)
  BY DEF StableOrders
<1>2. \A i \in 1 .. Len(buffer) : buffer[p[i]] \in S
  BY <1>1
<1>3. Arranged(buffer, p) = [i \in 1 .. Len(buffer) |-> buffer[p[i]]]
  BY DEF Arranged
<1> QED
  BY <1>2, <1>3

(* The kind of a frame tells what it carries. *)
LEMMA FrameKinds ==
    ASSUME NEW m \in Frames
    PROVE  /\ m.to \in Ends
           /\ m.kind = "data" => m.frag \in Fragments
           /\ m.kind = "window" => m.max \in Nat
  BY DEF Frames

-----------------------------------------------------------------------------
(* Types. *)

LEMMA TypeInit == Init => TypeOK
<1> SUFFICES ASSUME Init
             PROVE  TypeOK
  OBVIOUS
<1> DEFINE none == <<>>
<1>1. none \in Seq(Fragments)
  OBVIOUS
<1>2. delivered = [e \in Ends |-> none]
  BY DEF Init
<1>3. delivered \in [Ends -> Seq(Fragments)]
  <2> HIDE DEF none
  <2> QED
    BY <1>1, <1>2
<1> QED
  BY <1>3, SizeAssumption DEF Init, TypeOK

(* The state of a stream in the table. *)
LEMMA EntryType ==
    ASSUME TypeOK, NEW e \in Ends
    PROVE  Present(e) => table[e] \in Streams
  BY DEF TypeOK, Present

LEMMA FinType ==
    ASSUME TypeOK, NEW e \in Ends, SendFin(e)
    PROVE  net' \subseteq Frames /\ finned' \subseteq Ends
<1>1. Peer(e) \in Ends
  BY DEF Ends, Peer
<1> QED
  BY <1>1 DEF TypeOK, SendFin, FinFrame, Frames

LEMMA TypeNext == TypeOK /\ [Next]_vars => TypeOK'
<1> SUFFICES ASSUME TypeOK, [Next]_vars
             PROVE  TypeOK'
  OBVIOUS
<1> USE DEF TypeOK
<1>1. CASE Open
  BY <1>1, NewStreamType DEF Open, OpenFrame, Frames, Ends
<1>2. ASSUME NEW e \in Writers, Write(e)
      PROVE  TypeOK'
  <2>1. e \in Ends /\ Peer(e) \in Ends
    BY EndsAssumption DEF Ends, Peer
  <2>2. table[e] \in Streams
    BY <1>2, <2>1, EntryType DEF Write
  <2>3. PICK n \in Lens :
           /\ table' = [table EXCEPT ![e] = ReserveSend(table[e], n)]
           /\ net' = net \cup {DataFrame(Peer(e), Fragment(table[e], n))}
           /\ written' = [written EXCEPT ![e] = written[e] + n]
    BY <1>2, <2>1 DEF Write
  <2>4. n \in Nat \ {0}
    BY <2>3, SizeAssumption
  <2>5. Fragment(table[e], n) \in Fragments
    BY <2>2, <2>4, FragmentType
  <2>6. net' \subseteq Frames
    BY <2>1, <2>3, <2>5 DEF DataFrame, Frames
  <2>7. table' \in [Ends -> Streams \cup {None}]
    BY <2>2, <2>3, <2>4, ReserveSendType
  <2>8. written' \in [Ends -> Nat]
    BY <2>1, <2>3, <2>4
  <2> QED
    BY <1>2, <2>6, <2>7, <2>8 DEF Write
<1>3. ASSUME NEW e \in Ends, ReadData(e)
      PROVE  TypeOK'
  <2>1. table[e] \in Streams
    BY <1>3, EntryType DEF ReadData
  <2>2. table[e].buffer \in Seq(Fragments)
    BY <2>1 DEF Streams
  <2>3. PICK p \in StableOrders(table[e].buffer), max_len \in ReadSizes,
             k \in DOMAIN table[e].buffer :
           LET frags == Arranged(table[e].buffer, p)
           IN  /\ table' = [table EXCEPT ![e].buffer = SubSeq(frags, k + 1, Len(frags))]
               /\ delivered' = [delivered EXCEPT ![e] = delivered[e] \o SubSeq(frags, 1, k)]
    BY <1>3 DEF ReadData
  <2> DEFINE frags == Arranged(table[e].buffer, p)
             rest  == SubSeq(frags, k + 1, Len(frags))
  <2>4. frags \in Seq(Fragments) /\ Len(frags) = Len(table[e].buffer)
    BY <2>2, ArrangedType
  <2>5. k \in 1 .. Len(frags)
    BY <2>2, <2>4
  <2>6. rest \in Seq(Fragments) /\ SubSeq(frags, 1, k) \in Seq(Fragments)
    <3> HIDE DEF frags
    <3> QED
      BY <2>4, <2>5
  <2>7. delivered[e] \o SubSeq(frags, 1, k) \in Seq(Fragments)
    <3> HIDE DEF frags
    <3> QED
      BY <2>6
  <2>8. [table[e] EXCEPT !.buffer = rest] \in Streams
    <3> HIDE DEF rest
    <3> QED
      BY <2>1, <2>6 DEF Streams
  <2>9. table' = [table EXCEPT ![e] = [table[e] EXCEPT !.buffer = rest]]
    BY <2>3
  <2>10. table' \in [Ends -> Streams \cup {None}]
    <3> HIDE DEF rest
    <3> QED
      BY <2>8, <2>9
  <2>11. delivered' = [delivered EXCEPT ![e] = delivered[e] \o SubSeq(frags, 1, k)]
    BY <2>3
  <2>12. delivered' \in [Ends -> Seq(Fragments)]
    <3> DEFINE longer == delivered[e] \o SubSeq(frags, 1, k)
    <3>1. longer \in Seq(Fragments) /\ delivered' = [delivered EXCEPT ![e] = longer]
      BY <2>7, <2>11
    <3> HIDE DEF longer
    <3> QED
      BY <3>1
  <2> QED
    BY <1>3, <2>10, <2>12 DEF ReadData
<1>4. ASSUME NEW e \in Ends, ReadNothing(e)
      PROVE  TypeOK'
  <2>1. table[e] \in Streams
    BY <1>4, EntryType DEF ReadNothing
  <2>2. table[e].buffer \in Seq(Fragments)
    BY <2>1 DEF Streams
  <2>3. PICK p \in StableOrders(table[e].buffer) :
           table' = [table EXCEPT ![e] =
                       [table[e] EXCEPT !.buffer = Arranged(table[e].buffer, p)]]
    BY <1>4 DEF ReadNothing
  <2>4. Arranged(table[e].buffer, p) \in Seq(Fragments)
    BY <2>2, ArrangedType
  <2>5. [table[e] EXCEPT !.buffer = Arranged(table[e].buffer, p)] \in Streams
    BY <2>1, <2>4 DEF Streams
  <2> QED
    BY <1>4, <2>3, <2>5 DEF ReadNothing
<1>5. ASSUME NEW e \in Ends, CloseWriteSide(e)
      PROVE  TypeOK'
  <2>1. table[e] \in Streams
    BY <1>5, EntryType DEF CloseWriteSide
  <2>2. table' = [table EXCEPT ![e] = CloseWrite(table[e])]
    BY <1>5 DEF CloseWriteSide
  <2>3. net' \subseteq Frames /\ finned' \subseteq Ends
    BY <1>5, FinType DEF CloseWriteSide
  <2> QED
    BY <1>5, <2>1, <2>2, <2>3, CloseType DEF CloseWriteSide
<1>6. ASSUME NEW e \in Ends, Shutdown(e)
      PROVE  TypeOK'
  <2>1. table[e] \in Streams
    BY <1>6, EntryType DEF Shutdown
  <2>2. CloseRead(CloseWrite(table[e])) \in Streams
    BY <2>1, CloseType
  <2>3. table' \in [Ends -> Streams \cup {None}]
    BY <1>6, <2>2 DEF Shutdown
  <2>4. net' \subseteq Frames /\ finned' \subseteq Ends
    BY <1>6, FinType DEF Shutdown
  <2> QED
    BY <1>6, <2>3, <2>4 DEF Shutdown
<1>7. ASSUME NEW e \in Ends, Grant(e)
      PROVE  TypeOK'
  <2>1. Peer(e) \in Ends
    BY DEF Ends, Peer
  <2>2. PICK m \in Windows : /\ granted' = [granted EXCEPT ![e] = m]
                             /\ net' = net \cup {WindowFrame(Peer(e), m)}
    BY <1>7 DEF Grant
  <2>3. m \in Nat
    BY <2>2, SizeAssumption
  <2> QED
    BY <1>7, <2>1, <2>2, <2>3 DEF Grant, WindowFrame, Frames
<1>8. ASSUME NEW m \in net, Deliver(m)
      PROVE  TypeOK'
  <2>1. m \in Frames /\ m.to \in Ends
    BY FrameKinds
  <2>2. net' \subseteq Frames /\ dups' \in Nat
    BY <1>8 DEF Deliver, Arrives
  <2>3. CASE AcceptStream(m)
    BY <1>8, <2>1, <2>2, <2>3, NewStreamType DEF Deliver, AcceptStream
  <2>4. CASE ReceiveFragment(m)
    <3>1. m.frag \in Fragments
      BY <2>1, <2>4, FrameKinds DEF ReceiveFragment
    <3>2. table[m.to] # None => ReceiveData(table[m.to], m.frag) \in Streams
      BY <2>1, <3>1, ReceiveDataType
    <3>3. table' \in [Ends -> Streams \cup {None}]
      BY <2>4, <3>2 DEF ReceiveFragment
    <3> QED
      BY <1>8, <2>2, <3>3 DEF Deliver
  <2>5. CASE ReceiveFin(m)
    <3>1. table[m.to] # None => CloseRead(table[m.to]) \in Streams
      BY <2>1, CloseType
    <3>2. table' \in [Ends -> Streams \cup {None}]
      BY <2>5, <3>1 DEF ReceiveFin
    <3> QED
      BY <1>8, <2>2, <3>2 DEF Deliver
  <2>6. CASE ReceiveWindow(m)
    <3>1. m.max \in Nat
      BY <2>1, <2>6, FrameKinds DEF ReceiveWindow
    <3>2. table[m.to] # None => UpdateWindow(table[m.to], m.max) \in Streams
      BY <2>1, <3>1, UpdateWindowType
    <3>3. table' \in [Ends -> Streams \cup {None}]
      BY <2>6, <3>2 DEF ReceiveWindow
    <3> QED
      BY <1>8, <2>2, <3>3 DEF Deliver
  <2> QED
    BY <1>8, <2>3, <2>4, <2>5, <2>6 DEF Deliver
<1>9. CASE UNCHANGED vars
  BY <1>9 DEF vars
<1> QED
  BY <1>1, <1>2, <1>3, <1>4, <1>5, <1>6, <1>7, <1>8, <1>9 DEF Next

(* Every variable of a stream's two ends keeps its type. *)
THEOREM StreamTypeCorrect == Spec => []TypeOK
  BY TypeInit, TypeNext, PTL DEF Spec

-----------------------------------------------------------------------------
(* Flow control.  What bounds received_offset is spread over both ends and   *)
(* the frames between them: the windows the writer uses are windows the      *)
(* reader granted, and no Data frame reaches past the writer's window.       *)

EntryFlow(e) ==
    Present(e) => /\ table[e].received_offset <= granted[e]
                  /\ table[e].received_offset <= written[Peer(e)]
                  /\ table[e].max_offset <= granted[Peer(e)]
                  /\ table[e].sent_offset <= written[e]

FrameFlow(m) ==
    /\ m.kind = "data" => /\ m.frag.off + m.frag.len <= granted[m.to]
                          /\ m.frag.off + m.frag.len <= written[Peer(m.to)]
    /\ m.kind = "window" => m.max <= granted[Peer(m.to)]

Flow ==
    /\ \A e \in Ends : Window <= granted[e]
    /\ \A e \in Ends : EntryFlow(e)
    /\ \A m \in net : FrameFlow(m)

\* Windows granted and bytes written only grow.
Grows == \A e \in Ends : granted[e] <= granted'[e] /\ written[e] <= written'[e]

LEMMA Peers ==
    ASSUME NEW e \in Ends
    PROVE  Peer(e) \in Ends /\ Peer(e) # e /\ Peer(Peer(e)) = e
  BY DEF Ends, Peer

LEMMA FrameStays ==
    ASSUME TypeOK, TypeOK', Grows, NEW m \in Frames, FrameFlow(m)
    PROVE  FrameFlow(m)'
<1>1. m.to \in Ends /\ Peer(m.to) \in Ends
  BY FrameKinds, Peers
<1>2. CASE m.kind = "data"
  <2>1. m.frag.off + m.frag.len \in Nat
    BY <1>2, FrameKinds DEF Fragments
  <2> QED
    BY <1>1, <1>2, <2>1 DEF FrameFlow, Grows, TypeOK
<1>3. CASE m.kind = "window"
  <2>1. m.max \in Nat
    BY <1>3, FrameKinds
  <2> QED
    BY <1>1, <1>3, <2>1 DEF FrameFlow, Grows, TypeOK
<1> QED
  BY <1>2, <1>3 DEF FrameFlow

LEMMA EntryStays ==
    ASSUME TypeOK, TypeOK', Grows, NEW e \in Ends, EntryFlow(e),
           Present(e)' => /\ Present(e)
                          /\ table'[e].received_offset = table[e].received_offset
                          /\ table'[e].max_offset = table[e].max_offset
                          /\ table'[e].sent_offset = table[e].sent_offset
    PROVE  EntryFlow(e)'
<1> SUFFICES ASSUME Present(e)'
             PROVE  EntryFlow(e)'
  BY DEF EntryFlow
<1>1. Peer(e) \in Ends
  BY Peers
<1>2. /\ table[e].received_offset \in Nat
      /\ table[e].max_offset \in Nat
      /\ table[e].sent_offset \in Nat
  BY EntryType DEF Streams
<1>3. \A d \in Ends : /\ granted[d] \in Nat /\ granted'[d] \in Nat
                     /\ written[d] \in Nat /\ written'[d] \in Nat
  BY DEF TypeOK
<1>4. /\ granted[e] <= granted'[e] /\ written[e] <= written'[e]
      /\ granted[Peer(e)] <= granted'[Peer(e)]
      /\ written[Peer(e)] <= written'[Peer(e)]
  BY <1>1 DEF Grows
<1>5. /\ table[e].received_offset <= granted'[e]
      /\ table[e].received_offset <= written'[Peer(e)]
      /\ table[e].max_offset <= granted'[Peer(e)]
      /\ table[e].sent_offset <= written'[e]
  BY <1>1, <1>2, <1>3, <1>4 DEF EntryFlow
<1> QED
  BY <1>5 DEF EntryFlow

(* A new stream has received and sent nothing, and its window was granted    *)
(* before the connection began.                                              *)
LEMMA EntryStarts ==
    ASSUME TypeOK, TypeOK', NEW e \in Ends,
           table'[e] = NewStream(Window), \A d \in Ends : Window <= granted'[d]
    PROVE  EntryFlow(e)'
<1>1. Peer(e) \in Ends
  BY Peers
<1> QED
  BY <1>1, NewStreamType DEF EntryFlow, TypeOK

LEMMA FlowInit == Init => Flow
  BY SizeAssumption DEF Init, Flow, EntryFlow, Present

(* A step that changes no stream but e's preserves Flow if the frames it      *)
(* sends and the stream of e do.                                              *)
LEMMA FlowStep ==
    ASSUME TypeOK, TypeOK', Flow, Grows, NEW e \in Ends,
           \A d \in Ends \ {e} : table'[d] = table[d],
           EntryFlow(e)', \A m \in net' \ net : FrameFlow(m)'
    PROVE  Flow'
<1>1. ASSUME NEW d \in Ends
      PROVE  Window <= granted'[d]
  BY SizeAssumption DEF Flow, Grows, TypeOK
<1>2. ASSUME NEW d \in Ends
      PROVE  EntryFlow(d)'
  <2>1. CASE d = e
    BY <2>1
  <2>2. CASE d # e
    BY <2>2, EntryStays DEF Flow, Present
  <2> QED
    BY <2>1, <2>2
<1>3. ASSUME NEW m \in net'
      PROVE  FrameFlow(m)'
  <2>1. CASE m \in net
    BY <2>1, FrameStays DEF Flow, TypeOK
  <2> QED
    BY <2>1
<1> QED
  BY <1>1, <1>2, <1>3 DEF Flow

LEMMA FlowNext == TypeOK /\ TypeOK' /\ Flow /\ [Next]_vars => Flow'
<1> SUFFICES ASSUME TypeOK, TypeOK', Flow, [Next]_vars
             PROVE  Flow'
  OBVIOUS
<1>1. CASE Open
  <2>1. "opener" \in Ends /\ Grows /\ \A d \in Ends : Window <= granted'[d]
    BY <1>1 DEF Open, Grows, TypeOK, Flow, Ends
  <2>2. /\ table'["opener"] = NewStream(Window)
        /\ \A d \in Ends \ {"opener"} : table'[d] = table[d]
    BY <1>1, <2>1 DEF Open, TypeOK
  <2>3. EntryFlow("opener")'
    BY <2>1, <2>2, EntryStarts
  <2>4. \A m \in net' \ net : FrameFlow(m)'
    BY <1>1 DEF Open, OpenFrame, FrameFlow
  <2> QED
    BY <2>1, <2>2, <2>3, <2>4, FlowStep
<1>2. ASSUME NEW e \in Writers, Write(e)
      PROVE  Flow'
  <2>1. e \in Ends /\ Peer(e) \in Ends /\ Peer(Peer(e)) = e
    BY EndsAssumption, Peers
  <2>2. table[e] \in Streams /\ Present(e)
    BY <1>2, <2>1, EntryType DEF Write
  <2>3. PICK n \in Lens :
           /\ CanSend(table[e], n)
           /\ table' = [table EXCEPT ![e] = ReserveSend(table[e], n)]
           /\ net' = net \cup {DataFrame(Peer(e), Fragment(table[e], n))}
           /\ written' = [written EXCEPT ![e] = written[e] + n]
    BY <1>2, <2>1 DEF Write
  <2>4. n \in Nat \ {0}
    BY <2>3, SizeAssumption
  <2>5. Grows /\ granted' = granted /\ written'[e] = written[e] + n
    BY <1>2, <2>1, <2>3, <2>4 DEF Write, Grows, TypeOK
  <2>6. /\ table'[e] = ReserveSend(table[e], n)
        /\ \A d \in Ends \ {e} : table'[d] = table[d]
    BY <2>1, <2>3 DEF TypeOK
  <2>7. /\ table[e].received_offset \in Nat /\ table[e].max_offset \in Nat
        /\ table[e].sent_offset \in Nat /\ written[e] \in Nat
        /\ granted[Peer(e)] \in Nat
    BY <2>1, <2>2 DEF Streams, TypeOK
  <2>8. /\ table[e].received_offset <= granted[e]
        /\ table[e].received_offset <= written[Peer(e)]
        /\ table[e].max_offset <= granted[Peer(e)]
        /\ table[e].sent_offset <= written[e]
    BY <2>1, <2>2 DEF Flow, EntryFlow
  <2>9. EntryFlow(e)'
    <3>1. written'[Peer(e)] = written[Peer(e)]
      BY <2>1, <2>3, Peers DEF TypeOK
    <3>2. table'[e].sent_offset <= written'[e]
      <4>1. table'[e].sent_offset = table[e].sent_offset + n
        BY <2>2, <2>4, <2>6, ReserveSendType
      <4> QED
        BY <2>4, <2>5, <2>7, <2>8, <4>1
    <3> QED
      BY <2>2, <2>4, <2>5, <2>6, <2>8, <3>1, <3>2, ReserveSendType DEF EntryFlow
  <2>10. ASSUME NEW m \in net' \ net
         PROVE  FrameFlow(m)'
    <3> DEFINE f == Fragment(table[e], n)
    <3>1. f.off \in Nat /\ f.off <= table[e].sent_offset /\ f.len = n
      BY <2>2, <2>4, FragmentType DEF Fragments
    <3>2. m.kind = "data" /\ m.to = Peer(e) /\ m.frag = f
      BY <2>3 DEF DataFrame
    <3> HIDE DEF f
    <3>3. f.off + f.len <= granted'[Peer(e)]
      BY <2>3, <2>4, <2>5, <2>7, <2>8, <3>1 DEF CanSend
    <3>4. f.off + f.len <= written'[e]
      BY <2>4, <2>5, <2>7, <2>8, <3>1
    <3> QED
      BY <2>1, <3>2, <3>3, <3>4 DEF FrameFlow
  <2> QED
    BY <2>1, <2>5, <2>6, <2>9, <2>10, FlowStep
<1>3. ASSUME NEW e \in Ends, ReadData(e)
      PROVE  Flow'
  <2>1. Grows
    BY <1>3 DEF ReadData, Grows, TypeOK
  <2>2. PICK b : table' = [table EXCEPT ![e].buffer = b]
    BY <1>3 DEF ReadData
  <2>3. EntryFlow(e)'
    <3>1. table[e] \in Streams /\ Present(e)
      BY <1>3, EntryType DEF ReadData
    <3>2. table'[e] = [table[e] EXCEPT !.buffer = b]
      BY <2>2 DEF TypeOK
    <3>3. /\ table'[e].received_offset = table[e].received_offset
          /\ table'[e].max_offset = table[e].max_offset
          /\ table'[e].sent_offset = table[e].sent_offset
      BY <3>1, <3>2 DEF Streams
    <3> QED
      BY <2>1, <3>1, <3>3, EntryStays DEF Flow
  <2>4. \A d \in Ends \ {e} : table'[d] = table[d]
    BY <2>2 DEF TypeOK
  <2>5. net' = net
    BY <1>3 DEF ReadData
  <2> QED
    BY <2>1, <2>3, <2>4, <2>5, FlowStep
<1>4. ASSUME NEW e \in Ends, ReadNothing(e)
      PROVE  Flow'
  <2>1. Grows
    BY <1>4 DEF ReadNothing, Grows, TypeOK
  <2>2. PICK b : table' = [table EXCEPT ![e].buffer = b]
    BY <1>4 DEF ReadNothing
  <2>3. EntryFlow(e)'
    <3>1. table[e] \in Streams /\ Present(e)
      BY <1>4, EntryType DEF ReadNothing
    <3>2. table'[e] = [table[e] EXCEPT !.buffer = b]
      BY <2>2 DEF TypeOK
    <3>3. /\ table'[e].received_offset = table[e].received_offset
          /\ table'[e].max_offset = table[e].max_offset
          /\ table'[e].sent_offset = table[e].sent_offset
      BY <3>1, <3>2 DEF Streams
    <3> QED
      BY <2>1, <3>1, <3>3, EntryStays DEF Flow
  <2>4. \A d \in Ends \ {e} : table'[d] = table[d]
    BY <2>2 DEF TypeOK
  <2>5. net' = net
    BY <1>4 DEF ReadNothing
  <2> QED
    BY <2>1, <2>3, <2>4, <2>5, FlowStep
<1>5. ASSUME NEW e \in Ends, CloseWriteSide(e)
      PROVE  Flow'
  <2>1. Grows
    BY <1>5 DEF CloseWriteSide, Grows, TypeOK
  <2>2. /\ table'[e] = CloseWrite(table[e])
        /\ \A d \in Ends \ {e} : table'[d] = table[d]
    BY <1>5 DEF CloseWriteSide, TypeOK
  <2>3. EntryFlow(e)'
    <3>1. table[e] \in Streams /\ Present(e)
      BY <1>5, EntryType DEF CloseWriteSide
    <3>2. /\ table'[e].received_offset = table[e].received_offset
          /\ table'[e].max_offset = table[e].max_offset
          /\ table'[e].sent_offset = table[e].sent_offset
      BY <2>2, <3>1 DEF Streams, CloseWrite
    <3> QED
      BY <2>1, <3>1, <3>2, EntryStays DEF Flow
  <2>4. \A m \in net' \ net : FrameFlow(m)'
    BY <1>5 DEF CloseWriteSide, SendFin, FinFrame, FrameFlow
  <2> QED
    BY <2>1, <2>2, <2>3, <2>4, FlowStep
<1>6. ASSUME NEW e \in Ends, Shutdown(e)
      PROVE  Flow'
  <2>1. Grows
    BY <1>6 DEF Shutdown, Grows, TypeOK
  <2>2. /\ table'[e] \in {None, CloseRead(CloseWrite(table[e]))}
        /\ \A d \in Ends \ {e} : table'[d] = table[d]
    BY <1>6 DEF Shutdown, TypeOK
  <2>3. EntryFlow(e)'
    <3>1. table[e] \in Streams /\ Present(e)
      BY <1>6, EntryType DEF Shutdown
    <3>2. Present(e)' => /\ table'[e].received_offset = table[e].received_offset
                         /\ table'[e].max_offset = table[e].max_offset
                         /\ table'[e].sent_offset = table[e].sent_offset
      BY <2>2, <3>1 DEF Streams, CloseWrite, CloseRead, Present
    <3> QED
      BY <2>1, <3>1, <3>2, EntryStays DEF Flow
  <2>4. \A m \in net' \ net : FrameFlow(m)'
    BY <1>6 DEF Shutdown, SendFin, FinFrame, FrameFlow
  <2> QED
    BY <2>1, <2>2, <2>3, <2>4, FlowStep
<1>7. ASSUME NEW e \in Ends, Grant(e)
      PROVE  Flow'
  <2>1. PICK m \in Windows : /\ m > granted[e]
                             /\ granted' = [granted EXCEPT ![e] = m]
                             /\ net' = net \cup {WindowFrame(Peer(e), m)}
    BY <1>7 DEF Grant
  <2>2. Grows /\ granted'[e] = m /\ m \in Nat
    BY <1>7, <2>1, SizeAssumption DEF Grant, Grows, TypeOK
  <2>3. table' = table
    BY <1>7 DEF Grant
  <2>4. EntryFlow(e)'
    BY <2>2, <2>3, EntryStays DEF Flow, Present
  <2>5. \A w \in net' \ net : FrameFlow(w)'
    BY <2>1, <2>2, Peers DEF WindowFrame, FrameFlow
  <2> QED
    BY <2>2, <2>3, <2>4, <2>5, FlowStep
<1>8. ASSUME NEW m \in net, Deliver(m)
      PROVE  Flow'
  <2>1. /\ m \in Frames /\ m.to \in Ends /\ FrameFlow(m)
        /\ EntryFlow(m.to)
        /\ Present(m.to) => table[m.to] \in Streams
    BY FrameKinds, EntryType DEF TypeOK, Flow
  <2>2. Grows /\ net' \subseteq net
    BY <1>8 DEF Deliver, Arrives, Grows, TypeOK
  <2>3. \A d \in Ends \ {m.to} : table'[d] = table[d]
    BY <1>8, <2>1
       DEF Deliver, AcceptStream, ReceiveFragment, ReceiveFin, ReceiveWindow, TypeOK
  <2>4. EntryFlow(m.to)'
    <3>1. CASE Present(m.to)' /\ ~Present(m.to)
      <4>1. table'[m.to] = NewStream(Window)
        BY <1>8, <2>1, <3>1
           DEF Deliver, AcceptStream, ReceiveFragment, ReceiveFin, ReceiveWindow,
               TypeOK, Present
      <4>2. \A d \in Ends : Window <= granted'[d]
        BY <1>8 DEF Deliver, Flow
      <4> QED
        BY <2>1, <4>1, <4>2, EntryStarts
    <3>2. CASE Present(m.to) /\ AcceptStream(m)
      BY <2>1, <2>2, <3>2, EntryStays DEF AcceptStream, Present, TypeOK
    <3>3. CASE Present(m.to) /\ ReceiveFin(m)
      <4>1. table'[m.to] \in {None, CloseRead(table[m.to])}
        BY <2>1, <3>3 DEF ReceiveFin, TypeOK
      <4>2. Present(m.to)' =>
               /\ table'[m.to].received_offset = table[m.to].received_offset
               /\ table'[m.to].max_offset = table[m.to].max_offset
               /\ table'[m.to].sent_offset = table[m.to].sent_offset
        BY <2>1, <3>3, <4>1 DEF Streams, CloseRead, Present
      <4> QED
        BY <2>1, <2>2, <3>3, <4>2, EntryStays
    <3>4. CASE Present(m.to) /\ ReceiveFragment(m)
      <4>1. m.kind = "data" /\ m.frag \in Fragments
        BY <2>1, <3>4, FrameKinds DEF ReceiveFragment
      <4>2. table'[m.to] = ReceiveData(table[m.to], m.frag)
        BY <2>1, <3>4 DEF ReceiveFragment, TypeOK, Present
      <4>3. /\ table'[m.to].received_offset
                  \in {table[m.to].received_offset, m.frag.off + m.frag.len}
            /\ table'[m.to].max_offset = table[m.to].max_offset
            /\ table'[m.to].sent_offset = table[m.to].sent_offset
        BY <2>1, <3>4, <4>1, <4>2, ReceiveDataType
      <4>4. granted' = granted /\ written' = written
        BY <1>8 DEF Deliver
      <4> QED
        BY <2>1, <3>4, <4>1, <4>3, <4>4 DEF EntryFlow, FrameFlow
    <3>5. CASE Present(m.to) /\ ReceiveWindow(m)
      <4>1. m.kind = "window" /\ m.max \in Nat
        BY <2>1, <3>5, FrameKinds DEF ReceiveWindow
      <4>2. table'[m.to] = UpdateWindow(table[m.to], m.max)
        BY <2>1, <3>5 DEF ReceiveWindow, TypeOK, Present
      <4>3. /\ table'[m.to].max_offset \in {m.max, table[m.to].max_offset}
            /\ table'[m.to].received_offset = table[m.to].received_offset
            /\ table'[m.to].sent_offset = table[m.to].sent_offset
        BY <2>1, <3>5, <4>1, <4>2, UpdateWindowType
      <4>4. granted' = granted /\ written' = written
        BY <1>8 DEF Deliver
      <4> QED
        BY <2>1, <3>5, <4>1, <4>3, <4>4 DEF EntryFlow, FrameFlow
    <3> QED
      BY <1>8, <3>1, <3>2, <3>3, <3>4, <3>5 DEF Deliver, EntryFlow
  <2> QED
    BY <2>1, <2>2, <2>3, <2>4, FlowStep
<1>9. CASE UNCHANGED vars
  BY <1>9 DEF vars, Flow, EntryFlow, FrameFlow, Present
<1> QED
  BY <1>1, <1>2, <1>3, <1>4, <1>5, <1>6, <1>7, <1>8, <1>9 DEF Next

(* The invariant of flow control, at every moment. *)
THEOREM FlowHolds == Spec => []Flow
  BY StreamTypeCorrect, FlowInit, FlowNext, PTL DEF Spec

(* No end receives past the largest window it granted. *)
THEOREM ReceivedWithinGrantHolds == Spec => []ReceivedWithinGrant
<1>1. Flow => ReceivedWithinGrant
  BY DEF Flow, EntryFlow, ReceivedWithinGrant
<1> QED
  BY <1>1, FlowHolds, PTL

(* No end receives more than its peer wrote. *)
THEOREM ReceivedWithinWrittenHolds == Spec => []ReceivedWithinWritten
<1>1. Flow => ReceivedWithinWritten
  BY DEF Flow, EntryFlow, ReceivedWithinWritten
<1> QED
  BY <1>1, FlowHolds, PTL

-----------------------------------------------------------------------------
(* The lifecycle.  A StreamOpen delivered twice makes a new, open stream of   *)
(* one that is closed and gone, so these theorems assume that no StreamOpen   *)
(* is repeated; data, FINs and windows may be.                                *)

Lifecycle ==
    /\ CloseMatches
    /\ ~opened => net = {} /\ finned = {} /\ \A e \in Ends : ~Present(e)
    /\ \A m \in net : m.kind = "open" => m = OpenFrame
    /\ OpenFrame \in net => ~Present("acceptor") /\ "acceptor" \notin finned
    /\ \A m \in net : m.kind = "fin" => Peer(m.to) \in finned

LEMMA LifecycleInit == Init => Lifecycle
  BY DEF Init, Lifecycle, CloseMatches, Present

(* Closing one side closes that side alone. *)
LEMMA ClosedSides ==
    ASSUME NEW s \in StreamStates
    PROVE  /\ WriteClosed[s] \in {"HalfClosedLocal", "Closed"}
           /\ ReadClosed[s] \in {"HalfClosedRemote", "Closed"}
           /\ WriteClosed[s] \in {"HalfClosedRemote", "Closed"}
                 <=> s \in {"HalfClosedRemote", "Closed"}
           /\ ReadClosed[s] \in {"HalfClosedLocal", "Closed"}
                 <=> s \in {"HalfClosedLocal", "Closed"}
  BY DEF StreamStates, WriteClosed, ReadClosed

LEMMA EntryState ==
    ASSUME TypeOK, NEW e \in Ends, Present(e)
    PROVE  table[e] \in Streams /\ table[e].state \in StreamStates
  BY EntryType DEF Streams

(* An end that closes its write side has sent its FIN afterwards. *)
LEMMA SentFin ==
    ASSUME TypeOK, Lifecycle, NEW e \in Ends, Present(e), SendFin(e)
    PROVE  /\ finned' = finned \cup {e}
           /\ net' \subseteq net \cup {FinFrame(Peer(e))}
<1>1. CASE WriteSideOpen(e)
  BY <1>1 DEF SendFin
<1>2. CASE ~WriteSideOpen(e)
  <2>1. table[e].state \in {"HalfClosedLocal", "Closed"}
    BY <1>2, EntryState DEF WriteSideOpen, StreamStates
  <2>2. e \in finned
    BY <2>1 DEF Lifecycle, CloseMatches
  <2> QED
    BY <1>2, <2>2 DEF SendFin
<1> QED
  BY <1>1, <1>2

(* A step that changes the state of no stream, sends no FIN and opens         *)
(* nothing; e is the only end whose stream it changes or removes.             *)
LEMMA SameState ==
    ASSUME TypeOK, Lifecycle, opened, NEW e \in Ends,
           \A d \in Ends \ {e} : table'[d] = table[d],
           Present(e)' => Present(e) /\ table'[e].state = table[e].state,
           \A m \in net' \ net : m.kind \notin {"open", "fin"},
           UNCHANGED <<opened, finned>>
    PROVE  Lifecycle'
<1>1. \A d \in Ends : Present(d)' => Present(d) /\ table'[d].state = table[d].state
  BY DEF Present
<1>2. CloseMatches'
  BY <1>1 DEF Lifecycle, CloseMatches
<1>3. \A m \in net' : m.kind \in {"open", "fin"} => m \in net
  OBVIOUS
<1>4. OpenFrame.kind = "open" /\ "acceptor" \in Ends
  BY DEF OpenFrame, Ends
<1> QED
  BY <1>1, <1>2, <1>3, <1>4 DEF Lifecycle

(* A step of the end e that closes its write side, and removes its stream or  *)
(* leaves the read side as it was.                                            *)
LEMMA ClosesWriteSide ==
    ASSUME TypeOK, Lifecycle, NEW e \in Ends, Present(e), SendFin(e),
           \A d \in Ends \ {e} : table'[d] = table[d],
           Present(e)' =>
              /\ table'[e].state \in {"HalfClosedLocal", "Closed"}
              /\ table'[e].state = "Closed" =>
                    table[e].state \in {"HalfClosedRemote", "Closed"}
              /\ table'[e].state # "HalfClosedRemote",
           UNCHANGED opened
    PROVE  Lifecycle'
<1>1. opened
  BY DEF Lifecycle
<1>2. /\ finned' = finned \cup {e}
      /\ net' \subseteq net \cup {FinFrame(Peer(e))}
  BY SentFin
<1>3. Peer(e) \in Ends /\ Peer(e) # e /\ Peer(Peer(e)) = e
  BY Peers
<1>4. ASSUME NEW d \in Ends, Present(d)'
      PROVE  /\ table'[d].state \in {"HalfClosedRemote", "Closed"} => Peer(d) \in finned'
             /\ table'[d].state \in {"HalfClosedLocal", "Closed"} <=> d \in finned'
  <2>1. CASE d = e
    BY <1>2, <1>4, <2>1 DEF Lifecycle, CloseMatches
  <2>2. CASE d # e
    BY <1>2, <1>4, <2>2 DEF Lifecycle, CloseMatches, Present
  <2> QED
    BY <2>1, <2>2
<1>5. CloseMatches'
  BY <1>4 DEF CloseMatches
<1>6. \A m \in net' : m \in net \/ (m.kind = "fin" /\ m.to = Peer(e))
  BY <1>2 DEF FinFrame
<1>7. OpenFrame.kind = "open" /\ "acceptor" \in Ends
  BY DEF OpenFrame, Ends
<1>8. OpenFrame \in net' => OpenFrame \in net /\ e # "acceptor"
  BY <1>6, <1>7 DEF Lifecycle
<1> QED
  BY <1>1, <1>2, <1>3, <1>5, <1>6, <1>7, <1>8 DEF Lifecycle, Present

(* Reading changes one stream, and of that stream only the buffer. *)
LEMMA EntryKept ==
    ASSUME TypeOK, TypeOK', NEW e \in Ends, Present(e), NEW b,
           table' = [table EXCEPT ![e].buffer = b]
    PROVE  /\ Present(e)' => table'[e].state = table[e].state
           /\ \A d \in Ends \ {e} : table'[d] = table[d]
<1>1. table[e] \in Streams
  BY EntryType
<1>2. table'[e] = [table[e] EXCEPT !.buffer = b]
  BY DEF TypeOK
<1>3. table'[e].state = table[e].state
  BY <1>1, <1>2 DEF Streams
<1> QED
  BY <1>3 DEF TypeOK

LEMMA LifecycleNext ==
    ASSUME "open" \notin DupKinds
    PROVE  TypeOK /\ TypeOK' /\ Lifecycle /\ [Next]_vars => Lifecycle'
<1> SUFFICES ASSUME TypeOK, TypeOK', Lifecycle, [Next]_vars
             PROVE  Lifecycle'
  OBVIOUS
<1>1. CASE Open
  <2>1. /\ opened' /\ finned' = {} /\ net' = {OpenFrame}
        /\ \A e \in Ends : ~Present(e)
    BY <1>1 DEF Open, Lifecycle
  <2>2. /\ table'["opener"] = NewStream(Window)
        /\ \A e \in Ends \ {"opener"} : ~Present(e)'
    BY <1>1, <2>1 DEF Open, TypeOK, Ends, Present
  <2>3. CloseMatches'
    BY <2>1, <2>2, NewStreamType DEF CloseMatches
  <2>4. ~Present("acceptor")'
    BY <2>2 DEF Ends
  <2> QED
    BY <2>1, <2>3, <2>4 DEF Lifecycle, OpenFrame
<1>2. ASSUME NEW e \in Writers, Write(e)
      PROVE  Lifecycle'
  <2>1. PICK n \in Lens :
           /\ table' = [table EXCEPT ![e] = ReserveSend(table[e], n)]
           /\ net' = net \cup {DataFrame(Peer(e), Fragment(table[e], n))}
    BY <1>2 DEF Write
  <2>2. e \in Ends /\ Present(e) /\ opened /\ UNCHANGED <<opened, finned>>
    BY <1>2, EndsAssumption DEF Write, Lifecycle
  <2>3. /\ table'[e].state = table[e].state
        /\ \A d \in Ends \ {e} : table'[d] = table[d]
    BY <2>1, <2>2, EntryState, ReserveSendType, SizeAssumption DEF TypeOK
  <2>4. \A m \in net' \ net : m.kind \notin {"open", "fin"}
    BY <2>1 DEF DataFrame
  <2> QED
    BY <2>2, <2>3, <2>4, SameState
<1>3. ASSUME NEW e \in Ends, ReadData(e)
      PROVE  Lifecycle'
  <2>1. PICK b : table' = [table EXCEPT ![e].buffer = b]
    BY <1>3 DEF ReadData
  <2>2. Present(e) /\ opened /\ UNCHANGED <<opened, finned, net>>
    BY <1>3 DEF ReadData, Lifecycle
  <2>3. /\ Present(e)' => table'[e].state = table[e].state
        /\ \A d \in Ends \ {e} : table'[d] = table[d]
    BY <2>1, <2>2, EntryKept
  <2> QED
    BY <2>2, <2>3, SameState
<1>4. ASSUME NEW e \in Ends, ReadNothing(e)
      PROVE  Lifecycle'
  <2>1. PICK b : table' = [table EXCEPT ![e].buffer = b]
    BY <1>4 DEF ReadNothing
  <2>2. Present(e) /\ opened /\ UNCHANGED <<opened, finned, net>>
    BY <1>4 DEF ReadNothing, Lifecycle
  <2>3. /\ Present(e)' => table'[e].state = table[e].state
        /\ \A d \in Ends \ {e} : table'[d] = table[d]
    BY <2>1, <2>2, EntryKept
  <2> QED
    BY <2>2, <2>3, SameState
<1>5. ASSUME NEW e \in Ends, CloseWriteSide(e)
      PROVE  Lifecycle'
  <2>1. Present(e) /\ SendFin(e) /\ UNCHANGED opened
    BY <1>5 DEF CloseWriteSide
  <2>2. table[e] \in Streams /\ table[e].state \in StreamStates
    BY <2>1, EntryState
  <2>3. /\ table'[e].state = WriteClosed[table[e].state]
        /\ \A d \in Ends \ {e} : table'[d] = table[d]
    BY <1>5, <2>2, CloseType DEF CloseWriteSide, TypeOK
  <2>4. /\ table'[e].state \in {"HalfClosedLocal", "Closed"}
        /\ table'[e].state = "Closed" => table[e].state \in {"HalfClosedRemote", "Closed"}
        /\ table'[e].state # "HalfClosedRemote"
    BY <2>2, <2>3, ClosedSides
  <2> QED
    BY <2>1, <2>3, <2>4, ClosesWriteSide
<1>6. ASSUME NEW e \in Ends, Shutdown(e)
      PROVE  Lifecycle'
  <2>1. Present(e) /\ SendFin(e) /\ UNCHANGED opened
    BY <1>6 DEF Shutdown
  <2>2. table[e] \in Streams /\ table[e].state \in StreamStates
    BY <2>1, EntryState
  <2>3. CloseRead(CloseWrite(table[e])).state = "Closed"
    <3>1. /\ CloseWrite(table[e]) \in Streams
          /\ CloseWrite(table[e]).state \in {"HalfClosedLocal", "Closed"}
      BY <2>2, CloseType, ClosedSides
    <3>2. ReadClosed["HalfClosedLocal"] = "Closed" /\ ReadClosed["Closed"] = "Closed"
      BY DEF ReadClosed
    <3> QED
      BY <3>1, <3>2, CloseType
  <2>4. /\ ~Present(e)'
        /\ \A d \in Ends \ {e} : table'[d] = table[d]
    BY <1>6, <2>3 DEF Shutdown, IsClosed, TypeOK, Present
  <2> QED
    BY <2>1, <2>4, ClosesWriteSide
<1>7. ASSUME NEW e \in Ends, Grant(e)
      PROVE  Lifecycle'
  <2>1. Present(e) /\ opened /\ UNCHANGED <<opened, finned, table>>
    BY <1>7 DEF Grant, Lifecycle
  <2>2. \A m \in net' \ net : m.kind \notin {"open", "fin"}
    BY <1>7 DEF Grant, WindowFrame
  <2> QED
    BY <2>1, <2>2, SameState DEF Present
<1>8. ASSUME NEW m \in net, Deliver(m)
      PROVE  Lifecycle'
  <2>1. /\ m \in Frames /\ m.to \in Ends
        /\ opened /\ UNCHANGED <<opened, finned>> /\ net' \subseteq net
    BY <1>8, FrameKinds DEF Deliver, Arrives, Lifecycle, TypeOK
  <2>2. \A d \in Ends \ {m.to} : table'[d] = table[d]
    BY <1>8, <2>1
       DEF Deliver, AcceptStream, ReceiveFragment, ReceiveFin, ReceiveWindow, TypeOK
  <2>3. CASE AcceptStream(m)
    <3>1. m = OpenFrame /\ m.to = "acceptor" /\ net' = net \ {OpenFrame}
      BY <1>8, <2>3 DEF AcceptStream, Deliver, Arrives, Lifecycle, OpenFrame
    <3>2. ~Present("acceptor") /\ "acceptor" \notin finned
      BY <3>1 DEF Lifecycle
    <3>3. table'["acceptor"] = NewStream(Window)
      BY <2>1, <2>3, <3>1, <3>2 DEF AcceptStream, Present, TypeOK
    <3>4. table'["acceptor"].state = "Open"
      BY <3>3, NewStreamType
    <3>5. CloseMatches'
      BY <2>1, <2>2, <3>1, <3>2, <3>4 DEF Lifecycle, CloseMatches, Present
    <3> QED
      BY <2>1, <3>1, <3>5 DEF Lifecycle
  <2>4. CASE ReceiveFragment(m)
    <3>1. Present(m.to)' => Present(m.to) /\ table'[m.to].state = table[m.to].state
      <4>1. m.frag \in Fragments
        BY <2>1, <2>4, FrameKinds DEF ReceiveFragment
      <4>2. CASE Present(m.to)
        BY <2>1, <2>4, <4>1, <4>2, EntryState, ReceiveDataType
           DEF ReceiveFragment, Present, TypeOK
      <4>3. CASE ~Present(m.to)
        BY <2>1, <2>4, <4>3 DEF ReceiveFragment, Present, TypeOK
      <4> QED
        BY <4>2, <4>3
    <3> QED
      BY <2>1, <2>2, <3>1, SameState
  <2>5. CASE ReceiveFin(m)
    <3>1. Peer(m.to) \in finned
      BY <2>5 DEF ReceiveFin, Lifecycle
    <3>2. Present(m.to)' => /\ Present(m.to)
                            /\ table'[m.to].state = ReadClosed[table[m.to].state]
      <4>1. CASE Present(m.to)
        <5>1. CloseRead(table[m.to]).state = ReadClosed[table[m.to].state]
          BY <2>1, <4>1, EntryState, CloseType
        <5> QED
          BY <2>1, <2>5, <4>1, <5>1 DEF ReceiveFin, Present, TypeOK
      <4>2. CASE ~Present(m.to)
        BY <2>1, <2>5, <4>2 DEF ReceiveFin, Present, TypeOK
      <4> QED
        BY <4>1, <4>2
    <3>3. Present(m.to)' => (table'[m.to].state \in {"HalfClosedLocal", "Closed"}
                               <=> m.to \in finned)
      BY <2>1, <3>2, EntryState, ClosedSides DEF Lifecycle, CloseMatches
    <3>4. CloseMatches'
      BY <2>1, <2>2, <3>1, <3>3 DEF Lifecycle, CloseMatches, Present
    <3>5. \A d \in Ends : Present(d)' => Present(d)
      BY <2>2, <3>2 DEF Present
    <3>6. "acceptor" \in Ends
      BY DEF Ends
    <3> QED
      BY <2>1, <3>4, <3>5, <3>6 DEF Lifecycle
  <2>6. CASE ReceiveWindow(m)
    <3>1. Present(m.to)' => Present(m.to) /\ table'[m.to].state = table[m.to].state
      <4>1. m.max \in Nat
        BY <2>1, <2>6, FrameKinds DEF ReceiveWindow
      <4>2. CASE Present(m.to)
        BY <2>1, <2>6, <4>1, <4>2, EntryState, UpdateWindowType
           DEF ReceiveWindow, Present, TypeOK
      <4>3. CASE ~Present(m.to)
        BY <2>1, <2>6, <4>3 DEF ReceiveWindow, Present, TypeOK
      <4> QED
        BY <4>2, <4>3
    <3> QED
      BY <2>1, <2>2, <3>1, SameState
  <2> QED
    BY <1>8, <2>3, <2>4, <2>5, <2>6 DEF Deliver
<1>9. CASE UNCHANGED vars
  BY <1>9 DEF vars, Lifecycle, CloseMatches, Present
<1> QED
  BY <1>1, <1>2, <1>3, <1>4, <1>5, <1>6, <1>7, <1>8, <1>9 DEF Next

(* The invariant of the lifecycle, at every moment. *)
THEOREM LifecycleHolds ==
    ASSUME "open" \notin DupKinds
    PROVE  Spec => []Lifecycle
<1>1. TypeOK /\ TypeOK' /\ Lifecycle /\ [Next]_vars => Lifecycle'
  BY LifecycleNext
<1> QED
  BY <1>1, StreamTypeCorrect, LifecycleInit, PTL DEF Spec

(* The state of an entry says which FINs there were. *)
THEOREM CloseMatchesHolds ==
    ASSUME "open" \notin DupKinds
    PROVE  Spec => []CloseMatches
<1>1. Lifecycle => CloseMatches
  BY DEF Lifecycle
<1> QED
  BY <1>1, LifecycleHolds, PTL

(* An end that has sent its FIN writes nothing more. *)
THEOREM NothingAfterFinHolds ==
    ASSUME "open" \notin DupKinds
    PROVE  Spec => NothingAfterFin
<1>1. TypeOK /\ Lifecycle /\ [Next]_vars
         => [\A e \in finned : written'[e] = written[e]]_vars
  <2> SUFFICES ASSUME TypeOK, Lifecycle, Next, NEW e \in finned
               PROVE  written'[e] = written[e]
    OBVIOUS
  <2>1. CASE \E d \in Writers : Write(d)
    <3>1. PICK d \in Writers : Write(d)
      BY <2>1
    <3>2. d # e
      BY <3>1, EndsAssumption DEF Write, CanWrite, Lifecycle, CloseMatches
    <3> QED
      BY <3>1, <3>2 DEF Write, TypeOK
  <2>2. CASE ~ \E d \in Writers : Write(d)
    BY <2>2 DEF Next, Open, ReadData, ReadNothing, CloseWriteSide, Shutdown, Grant, Deliver
  <2> QED
    BY <2>1, <2>2
<1> QED
  BY <1>1, StreamTypeCorrect, LifecycleHolds, PTL DEF Spec, NothingAfterFin

-----------------------------------------------------------------------------
(* What a read returns.  The writer's offsets are the ones on the wire as long *)
(* as they fit into it, which these theorems assume.                            *)

\* The fragments for e whose offset is their place in what the peer has written.
Placed(e) == {f \in Fragments : f.off = f.from /\ f.from + f.len <= written[Peer(e)]}

Positions ==
    /\ \A e \in Ends : written[e] <= MaxBytes
    /\ \A e \in Ends : Present(e) => table[e].buffer \in Seq(Placed(e))
    /\ \A m \in net : m.kind = "data" => m.frag \in Placed(m.to)

LEMMA PositionsInit == Init => Positions
  BY BoundAssumption DEF Init, Positions, Present

(* What is placed stays so while the peer writes on. *)
LEMMA PlacedStays ==
    ASSUME TypeOK, TypeOK', NEW e \in Ends, written[Peer(e)] <= written'[Peer(e)]
    PROVE  Placed(e) \subseteq Placed(e)'
<1>1. /\ Peer(e) \in Ends
      /\ written[Peer(e)] \in Nat /\ written'[Peer(e)] \in Nat
  BY Peers DEF TypeOK
<1>2. \A f \in Fragments : f.from + f.len \in Nat
  BY DEF Fragments
<1> QED
  BY <1>1, <1>2 DEF Placed

(* A step that writes nothing and changes no buffer but e's. *)
LEMMA PositionsStep ==
    ASSUME TypeOK, TypeOK', Positions, NEW e \in Ends, UNCHANGED written,
           \A d \in Ends \ {e} : table'[d] = table[d],
           Present(e)' => table'[e].buffer \in Seq(Placed(e)),
           \A m \in net' \ net : m.kind # "data"
    PROVE  Positions'
<1>1. \A d \in Ends : Placed(d)' = Placed(d)
  BY DEF Placed
<1>2. \A d \in Ends : Present(d)' => table'[d].buffer \in Seq(Placed(d))
  BY DEF Positions, Present
<1>3. \A m \in net' : m.kind = "data" => m \in net /\ m.to \in Ends
  BY FrameKinds DEF TypeOK
<1>4. \A m \in net' : m.kind = "data" => m.frag \in Placed(m.to)'
  BY <1>1, <1>3 DEF Positions
<1>5. \A d \in Ends : Present(d)' => table'[d].buffer \in Seq(Placed(d)')
  BY <1>1, <1>2
<1> QED
  BY <1>4, <1>5 DEF Positions

(* What a read takes and what it leaves in the buffer come from the buffer. *)
LEMMA Splits ==
    ASSUME NEW S, NEW buffer \in Seq(S), NEW p \in StableOrders(buffer),
           NEW k \in DOMAIN buffer
    PROVE  LET frags == Arranged(buffer, p)
           IN  /\ SubSeq(frags, 1, k) \in Seq(S)
               /\ SubSeq(frags, k + 1, Len(frags)) \in Seq(S)
               /\ Len(SubSeq(frags, 1, k)) = k
               /\ \A i \in 1 .. k : SubSeq(frags, 1, k)[i] = frags[i]
<1> DEFINE frags == Arranged(buffer, p)
<1>1. frags \in Seq(S) /\ k \in 1 .. Len(frags)
  BY ArrangedType
<1> HIDE DEF frags
<1>2. /\ SubSeq(frags, 1, k) \in Seq(S)
      /\ SubSeq(frags, k + 1, Len(frags)) \in Seq(S)
      /\ Len(SubSeq(frags, 1, k)) = k
      /\ \A i \in 1 .. k : SubSeq(frags, 1, k)[i] = frags[i]
  BY <1>1
<1> QED
  BY <1>2 DEF frags

LEMMA PositionsNext ==
    ASSUME MaxBytes <= OffsetSpace
    PROVE  TypeOK /\ TypeOK' /\ Flow /\ Positions /\ [Next]_vars => Positions'
<1> SUFFICES ASSUME TypeOK, TypeOK', Flow, Positions, [Next]_vars
             PROVE  Positions'
  OBVIOUS
<1>1. CASE Open
  <2>1. /\ "opener" \in Ends /\ UNCHANGED written
        /\ table'["opener"] = NewStream(Window)
        /\ \A d \in Ends \ {"opener"} : table'[d] = table[d]
    BY <1>1 DEF Open, TypeOK, Ends
  <2>2. table'["opener"].buffer \in Seq(Placed("opener"))
    BY <2>1, NewStreamType
  <2>3. \A m \in net' \ net : m.kind # "data"
    BY <1>1 DEF Open, OpenFrame
  <2> QED
    BY <2>1, <2>2, <2>3, PositionsStep
<1>2. ASSUME NEW e \in Writers, Write(e)
      PROVE  Positions'
  <2>1. e \in Ends /\ Peer(e) \in Ends /\ Peer(Peer(e)) = e
    BY EndsAssumption, Peers
  <2>2. table[e] \in Streams /\ Present(e)
    BY <1>2, <2>1, EntryType DEF Write
  <2>3. PICK n \in Lens :
           /\ written[e] + n <= MaxBytes
           /\ table' = [table EXCEPT ![e] = ReserveSend(table[e], n)]
           /\ net' = net \cup {DataFrame(Peer(e), Fragment(table[e], n))}
           /\ written' = [written EXCEPT ![e] = written[e] + n]
    BY <1>2, <2>1 DEF Write
  <2>4. n \in Nat \ {0}
    BY <2>3, SizeAssumption
  <2>5. /\ written'[e] = written[e] + n
        /\ \A d \in Ends \ {e} : written'[d] = written[d]
        /\ \A d \in Ends : written[d] \in Nat /\ written[d] <= written'[d]
    BY <2>1, <2>3, <2>4 DEF TypeOK
  <2>6. \A d \in Ends : written'[d] <= MaxBytes
    BY <2>3, <2>5 DEF Positions
  <2>7. \A d \in Ends : Placed(d) \subseteq Placed(d)'
    BY <2>5, PlacedStays, Peers
  <2>8. \A d \in Ends : Present(d)' => /\ Present(d)
                                       /\ table'[d].buffer = table[d].buffer
    <3>1. /\ table'[e] = ReserveSend(table[e], n)
          /\ \A d \in Ends \ {e} : table'[d] = table[d]
      BY <2>1, <2>3 DEF TypeOK
    <3>2. table'[e].buffer = table[e].buffer
      BY <2>2, <2>4, <3>1, ReserveSendType
    <3> QED
      BY <2>2, <3>1, <3>2 DEF Present
  <2>9. ASSUME NEW d \in Ends, Present(d)'
        PROVE  table'[d].buffer \in Seq(Placed(d)')
    <3>1. table[d].buffer \in Seq(Placed(d))
      BY <2>8, <2>9 DEF Positions
    <3> QED
      BY <2>7, <2>8, <2>9, <3>1, SeqMonotonic
  <2>10. Fragment(table[e], n) \in Placed(Peer(e))'
    <3> DEFINE f == Fragment(table[e], n)
    <3>1. table[e].sent_offset \in Nat /\ table[e].sent_offset <= written[e]
      BY <2>1, <2>2 DEF Flow, EntryFlow, Streams
    <3>2. table[e].sent_offset < OffsetSpace
      BY <2>1, <2>3, <2>4, <2>5, <3>1, OffsetSpaceAssumption, BoundAssumption
    <3>3. /\ f \in Fragments /\ f.off = f.from
          /\ f.from = table[e].sent_offset /\ f.len = n
      BY <2>2, <2>4, <3>2, FragmentType
    <3> HIDE DEF f
    <3>4. f.from + f.len <= written'[e]
      BY <2>1, <2>4, <2>5, <3>1, <3>3
    <3> QED
      BY <2>1, <3>3, <3>4 DEF Placed, f
  <2>11. ASSUME NEW m \in net', m.kind = "data"
         PROVE  m.frag \in Placed(m.to)'
    <3>1. CASE m \in net
      <4>1. m.to \in Ends /\ m.frag \in Placed(m.to)
        BY <2>11, <3>1, FrameKinds DEF Positions, TypeOK
      <4> QED
        BY <2>7, <4>1
    <3>2. CASE m = DataFrame(Peer(e), Fragment(table[e], n))
      BY <2>10, <3>2 DEF DataFrame
    <3> QED
      BY <2>3, <3>1, <3>2
  <2> QED
    BY <2>6, <2>9, <2>11 DEF Positions
<1>3. ASSUME NEW e \in Ends, ReadData(e)
      PROVE  Positions'
  <2>1. Present(e) /\ UNCHANGED <<net, written>>
    BY <1>3 DEF ReadData
  <2>2. PICK p \in StableOrders(table[e].buffer), k \in DOMAIN table[e].buffer :
           table' = [table EXCEPT ![e].buffer =
              SubSeq(Arranged(table[e].buffer, p), k + 1,
                     Len(Arranged(table[e].buffer, p)))]
    BY <1>3 DEF ReadData
  <2> DEFINE rest == SubSeq(Arranged(table[e].buffer, p), k + 1,
                            Len(Arranged(table[e].buffer, p)))
  <2>3. table[e] \in Streams /\ table[e].buffer \in Seq(Placed(e))
    BY <2>1, EntryType DEF Positions
  <2>4. rest \in Seq(Placed(e))
    BY <2>3, Splits
  <2>5. table' = [table EXCEPT ![e].buffer = rest]
    BY <2>2
  <2> HIDE DEF rest
  <2>6. /\ table'[e] = [table[e] EXCEPT !.buffer = rest]
        /\ \A d \in Ends \ {e} : table'[d] = table[d]
    BY <2>5 DEF TypeOK
  <2>7. table'[e].buffer = rest
    BY <2>3, <2>6 DEF Streams
  <2> QED
    BY <2>1, <2>4, <2>6, <2>7, PositionsStep
<1>4. ASSUME NEW e \in Ends, ReadNothing(e)
      PROVE  Positions'
  <2>1. Present(e) /\ UNCHANGED <<net, written>>
    BY <1>4 DEF ReadNothing
  <2>2. PICK p \in StableOrders(table[e].buffer) :
           table' = [table EXCEPT ![e].buffer = Arranged(table[e].buffer, p)]
    BY <1>4 DEF ReadNothing
  <2>3. table[e] \in Streams /\ table[e].buffer \in Seq(Placed(e))
    BY <2>1, EntryType DEF Positions
  <2>4. Arranged(table[e].buffer, p) \in Seq(Placed(e))
    BY <2>3, ArrangedType
  <2>5. /\ table'[e] = [table[e] EXCEPT !.buffer = Arranged(table[e].buffer, p)]
        /\ \A d \in Ends \ {e} : table'[d] = table[d]
    BY <2>2 DEF TypeOK
  <2>6. table'[e].buffer = Arranged(table[e].buffer, p)
    BY <2>3, <2>5 DEF Streams
  <2> QED
    BY <2>1, <2>4, <2>5, <2>6, PositionsStep
<1>5. ASSUME NEW e \in Ends, CloseWriteSide(e)
      PROVE  Positions'
  <2>1. table[e] \in Streams /\ Present(e) /\ UNCHANGED written
    BY <1>5, EntryType DEF CloseWriteSide
  <2>2. /\ table'[e] = CloseWrite(table[e])
        /\ \A d \in Ends \ {e} : table'[d] = table[d]
    BY <1>5 DEF CloseWriteSide, TypeOK
  <2>3. table'[e].buffer = table[e].buffer
    BY <2>1, <2>2 DEF CloseWrite, Streams
  <2>4. \A m \in net' \ net : m.kind # "data"
    BY <1>5 DEF CloseWriteSide, SendFin, FinFrame
  <2>5. table[e].buffer \in Seq(Placed(e))
    BY <2>1 DEF Positions
  <2> QED
    BY <2>1, <2>2, <2>3, <2>4, <2>5, PositionsStep
<1>6. ASSUME NEW e \in Ends, Shutdown(e)
      PROVE  Positions'
  <2>1. table[e] \in Streams /\ Present(e) /\ UNCHANGED written
    BY <1>6, EntryType DEF Shutdown
  <2>2. /\ table'[e] \in {None, CloseRead(CloseWrite(table[e]))}
        /\ \A d \in Ends \ {e} : table'[d] = table[d]
    BY <1>6 DEF Shutdown, TypeOK
  <2>3. Present(e)' => table'[e].buffer = table[e].buffer
    BY <2>1, <2>2 DEF CloseWrite, CloseRead, Streams, Present
  <2>4. \A m \in net' \ net : m.kind # "data"
    BY <1>6 DEF Shutdown, SendFin, FinFrame
  <2>5. table[e].buffer \in Seq(Placed(e))
    BY <2>1 DEF Positions
  <2> QED
    BY <2>1, <2>2, <2>3, <2>4, <2>5, PositionsStep
<1>7. ASSUME NEW e \in Ends, Grant(e)
      PROVE  Positions'
  <2>1. Present(e) /\ UNCHANGED <<table, written>>
    BY <1>7 DEF Grant
  <2>2. \A m \in net' \ net : m.kind # "data"
    BY <1>7 DEF Grant, WindowFrame
  <2> QED
    BY <2>1, <2>2, PositionsStep DEF Positions
<1>8. ASSUME NEW m \in net, Deliver(m)
      PROVE  Positions'
  <2>1. /\ m \in Frames /\ m.to \in Ends
        /\ UNCHANGED written /\ net' \subseteq net
    BY <1>8, FrameKinds DEF Deliver, Arrives, TypeOK
  <2>2. \A d \in Ends \ {m.to} : table'[d] = table[d]
    BY <1>8, <2>1
       DEF Deliver, AcceptStream, ReceiveFragment, ReceiveFin, ReceiveWindow, TypeOK
  <2>3. Present(m.to) => /\ table[m.to] \in Streams
                         /\ table[m.to].buffer \in Seq(Placed(m.to))
    BY <2>1, EntryType DEF Positions
  <2>4. Present(m.to)' => table'[m.to].buffer \in Seq(Placed(m.to))
    <3>1. CASE AcceptStream(m)
      <4>1. table'[m.to] = IF Present(m.to) THEN table[m.to] ELSE NewStream(Window)
        BY <2>1, <3>1 DEF AcceptStream, Present, TypeOK
      <4>2. NewStream(Window).buffer \in Seq(Placed(m.to))
        BY NewStreamType
      <4> QED
        BY <2>3, <4>1, <4>2
    <3>2. CASE ReceiveFragment(m)
      <4>1. m.frag \in Fragments /\ m.frag \in Placed(m.to)
        BY <2>1, <3>2, FrameKinds DEF ReceiveFragment, Positions
      <4>2. table'[m.to] = IF Present(m.to) THEN ReceiveData(table[m.to], m.frag)
                           ELSE table[m.to]
        BY <2>1, <3>2 DEF ReceiveFragment, Present, TypeOK
      <4>3. CASE Present(m.to)
        <5>1. table'[m.to].buffer = Append(table[m.to].buffer, m.frag)
          BY <2>3, <4>1, <4>2, <4>3, ReceiveDataType
        <5> QED
          BY <2>3, <4>1, <4>3, <5>1
      <4> QED
        BY <4>2, <4>3 DEF Present
    <3>3. CASE ReceiveFin(m)
      <4>1. table'[m.to] \in {None} \/ (Present(m.to) /\ table'[m.to] = CloseRead(table[m.to]))
        BY <2>1, <3>3 DEF ReceiveFin, Present, TypeOK
      <4>2. Present(m.to) => CloseRead(table[m.to]).buffer = table[m.to].buffer
        BY <2>3 DEF CloseRead, Streams
      <4> QED
        BY <2>3, <4>1, <4>2 DEF Present
    <3>4. CASE ReceiveWindow(m)
      <4>1. m.max \in Nat
        BY <2>1, <3>4, FrameKinds DEF ReceiveWindow
      <4>2. table'[m.to] = IF Present(m.to) THEN UpdateWindow(table[m.to], m.max)
                           ELSE table[m.to]
        BY <2>1, <3>4 DEF ReceiveWindow, Present, TypeOK
      <4>3. Present(m.to) => UpdateWindow(table[m.to], m.max).buffer = table[m.to].buffer
        BY <2>3, <4>1, UpdateWindowType
      <4> QED
        BY <2>3, <4>2, <4>3 DEF Present
    <3> QED
      BY <1>8, <3>1, <3>2, <3>3, <3>4 DEF Deliver
  <2> QED
    BY <2>1, <2>2, <2>4, PositionsStep
<1>9. CASE UNCHANGED vars
  BY <1>9 DEF vars, Positions, Placed, Present
<1> QED
  BY <1>1, <1>2, <1>3, <1>4, <1>5, <1>6, <1>7, <1>8, <1>9 DEF Next

(* Every fragment lies where the writer put it, at every moment. *)
THEOREM PositionsHold ==
    ASSUME MaxBytes <= OffsetSpace
    PROVE  Spec => []Positions
<1>1. TypeOK /\ TypeOK' /\ Flow /\ Positions /\ [Next]_vars => Positions'
  BY PositionsNext
<1> QED
  BY <1>1, StreamTypeCorrect, FlowHolds, PositionsInit, PTL DEF Spec

(* A run of fragments that starts at the first byte and has no hole. *)
Prefix(frags, n) ==
    \A i \in DOMAIN frags :
        /\ frags[i].from = IF i = 1 THEN 0 ELSE frags[i - 1].from + frags[i - 1].len
        /\ frags[i].from + frags[i].len <= n

(* Consecutive fragments from offset 0 that lie where they were written. *)
LEMMA PlacedPrefix ==
    ASSUME NEW e \in Ends, NEW frags \in Seq(Placed(e)), NEW max_len \in Nat,
           NEW k \in 1 .. Len(frags), Takes(frags, max_len, k),
           NEW took \in Seq(Placed(e)), Len(took) = k,
           \A i \in 1 .. k : took[i] = frags[i]
    PROVE  Prefix(took, written[Peer(e)])
<1>0. DOMAIN took = 1 .. k
  OBVIOUS
<1> SUFFICES ASSUME NEW i \in 1 .. k
             PROVE  /\ took[i].from = IF i = 1 THEN 0 ELSE took[i - 1].from + took[i - 1].len
                    /\ took[i].from + took[i].len <= written[Peer(e)]
  BY <1>0 DEF Prefix
<1>1. /\ took[i] \in Placed(e) /\ took[i] = frags[i]
      /\ i > 1 => took[i - 1] \in Placed(e) /\ took[i - 1] = frags[i - 1]
  OBVIOUS
<1>2. CASE i = 1
  BY <1>1, <1>2 DEF Placed, Takes
<1>3. CASE i > 1
  <2>1. i - 1 \in 1 .. k - 1 /\ (i - 1) + 1 = i
    BY <1>3
  <2>2. frags[i].off = frags[i - 1].off + frags[i - 1].len
    BY <2>1 DEF Takes
  <2> QED
    BY <1>1, <1>3, <2>2 DEF Placed
<1> QED
  BY <1>2, <1>3

-----------------------------------------------------------------------------
(* Each direction implements PrefixStream, whatever is repeated: a read takes  *)
(* fragments that follow each other, and starts at a byte no later than the    *)
(* next one.                                                                   *)

(* What a step does to one direction: nothing, a write, or a read, which adds  *)
(* a run to what was handed over.                                              *)
LEMMA DirectionStep ==
    ASSUME TypeOK, Positions, Next, NEW e \in Ends
    PROVE  \/ UNCHANGED <<written[Peer(e)], delivered[e]>>
           \/ written'[Peer(e)] > written[Peer(e)] /\ delivered'[e] = delivered[e]
           \/ /\ written'[Peer(e)] = written[Peer(e)]
              /\ \E run \in Seq(Fragments) :
                    /\ Len(run) > 0
                    /\ delivered'[e] = delivered[e] \o run
                    /\ Prefix(run, written[Peer(e)])
<1>1. CASE ReadData(e)
  <2>1. Present(e) /\ UNCHANGED written
    BY <1>1 DEF ReadData
  <2>2. PICK p \in StableOrders(table[e].buffer), max_len \in ReadSizes,
             k \in DOMAIN table[e].buffer :
           LET frags == Arranged(table[e].buffer, p)
           IN  /\ Takes(frags, max_len, k)
               /\ delivered' = [delivered EXCEPT ![e] = delivered[e] \o SubSeq(frags, 1, k)]
    BY <1>1 DEF ReadData
  <2> DEFINE frags == Arranged(table[e].buffer, p)
             took  == SubSeq(frags, 1, k)
  <2>3. table[e].buffer \in Seq(Placed(e)) /\ Placed(e) \subseteq Fragments
    BY <2>1 DEF Positions, Placed
  <2>4. frags \in Seq(Placed(e)) /\ k \in 1 .. Len(frags)
    BY <2>3, ArrangedType
  <2>5. /\ took \in Seq(Placed(e)) /\ Len(took) = k
        /\ \A i \in 1 .. k : took[i] = frags[i]
    BY <2>3, Splits
  <2>6. Takes(frags, max_len, k) /\ max_len \in Nat
    BY <2>2, SizeAssumption
  <2>7. delivered'[e] = delivered[e] \o took
    BY <2>2 DEF TypeOK
  <2> HIDE DEF frags, took
  <2>8. took \in Seq(Fragments)
    BY <2>3, <2>5, SeqMonotonic
  <2>9. Prefix(took, written[Peer(e)])
    BY <2>4, <2>5, <2>6, PlacedPrefix
  <2>10. Len(took) > 0
    BY <2>4, <2>5
  <2> QED
    BY <2>1, <2>7, <2>8, <2>9, <2>10
<1>2. CASE Write(Peer(e)) /\ Peer(e) \in Writers
  <2>1. Peer(e) \in Ends /\ Peer(e) # e
    BY Peers
  <2>2. PICK n \in Lens : written' = [written EXCEPT ![Peer(e)] = written[Peer(e)] + n]
    BY <1>2 DEF Write
  <2>3. n \in Nat \ {0} /\ written[Peer(e)] \in Nat
    BY <2>1, <2>2, SizeAssumption DEF TypeOK
  <2>4. written'[Peer(e)] = written[Peer(e)] + n
    BY <2>1, <2>2 DEF TypeOK
  <2> QED
    BY <1>2, <2>3, <2>4 DEF Write
<1>3. CASE ~ReadData(e) /\ ~(Write(Peer(e)) /\ Peer(e) \in Writers)
  <2>1. Peer(e) \in Ends /\ Peer(e) # e
    BY Peers
  <2>2. delivered'[e] = delivered[e]
    BY <1>3 DEF Next, Open, Write, ReadData, ReadNothing, CloseWriteSide, Shutdown,
                Grant, Deliver, TypeOK
  <2>3. written'[Peer(e)] = written[Peer(e)]
    BY <1>3, <2>1, EndsAssumption
       DEF Next, Open, Write, ReadData, ReadNothing, CloseWriteSide, Shutdown,
           Grant, Deliver, TypeOK
  <2> QED
    BY <2>2, <2>3
<1> QED
  BY <1>1, <1>2, <1>3

(* The sequence a read leaves ends with what it took. *)
LEMMA Suffix ==
    ASSUME NEW S, NEW s \in Seq(S), NEW r \in Seq(S)
    PROVE  SubSeq(s \o r, Len(s) + 1, Len(s \o r)) = r
<1> DEFINE q == s \o r
<1>1. /\ q \in Seq(S) /\ Len(q) = Len(s) + Len(r)
      /\ \A i \in 1 .. Len(r) : q[Len(s) + i] = r[i]
  OBVIOUS
<1> HIDE DEF q
<1> DEFINE u == SubSeq(q, Len(s) + 1, Len(q))
<1>2. u \in Seq(S) /\ Len(u) = Len(r) /\ \A i \in 1 .. Len(r) : u[i] = r[i]
  BY <1>1
<1> HIDE DEF u
<1>3. u = r
  BY <1>2, SeqEqual
<1> QED
  BY <1>3 DEF u, q

(* A run that starts at the first byte is one PrefixStream allows. *)
LEMMA RunFacts ==
    ASSUME NEW run \in Seq(Fragments), Len(run) > 0, NEW n, Prefix(run, n)
    PROVE  /\ run # <<>> /\ run[1].from = 0
           /\ \A i \in 2 .. Len(run) : run[i].from = run[i - 1].from + run[i - 1].len
           /\ \A i \in DOMAIN run : run[i].from + run[i].len <= n
<1>1. DOMAIN run = 1 .. Len(run) /\ 1 \in DOMAIN run /\ run # <<>>
  OBVIOUS
<1>2. run[1].from = 0 /\ \A i \in DOMAIN run : run[i].from + run[i].len <= n
  BY <1>1 DEF Prefix
<1>3. \A i \in 2 .. Len(run) : run[i].from = run[i - 1].from + run[i - 1].len
  <2>1. \A i \in 2 .. Len(run) : i \in 1 .. Len(run) /\ i # 1
    OBVIOUS
  <2> QED
    BY <1>1, <2>1 DEF Prefix
<1> QED
  BY <1>1, <1>2, <1>3

(* No read has a hole, and none starts past what was handed over before, with   *)
(* frames reordered, lost and repeated (Stream::read, receive_data).            *)
THEOREM ReadsInOrderHolds ==
    ASSUME MaxBytes <= OffsetSpace
    PROVE  Spec => ReadsInOrder
<1>1. Init => AtAcceptor!Init /\ AtOpener!Init
  BY DEF Init, AtAcceptor!Init, AtOpener!Init, Ends
<1>2. TypeOK /\ Positions /\ [Next]_vars
         => [AtAcceptor!Next]_<<written["opener"], delivered["acceptor"]>>
  <2> SUFFICES ASSUME TypeOK, Positions, Next,
                      ~UNCHANGED <<written["opener"], delivered["acceptor"]>>
               PROVE  AtAcceptor!Next
    BY DEF vars
  <2>1. "acceptor" \in Ends /\ Peer("acceptor") = "opener"
    BY DEF Ends, Peer
  <2>2. \/ /\ written'["opener"] > written["opener"]
           /\ delivered'["acceptor"] = delivered["acceptor"]
        \/ /\ written'["opener"] = written["opener"]
           /\ \E run \in Seq(Fragments) :
                 /\ Len(run) > 0
                 /\ delivered'["acceptor"] = delivered["acceptor"] \o run
                 /\ Prefix(run, written["opener"])
    BY <2>1, DirectionStep
  <2>3. ASSUME NEW run \in Seq(Fragments), Len(run) > 0,
               delivered'["acceptor"] = delivered["acceptor"] \o run,
               Prefix(run, written["opener"]),
               written'["opener"] = written["opener"]
        PROVE  AtAcceptor!Deliver
    <3> DEFINE new == SubSeq(delivered'["acceptor"], Len(delivered["acceptor"]) + 1,
                             Len(delivered'["acceptor"]))
    <3>1. delivered["acceptor"] \in Seq(Fragments)
      BY <2>1 DEF TypeOK
    <3>2. new = run
      BY <2>3, <3>1, Suffix
    <3>3. /\ run # <<>> /\ run[1].from = 0
          /\ \A i \in 2 .. Len(run) : run[i].from = run[i - 1].from + run[i - 1].len
          /\ \A i \in DOMAIN run : run[i].from + run[i].len <= written["opener"]
      BY <2>3, RunFacts
    <3> HIDE DEF new
    <3>4. /\ new # <<>> /\ delivered'["acceptor"] = delivered["acceptor"] \o new
          /\ AtAcceptor!Consecutive(new) /\ AtAcceptor!Within(new, written["opener"])
          /\ AtAcceptor!Reaches(delivered["acceptor"], new[1].from)
      BY <2>3, <3>2, <3>3 DEF AtAcceptor!Consecutive, AtAcceptor!Within, AtAcceptor!Reaches
    <3> QED
      BY <2>3, <3>4 DEF AtAcceptor!Deliver, new
  <2> QED
    BY <2>2, <2>3 DEF AtAcceptor!Next, AtAcceptor!Write
<1>3. TypeOK /\ Positions /\ [Next]_vars
         => [AtOpener!Next]_<<written["acceptor"], delivered["opener"]>>
  <2> SUFFICES ASSUME TypeOK, Positions, Next,
                      ~UNCHANGED <<written["acceptor"], delivered["opener"]>>
               PROVE  AtOpener!Next
    BY DEF vars
  <2>1. "opener" \in Ends /\ Peer("opener") = "acceptor"
    BY DEF Ends, Peer
  <2>2. \/ /\ written'["acceptor"] > written["acceptor"]
           /\ delivered'["opener"] = delivered["opener"]
        \/ /\ written'["acceptor"] = written["acceptor"]
           /\ \E run \in Seq(Fragments) :
                 /\ Len(run) > 0
                 /\ delivered'["opener"] = delivered["opener"] \o run
                 /\ Prefix(run, written["acceptor"])
    BY <2>1, DirectionStep
  <2>3. ASSUME NEW run \in Seq(Fragments), Len(run) > 0,
               delivered'["opener"] = delivered["opener"] \o run,
               Prefix(run, written["acceptor"]),
               written'["acceptor"] = written["acceptor"]
        PROVE  AtOpener!Deliver
    <3> DEFINE new == SubSeq(delivered'["opener"], Len(delivered["opener"]) + 1,
                             Len(delivered'["opener"]))
    <3>1. delivered["opener"] \in Seq(Fragments)
      BY <2>1 DEF TypeOK
    <3>2. new = run
      BY <2>3, <3>1, Suffix
    <3>3. /\ run # <<>> /\ run[1].from = 0
          /\ \A i \in 2 .. Len(run) : run[i].from = run[i - 1].from + run[i - 1].len
          /\ \A i \in DOMAIN run : run[i].from + run[i].len <= written["acceptor"]
      BY <2>3, RunFacts
    <3> HIDE DEF new
    <3>4. /\ new # <<>> /\ delivered'["opener"] = delivered["opener"] \o new
          /\ AtOpener!Consecutive(new) /\ AtOpener!Within(new, written["acceptor"])
          /\ AtOpener!Reaches(delivered["opener"], new[1].from)
      BY <2>3, <3>2, <3>3 DEF AtOpener!Consecutive, AtOpener!Within, AtOpener!Reaches
    <3> QED
      BY <2>3, <3>4 DEF AtOpener!Deliver, new
  <2> QED
    BY <2>2, <2>3 DEF AtOpener!Next, AtOpener!Write
<1> QED
  BY <1>1, <1>2, <1>3, StreamTypeCorrect, PositionsHold, PTL
     DEF Spec, ReadsInOrder, AtAcceptor!Spec, AtOpener!Spec
=============================================================================
