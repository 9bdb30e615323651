-------------------------- MODULE StreamManagerProofs --------------------------
(***************************************************************************)
(* Proofs about StreamManager, for any limits, windows and bounds.         *)
(*                                                                         *)
(* The ids of the two sides never meet: a counter keeps its parity, also   *)
(* when it wraps, because it wraps at an even number. NoWrap is needed for *)
(* what one side issues only: that no id is issued twice.                  *)
(***************************************************************************)
EXTENDS StreamManager, FiniteSetTheorems, TLAPS

\* No counter runs through all its values: 2^31 calls of open_stream on one side.
NoWrap == \A s \in Sides : FirstId(s) + 2 * MaxCalls[s] < IdSpace

\* Where a counter stands, and what it has issued, as far as parity goes.
Parity ==
    \A s \in Sides :
        /\ next_id[s] < IdSpace
        /\ next_id[s] % 2 = FirstId(s) % 2
        /\ \A id \in issued[s] : id % 2 = FirstId(s) % 2

\* The same exactly, as long as no counter wraps.
Counters ==
    \A s \in Sides :
        /\ calls[s] <= MaxCalls[s]
        /\ next_id[s] = FirstId(s) + 2 * calls[s]
        /\ \A id \in issued[s] : \E k \in Nat : k < calls[s] /\ id = FirstId(s) + 2 * k

\* Every id in a table or in a StreamOpen frame was issued.
Known ==
    /\ \A s \in Sides : \A id \in Ids(s) : id \in issued["client"] \cup issued["server"]
    /\ \A m \in net : m.kind = "StreamOpen" => m.id \in issued[Other(m.to)]

Tables == \A s \in Sides : IsFiniteSet(Ids(s))

IInv == TypeOK /\ Parity /\ Known /\ Tables /\ OwnWithinLimit

-----------------------------------------------------------------------------
(* Facts about the operators. *)

LEMMA SidesFacts ==
    /\ Sides = {"client", "server"}
    /\ \A s \in Sides : Other(s) \in Sides /\ Other(s) # s /\ Other(Other(s)) = s
    /\ FirstId("client") = 2 /\ FirstId("server") = 1
    /\ \A s \in Sides : FirstId(s) \in 1 .. 2
BY DEF Sides, Other, FirstId

\* The parity of the counters keeps the two sides apart.
LEMMA Apart ==
    ASSUME Parity
    PROVE  issued["client"] \cap issued["server"] = {}
<1> SUFFICES ASSUME NEW id \in issued["client"], id \in issued["server"]
             PROVE  FALSE
    OBVIOUS
<1>1. id % 2 = 2 % 2
    BY SidesFacts DEF Parity
<1>2. id % 2 = 1 % 2
    BY SidesFacts DEF Parity
<1>3. QED
    BY <1>1, <1>2

\* The id a counter stands at was issued by no side.
LEMMA Fresh ==
    ASSUME TypeOK, Counters, NEW s \in Sides
    PROVE  next_id[s] \notin issued["client"] \cup issued["server"]
<1>1. /\ calls[s] \in Nat /\ next_id[s] = FirstId(s) + 2 * calls[s]
      /\ FirstId("client") = 2 /\ FirstId("server") = 1
      /\ s = "client" \/ s = "server"
    BY SidesFacts DEF TypeOK, Counters
<1>2. ASSUME NEW r \in Sides, next_id[s] \in issued[r] PROVE FALSE
    <2>1. PICK k \in Nat : k < calls[r] /\ next_id[s] = FirstId(r) + 2 * k
        BY <1>2 DEF Counters
    <2>2. CASE r = s
        BY <1>1, <2>1, <2>2
    <2>3. CASE r # s
        <3>1. (r = "client" /\ s = "server") \/ (r = "server" /\ s = "client")
            <4>1. (r = "client" \/ r = "server") /\ (s = "client" \/ s = "server")
                BY SidesFacts
            <4>2. QED
                BY <2>3, <4>1
        <3>2. QED
            BY <1>1, <2>1, <3>1
    <2>4. QED
        BY <2>2, <2>3
<1>3. QED
    BY <1>2, SidesFacts

LEMMA EntryFacts ==
    ASSUME NEW e \in Entries
    PROVE  /\ CloseWrite(e) \in Entries
           /\ CloseRead(e) \in Entries
           /\ NewEntry \in Entries
<1>1. /\ e.state \in StreamStates
      /\ WriteClosed[e.state] \in StreamStates /\ ReadClosed[e.state] \in StreamStates
    BY DEF Entries, StreamStates, WriteClosed, ReadClosed
<1>2. CloseWrite(e) \in Entries
    BY <1>1 DEF CloseWrite, Entries
<1>3. CloseRead(e) \in Entries
    BY <1>1 DEF CloseRead, Entries
<1>4. NewEntry \in Entries
    BY DEF NewEntry, Entries, StreamStates
<1>5. QED
    BY <1>2, <1>3, <1>4

\* What a table holds after an update of one entry.
LEMMA KeepFacts ==
    ASSUME NEW table, NEW id \in DOMAIN table, NEW e \in Entries,
           \A i \in DOMAIN table : table[i] \in Entries
    PROVE  LET new == KeepUnlessClosed(table, id, e)
           IN  /\ DOMAIN new \subseteq DOMAIN table
               /\ \A i \in DOMAIN new : new[i] \in Entries
<1>1. CASE IsClosed(e)
    BY <1>1 DEF KeepUnlessClosed, Remove
<1>2. CASE ~IsClosed(e)
    BY <1>2 DEF KeepUnlessClosed, Insert
<1>3. QED
    BY <1>1, <1>2

-----------------------------------------------------------------------------
(* The steps. *)

LEMMA InitIInv == Init => IInv
<1> SUFFICES ASSUME Init PROVE IInv
    OBVIOUS
<1>1. \A s \in Sides : Ids(s) = {}
    BY DEF Init, Ids
<1>3. TypeOK
    BY <1>1, LimitAssumption DEF Init, TypeOK, FirstId
<1>4. Parity
    BY IdAssumption DEF Init, Parity, FirstId
<1>5. Known /\ Tables
    BY <1>1, FS_EmptySet DEF Init, Known, Tables
<1>6. OwnWithinLimit
    <2>1. \A s \in Sides : Ids(s) \cap issued[s] = {}
        BY <1>1
    <2>2. Cardinality({}) = 0
        BY FS_EmptySet
    <2>3. QED
        <3>1. \A s \in Sides : MaxStreams[s] \in Nat
            BY LimitAssumption
        <3>2. \A s \in Sides : 0 <= MaxStreams[s]
            BY <3>1
        <3>3. QED
            BY <2>1, <2>2, <3>2 DEF OwnWithinLimit
<1>7. QED
    BY <1>3, <1>4, <1>5, <1>6 DEF IInv

LEMMA TypeFacts ==
    ASSUME IInv
    PROVE  /\ DOMAIN streams = Sides
           /\ \A s \in Sides : \A id \in DOMAIN streams[s] : streams[s][id] \in Entries
           /\ conn_sent \in [Sides -> Nat] /\ conn_window \in [Sides -> Nat]
           /\ repeats \in Nat
BY DEF IInv, TypeOK, Ids

\* A step that draws no id and adds no entry.
Quiet ==
    /\ DOMAIN streams' = Sides
    /\ \A s \in Sides : DOMAIN streams'[s] \subseteq DOMAIN streams[s]
    /\ \A s \in Sides : \A id \in DOMAIN streams'[s] : streams'[s][id] \in Entries
    /\ next_id' = next_id /\ calls' = calls /\ issued' = issued
    /\ conn_sent' \in [Sides -> Nat] /\ conn_window' \in [Sides -> Nat]
    /\ \A m \in net' : m \in net \/ (m \in Frames /\ m.kind = "StreamClose")
    /\ repeats' \in Nat

LEMMA QuietStep ==
    ASSUME IInv, Quiet
    PROVE  IInv'
<1> USE DEF IInv, Quiet
<1>1. TypeOK'
    <2>1. net' \subseteq Frames
        BY DEF TypeOK
    <2>2. \A s \in Sides : DOMAIN streams'[s] \subseteq Nat
        BY DEF TypeOK, Ids
    <2>3. QED
        BY <2>1, <2>2 DEF TypeOK, Ids
<1>2. Parity'
    BY DEF Parity
<1>3. Known'
    BY DEF Known, Ids
<1>4. Tables'
    BY FS_Subset DEF Tables, Ids
<1>5. OwnWithinLimit'
    <2> SUFFICES ASSUME NEW s \in Sides
                 PROVE  Cardinality(DOMAIN streams'[s] \cap issued[s]) <= MaxStreams[s]
        BY DEF OwnWithinLimit, Ids
    <2> DEFINE own == DOMAIN streams[s] \cap issued[s]
               new == DOMAIN streams'[s] \cap issued[s]
    <2>1. IsFiniteSet(own) /\ new \subseteq own
        BY FS_Subset DEF Tables, Ids
    <2>2. Cardinality(own) <= MaxStreams[s] /\ MaxStreams[s] \in Nat
        BY LimitAssumption DEF OwnWithinLimit, Ids
    <2> HIDE DEF own, new
    <2>3. Cardinality(new) \in Nat /\ Cardinality(own) \in Nat
          /\ Cardinality(new) <= Cardinality(own)
        BY <2>1, FS_Subset, FS_CardinalityType
    <2>4. Cardinality(new) <= MaxStreams[s]
        BY <2>2, <2>3
    <2>5. QED
        BY <2>4 DEF new
<1>6. QED
    BY <1>1, <1>2, <1>3, <1>4, <1>5

\* A counter that wraps at an even number keeps its parity.
LEMMA KeepsParity ==
    ASSUME NEW n \in Nat, n < IdSpace
    PROVE  /\ (n + 2) % IdSpace \in Nat /\ (n + 2) % IdSpace < IdSpace
           /\ ((n + 2) % IdSpace) % 2 = n % 2
<1>1. IdSpace \in Nat /\ IdSpace > 2 /\ IdSpace % 2 = 0
    BY IdAssumption
<1>2. CASE n + 2 < IdSpace
    <2>1. (n + 2) % IdSpace = n + 2
        <3>1. n + 2 \in 0 .. IdSpace - 1
            BY <1>1, <1>2
        <3>2. \A m \in Nat : \A i \in 0 .. m - 1 : i % m = i
            OBVIOUS
        <3>3. QED
            BY <1>1, <3>1, <3>2
    <2>2. (n + 2) % 2 = n % 2
        OBVIOUS
    <2>3. QED
        BY <1>2, <2>1, <2>2
<1>3. CASE n + 2 >= IdSpace
    <2> DEFINE r == n + 2 - IdSpace
    <2>1. r \in 0 .. 1 /\ n + 2 = r + IdSpace /\ r < IdSpace
        BY <1>1, <1>3
    <2>2. (r + IdSpace) % IdSpace = r
        <3>1. \A m \in Nat : \A i \in 0 .. m - 1 : (i + m) % m = i
            OBVIOUS
        <3>2. QED
            BY <1>1, <2>1, <3>1
    <2>3. r % 2 = n % 2
        BY <1>1
    <2> HIDE DEF r
    <2>4. QED
        BY <2>1, <2>2, <2>3
<1>4. QED
    BY <1>1, <1>2, <1>3

LEMMA OpenStreamStep ==
    ASSUME IInv, NEW s \in Sides, OpenStream(s)
    PROVE  IInv'
<1> USE DEF IInv
<1> DEFINE id == next_id[s]
<1>1. /\ id \in Nat /\ id < IdSpace /\ id % 2 = FirstId(s) % 2
      /\ next_id' = [next_id EXCEPT ![s] = (id + 2) % IdSpace]
    BY DEF OpenStream, TypeOK, Parity
<1>2. /\ (id + 2) % IdSpace \in Nat /\ (id + 2) % IdSpace < IdSpace
      /\ ((id + 2) % IdSpace) % 2 = FirstId(s) % 2
    <2> HIDE DEF id
    <2>1. /\ (id + 2) % IdSpace \in Nat /\ (id + 2) % IdSpace < IdSpace
          /\ ((id + 2) % IdSpace) % 2 = id % 2
        BY <1>1, KeepsParity
    <2>2. QED
        BY <1>1, <2>1
<1>3. /\ next_id' \in [Sides -> Nat] /\ next_id'[s] = (id + 2) % IdSpace
      /\ \A r \in Sides \ {s} : next_id'[r] = next_id[r]
    BY <1>1, <1>2 DEF TypeOK
<1>4. calls' \in [Sides -> Nat]
    BY DEF OpenStream, TypeOK
<1>5. UNCHANGED <<conn_sent, conn_window, repeats>>
    BY DEF OpenStream
<1> HIDE DEF id
<1>7. CASE ExhaustedOpen(s)
    <2>1. UNCHANGED <<streams, issued, net>>
        BY <1>7 DEF ExhaustedOpen
    <2>2. TypeOK'
        BY <1>3, <1>4, <1>5, <2>1 DEF TypeOK, Ids
    <2>3. Parity'
        BY <1>2, <1>3, <2>1 DEF Parity
    <2>4. Known' /\ Tables' /\ OwnWithinLimit'
        BY <2>1 DEF Known, Tables, OwnWithinLimit, Ids
    <2>5. QED
        BY <2>2, <2>3, <2>4
<1>8. CASE SuccessfulOpen(s)
    <2>1. /\ Cardinality(Ids(s)) < MaxStreams[s] /\ MaxStreams[s] \in Nat
          /\ streams' = [streams EXCEPT ![s] = Insert(@, id, NewEntry)]
          /\ issued' = [issued EXCEPT ![s] = @ \cup {id}]
          /\ net' = net \cup {OpenFrame(Other(s), id)}
        BY <1>8, LimitAssumption DEF SuccessfulOpen, id
    <2>2. /\ DOMAIN streams' = Sides
          /\ DOMAIN streams'[s] = DOMAIN streams[s] \cup {id}
          /\ \A r \in Sides \ {s} : streams'[r] = streams[r]
          /\ \A i \in DOMAIN streams[s] \cup {id} :
                streams'[s][i] = IF i = id THEN NewEntry ELSE streams[s][i]
        BY <2>1 DEF TypeOK, Insert
    <2>3. /\ issued' \in [Sides -> SUBSET Nat] /\ issued'[s] = issued[s] \cup {id}
          /\ \A r \in Sides \ {s} : issued'[r] = issued[r]
        BY <1>1, <2>1 DEF TypeOK
    <2>4. OpenFrame(Other(s), id) \in Frames
        BY <1>1, SidesFacts DEF OpenFrame, Frames
    <2>5. NewEntry \in Entries
        BY DEF NewEntry, Entries, StreamStates
    <2>6. TypeOK'
        BY <1>1, <1>3, <1>4, <1>5, <2>1, <2>2, <2>3, <2>4, <2>5 DEF TypeOK, Ids
    <2>7. Parity'
        BY <1>1, <1>2, <1>3, <2>3 DEF Parity
    <2>8. Known'
        <3>1. \A r \in Sides : issued[r] \subseteq issued'[r]
            BY <2>3
        <3>2. \A r \in Sides : \A i \in DOMAIN streams'[r] :
                  i \in issued'["client"] \cup issued'["server"]
            BY <2>2, <2>3, <3>1, SidesFacts DEF Known, Ids
        <3>3. \A m \in net' : m.kind = "StreamOpen" => m.id \in issued'[Other(m.to)]
            <4>1. \A m \in net : m.to \in Sides
                BY DEF TypeOK, Frames
            <4>2. \A m \in net : m.kind = "StreamOpen" => m.id \in issued'[Other(m.to)]
                BY <3>1, <4>1, SidesFacts DEF Known
            <4>3. OpenFrame(Other(s), id).id = id /\ OpenFrame(Other(s), id).to = Other(s)
                BY DEF OpenFrame
            <4>4. QED
                BY <2>1, <2>3, <4>2, <4>3, SidesFacts
        <3>4. QED
            BY <3>2, <3>3 DEF Known, Ids
    <2>9. Tables'
        <3>1. IsFiniteSet(DOMAIN streams'[s])
            BY <2>2, FS_AddElement DEF Tables, Ids
        <3>2. QED
            BY <2>2, <3>1 DEF Tables, Ids
    <2>10. OwnWithinLimit'
        <3> DEFINE new == DOMAIN streams'[s] \cap issued'[s]
                   old == DOMAIN streams[s]
        <3>1. IsFiniteSet(old) /\ Cardinality(old) < MaxStreams[s]
            BY <2>1 DEF Tables, Ids
        <3>2. new \subseteq old \cup {id}
            BY <2>2
        <3> HIDE DEF new, old
        <3>3. /\ IsFiniteSet(old \cup {id}) /\ Cardinality(old) \in Nat
              /\ Cardinality(old \cup {id}) <= Cardinality(old) + 1
            <4>1. Cardinality(old) \in Nat
                BY <3>1, FS_CardinalityType
            <4>2. /\ IsFiniteSet(old \cup {id})
                  /\ \/ Cardinality(old \cup {id}) = Cardinality(old)
                     \/ Cardinality(old \cup {id}) = Cardinality(old) + 1
                BY <3>1, FS_AddElement
            <4>3. QED
                BY <4>1, <4>2
        <3>4. /\ Cardinality(new) <= Cardinality(old \cup {id})
              /\ Cardinality(new) \in Nat /\ Cardinality(old \cup {id}) \in Nat
            BY <3>2, <3>3, FS_Subset, FS_CardinalityType
        <3>5. Cardinality(new) <= MaxStreams[s]
            BY <2>1, <3>1, <3>3, <3>4
        <3>6. \A r \in Sides \ {s} :
                  Cardinality(DOMAIN streams'[r] \cap issued'[r]) <= MaxStreams[r]
            BY <2>2, <2>3 DEF OwnWithinLimit, Ids
        <3>7. QED
            BY <3>5, <3>6 DEF OwnWithinLimit, Ids, new
    <2>11. QED
        BY <2>6, <2>7, <2>8, <2>9, <2>10
<1>9. QED
    BY <1>7, <1>8 DEF OpenStream

LEMMA ReserveStep ==
    ASSUME IInv, NEW s \in Sides, NEW len \in 1 .. MaxReserved[s],
           ReserveConnectionSend(s, len)
    PROVE  IInv'
<1>1. len \in Nat
    BY LimitAssumption
<1>2. conn_sent' \in [Sides -> Nat]
    BY <1>1 DEF ReserveConnectionSend, IInv, TypeOK
<1>3. UNCHANGED <<streams, next_id, calls, issued, conn_window, net, repeats>>
    BY DEF ReserveConnectionSend
<1>4. Quiet
    BY <1>2, <1>3, TypeFacts DEF Quiet
<1>5. QED
    BY <1>4, QuietStep

LEMMA UpdateStep ==
    ASSUME IInv, NEW s \in Sides, NEW w \in ConnectionWindows, UpdateConnectionWindow(s, w)
    PROVE  IInv'
<1>1. conn_window' \in [Sides -> Nat]
    BY LimitAssumption DEF UpdateConnectionWindow, IInv, TypeOK, Greater
<1>2. UNCHANGED <<streams, next_id, calls, issued, conn_sent, net, repeats>>
    BY DEF UpdateConnectionWindow
<1>3. Quiet
    BY <1>1, <1>2, TypeFacts DEF Quiet
<1>4. QED
    BY <1>3, QuietStep

LEMMA FinishStep ==
    ASSUME IInv, NEW s \in Sides, NEW id \in Ids(s), FinishWriting(s, id)
    PROVE  IInv'
<1>1. streams[s][id] \in Entries /\ DOMAIN streams = Sides /\ id \in Nat
    BY DEF IInv, TypeOK
<1>2. CloseWrite(streams[s][id]) \in Entries
    BY <1>1, EntryFacts
<1>3. streams' = [streams EXCEPT ![s] = [@ EXCEPT ![id] = CloseWrite(streams[s][id])]]
    BY <1>1 DEF FinishWriting, Ids
<1>4. /\ DOMAIN streams' = Sides
      /\ \A r \in Sides : DOMAIN streams'[r] = DOMAIN streams[r]
      /\ \A r \in Sides : \A i \in DOMAIN streams'[r] : streams'[r][i] \in Entries
    BY <1>1, <1>2, <1>3 DEF IInv, TypeOK, Ids
<1>5. CloseFrame(Other(s), id) \in Frames /\ CloseFrame(Other(s), id).kind = "StreamClose"
    BY <1>1, SidesFacts DEF CloseFrame, Frames
<1>6. /\ UNCHANGED <<next_id, calls, issued, conn_sent, conn_window, repeats>>
      /\ net' = net \cup {CloseFrame(Other(s), id)}
    BY DEF FinishWriting
<1>7. Quiet
    BY <1>4, <1>5, <1>6, TypeFacts DEF Quiet
<1>8. QED
    BY <1>7, QuietStep

LEMMA ShutdownStep ==
    ASSUME IInv, NEW s \in Sides, NEW id \in Ids(s), ShutdownStream(s, id)
    PROVE  IInv'
<1> DEFINE table == streams[s]
           e     == CloseRead(CloseWrite(table[id]))
           new   == KeepUnlessClosed(table, id, e)
<1>1. /\ \A i \in DOMAIN table : table[i] \in Entries
      /\ DOMAIN streams = Sides /\ id \in Nat /\ id \in DOMAIN table
    BY DEF IInv, TypeOK, Ids
<1>2. e \in Entries
    BY <1>1, EntryFacts
<1>3. streams' = [streams EXCEPT ![s] = new]
    BY <1>1 DEF ShutdownStream
<1> HIDE DEF e, new
<1>4. DOMAIN new \subseteq DOMAIN table /\ \A i \in DOMAIN new : new[i] \in Entries
    BY <1>1, <1>2, KeepFacts DEF new
<1>5. /\ DOMAIN streams' = Sides
      /\ \A r \in Sides : DOMAIN streams'[r] \subseteq DOMAIN streams[r]
      /\ \A r \in Sides : \A i \in DOMAIN streams'[r] : streams'[r][i] \in Entries
    BY <1>1, <1>3, <1>4 DEF IInv, TypeOK, Ids
<1>6. CloseFrame(Other(s), id) \in Frames /\ CloseFrame(Other(s), id).kind = "StreamClose"
    BY <1>1, SidesFacts DEF CloseFrame, Frames
<1>7. /\ UNCHANGED <<next_id, calls, issued, conn_sent, conn_window, repeats>>
      /\ net' = net \cup {CloseFrame(Other(s), id)}
    BY DEF ShutdownStream
<1>8. Quiet
    BY <1>5, <1>6, <1>7, TypeFacts DEF Quiet
<1>9. QED
    BY <1>8, QuietStep

\* What the delivery of a frame does to the network.
LEMMA ArrivesFacts ==
    ASSUME IInv, NEW m \in net, Arrives(m)
    PROVE  /\ \A f \in net' : f \in net
           /\ repeats' \in Nat
BY DEF Arrives, IInv, TypeOK

LEMMA CloseStreamStep ==
    ASSUME IInv, NEW m \in net, Arrives(m), CloseStream(m.to, m.id),
           UNCHANGED <<next_id, calls, issued, conn_sent, conn_window>>
    PROVE  IInv'
<1> DEFINE s     == m.to
           id    == m.id
           table == streams[s]
           e     == CloseRead(table[id])
           new   == KeepUnlessClosed(table, id, e)
<1>1. s \in Sides /\ id \in Ids(s)
    BY DEF CloseStream, IInv, TypeOK, Frames
<1>2. streams' = [streams EXCEPT ![s] = new]
    <2>1. streams' = [streams EXCEPT ![s] = KeepUnlessClosed(@, id, CloseRead(@[id]))]
        BY DEF CloseStream
    <2>2. DOMAIN streams = Sides
        BY DEF IInv, TypeOK
    <2>3. QED
        BY <1>1, <2>1, <2>2
<1> HIDE DEF s, id
<1>3. /\ \A i \in DOMAIN table : table[i] \in Entries
      /\ DOMAIN streams = Sides /\ id \in DOMAIN table
    BY <1>1 DEF IInv, TypeOK, Ids
<1>4. e \in Entries
    BY <1>3, EntryFacts
<1> HIDE DEF e, new
<1>5. DOMAIN new \subseteq DOMAIN table /\ \A i \in DOMAIN new : new[i] \in Entries
    BY <1>3, <1>4, KeepFacts DEF new
<1>6. /\ DOMAIN streams' = Sides
      /\ \A r \in Sides : DOMAIN streams'[r] \subseteq DOMAIN streams[r]
      /\ \A r \in Sides : \A i \in DOMAIN streams'[r] : streams'[r][i] \in Entries
    BY <1>1, <1>2, <1>3, <1>5 DEF IInv, TypeOK, Ids
<1>7. (\A f \in net' : f \in net) /\ repeats' \in Nat
    BY ArrivesFacts
<1>8. Quiet
    BY <1>6, <1>7, TypeFacts DEF Quiet
<1>9. QED
    BY <1>8, QuietStep

LEMMA AcceptStep ==
    ASSUME IInv, NEW m \in net, Arrives(m), m.kind = "StreamOpen", AcceptStream(m.to, m.id),
           UNCHANGED <<next_id, calls, issued, conn_sent, conn_window>>
    PROVE  IInv'
<1> USE DEF IInv
<1> DEFINE s  == m.to
           id == m.id
<1>1. /\ s \in Sides /\ id \in Nat /\ id \notin DOMAIN streams[s]
      /\ streams' = [streams EXCEPT ![s] = Insert(@, id, NewEntry)]
    BY DEF AcceptStream, TypeOK, Frames, Ids
<1>2. id \in issued[Other(s)] /\ Other(s) \in Sides /\ Other(s) # s
    BY <1>1, SidesFacts DEF Known
<1>3. (\A f \in net' : f \in net) /\ repeats' \in Nat
    BY ArrivesFacts
<1> HIDE DEF s, id
<1>4. /\ DOMAIN streams' = Sides
      /\ DOMAIN streams'[s] = DOMAIN streams[s] \cup {id}
      /\ \A r \in Sides \ {s} : streams'[r] = streams[r]
      /\ \A i \in DOMAIN streams[s] \cup {id} :
            streams'[s][i] = IF i = id THEN NewEntry ELSE streams[s][i]
    BY <1>1 DEF TypeOK, Insert
<1>5. NewEntry \in Entries
    BY DEF NewEntry, Entries, StreamStates
<1>6. TypeOK'
    BY <1>1, <1>3, <1>4, <1>5 DEF TypeOK, Ids
<1>7. Parity'
    BY DEF Parity
<1>8. Known'
    BY <1>2, <1>3, <1>4, SidesFacts DEF Known, Ids
<1>9. Tables'
    <2>1. IsFiniteSet(DOMAIN streams'[s])
        BY <1>1, <1>4, FS_AddElement DEF Tables, Ids
    <2>2. QED
        BY <1>4, <2>1 DEF Tables, Ids
<1>10. OwnWithinLimit'
    <2>1. id \notin issued[s]
        BY <1>1, <1>2, Apart, SidesFacts
    <2>2. \A r \in Sides : DOMAIN streams'[r] \cap issued[r] = DOMAIN streams[r] \cap issued[r]
        BY <1>4, <2>1
    <2>3. QED
        BY <2>2 DEF OwnWithinLimit, Ids
<1>11. QED
    BY <1>6, <1>7, <1>8, <1>9, <1>10

LEMMA NextIInv ==
    IInv /\ [Next]_vars => IInv'
<1> SUFFICES ASSUME IInv, [Next]_vars PROVE IInv'
    OBVIOUS
<1>1. ASSUME NEW s \in Sides, OpenStream(s) PROVE IInv'
    BY <1>1, OpenStreamStep
<1>2. ASSUME NEW s \in Sides, NEW id \in Ids(s),
             FinishWriting(s, id) \/ ShutdownStream(s, id)
      PROVE  IInv'
    BY <1>2, FinishStep, ShutdownStep
<1>3. ASSUME NEW s \in Sides, NEW len \in 1 .. MaxReserved[s], ReserveConnectionSend(s, len)
      PROVE  IInv'
    BY <1>3, ReserveStep
<1>4. ASSUME NEW s \in Sides, NEW w \in ConnectionWindows, UpdateConnectionWindow(s, w)
      PROVE  IInv'
    BY <1>4, UpdateStep
<1>5. ASSUME NEW m \in net, Deliver(m) PROVE IInv'
    BY <1>5, AcceptStep, CloseStreamStep DEF Deliver
<1>6. CASE UNCHANGED vars
    <2>1. Quiet
        BY <1>6, TypeFacts DEF vars, Quiet
    <2>2. QED
        BY <2>1, QuietStep
<1>7. QED
    BY <1>1, <1>2, <1>3, <1>4, <1>5, <1>6 DEF Next

LEMMA SpecIInv == Spec => []IInv
BY InitIInv, NextIInv, PTL DEF Spec

-----------------------------------------------------------------------------
(* What one side issues, while no counter wraps. *)

LEMMA InitCounters == Init => Counters
BY LimitAssumption DEF Init, Counters, FirstId

LEMMA OpenStreamCounters ==
    ASSUME NoWrap, IInv, Counters, NEW s \in Sides, OpenStream(s)
    PROVE  Counters'
<1> USE DEF IInv
<1> DEFINE id == next_id[s]
<1>1. /\ calls[s] \in Nat /\ calls[s] < MaxCalls[s] /\ MaxCalls[s] \in Nat
      /\ id \in Nat /\ IdSpace \in Nat /\ FirstId(s) \in 1 .. 2
      /\ id = FirstId(s) + 2 * calls[s]
      /\ FirstId(s) + 2 * MaxCalls[s] < IdSpace
    BY IdAssumption, LimitAssumption, SidesFacts DEF OpenStream, TypeOK, Counters, NoWrap
<1>2. (id + 2) % IdSpace = id + 2
    <2>1. id + 2 \in 0 .. IdSpace - 1
        BY <1>1
    <2> HIDE DEF id
    <2>2. \A n \in Nat : \A i \in 0 .. n - 1 : i % n = i
        OBVIOUS
    <2>3. QED
        BY <1>1, <2>1, <2>2
<1>3. /\ next_id' \in [Sides -> Nat] /\ next_id'[s] = id + 2
      /\ \A r \in Sides \ {s} : next_id'[r] = next_id[r]
    BY <1>1, <1>2 DEF OpenStream, TypeOK
<1>4. /\ calls' \in [Sides -> Nat] /\ calls'[s] = calls[s] + 1
      /\ \A r \in Sides \ {s} : calls'[r] = calls[r]
    BY <1>1 DEF OpenStream, TypeOK
<1>5. \A i \in issued'[s] : i \in issued[s] \/ i = id
    BY DEF OpenStream, ExhaustedOpen, SuccessfulOpen, TypeOK
<1>6. \A r \in Sides \ {s} : issued'[r] = issued[r]
    BY DEF OpenStream, ExhaustedOpen, SuccessfulOpen, TypeOK
<1> HIDE DEF id
<1> SUFFICES ASSUME NEW r \in Sides
             PROVE  /\ calls'[r] <= MaxCalls[r]
                    /\ next_id'[r] = FirstId(r) + 2 * calls'[r]
                    /\ \A i \in issued'[r] :
                          \E k \in Nat : k < calls'[r] /\ i = FirstId(r) + 2 * k
    BY DEF Counters
<1>7. CASE r = s
    <2>1. \A i \in issued[s] : \E k \in Nat : k < calls[s] /\ i = FirstId(s) + 2 * k
        BY DEF Counters
    <2>2. \A i \in issued'[s] : \E k \in Nat : k < calls'[s] /\ i = FirstId(s) + 2 * k
        BY <1>1, <1>4, <1>5, <2>1
    <2>3. QED
        BY <1>1, <1>3, <1>4, <1>7, <2>2
<1>8. CASE r # s
    BY <1>3, <1>4, <1>6, <1>8 DEF Counters
<1>9. QED
    BY <1>7, <1>8

LEMMA NextCounters ==
    ASSUME NoWrap, IInv, Counters, [Next]_vars
    PROVE  Counters'
<1>1. CASE UNCHANGED <<next_id, calls, issued>>
    BY <1>1 DEF Counters
<1>2. ASSUME NEW s \in Sides, OpenStream(s) PROVE Counters'
    BY <1>2, OpenStreamCounters
<1>3. QED
    BY <1>1, <1>2 DEF Next, vars, ReserveConnectionSend, FinishWriting, ShutdownStream,
                      UpdateConnectionWindow, Deliver

LEMMA SpecCounters ==
    ASSUME NoWrap
    PROVE  Spec => [](IInv /\ Counters)
<1>1. Init => IInv /\ Counters
    BY InitIInv, InitCounters
<1>2. IInv /\ Counters /\ [Next]_vars => IInv' /\ Counters'
    BY NextIInv, NextCounters
<1>3. QED
    BY <1>1, <1>2, PTL DEF Spec

-----------------------------------------------------------------------------
(* The theorems. *)

\* The variables keep their types (StreamManager.tla, TypeOK).
THEOREM TypeCorrect == Spec => []TypeOK
<1>1. IInv => TypeOK
    BY DEF IInv
<1>2. QED
    BY <1>1, SpecIInv, PTL

\* The ids of the two sides stay apart (stream.rs: the parity of the counters),
\* whatever the network repeats or reorders.
THEOREM EachHasOneOpenerHolds == Spec => []EachHasOneOpener
<1>1. IInv => EachHasOneOpener
    BY Apart DEF IInv, Known, EachHasOneOpener
<1>2. QED
    BY <1>1, SpecIInv, PTL

\* The next id of open_stream is in no table and was issued by no side, until a
\* counter has run through all its values.
THEOREM NextIsFreshHolds ==
    ASSUME NoWrap
    PROVE  Spec => []NextIsFresh
<1>1. IInv /\ Counters => NextIsFresh
    BY Fresh DEF IInv, Known, NextIsFresh
<1>2. QED
    BY <1>1, SpecCounters, PTL

\* The streams a side opened itself stay within its max_streams.
THEOREM OwnWithinLimitHolds == Spec => []OwnWithinLimit
<1>1. IInv => OwnWithinLimit
    BY DEF IInv
<1>2. QED
    BY <1>1, SpecIInv, PTL
=============================================================================
