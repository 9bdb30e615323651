---------------------------- MODULE StreamManager ----------------------------
(***************************************************************************)
(* The stream tables of the two sides of a connection (StreamManager in    *)
(* aether-core/src/stream.rs): drawing stream ids, accepting the peer's    *)
(* streams, closing them, the limit on their number and the two counters   *)
(* of the connection's budget, which no code couples to a write.  What a   *)
(* single stream does with its data is StreamLink.tla; here an entry is    *)
(* its state.                                                              *)
(*                                                                         *)
(* StreamOpen and StreamClose frames travel over UDP: any of them may be   *)
(* delivered next, several times, or never.                                *)
(***************************************************************************)
EXTENDS Stream, FiniteSets

CONSTANTS
    MaxId,              \* MAX_STREAM_ID
    IdSpace,            \* the ids a u32 counter runs through: 2^32 in the code
    MaxStreams,         \* [Sides -> max_streams]
    ConnectionWindow,   \* the connection_flow_window new() is given
    ConnectionWindows,  \* the larger windows a peer may announce
    MaxCalls,           \* [Sides -> bound on its open_stream calls]
    MaxReserved,        \* [Sides -> bound on the bytes it reserves]
    MaxRepeats          \* bound on the number of repeated deliveries

Sides == {"client", "server"}
Other(s) == IF s = "client" THEN "server" ELSE "client"

ASSUME IdAssumption    == /\ MaxId \in Nat /\ MaxId >= 2
                          /\ IdSpace \in Nat /\ IdSpace > MaxId /\ IdSpace % 2 = 0
ASSUME LimitAssumption == /\ MaxStreams \in [Sides -> Nat]
                          /\ ConnectionWindow \in Nat
                          /\ ConnectionWindows \subseteq Nat
                          /\ MaxCalls \in [Sides -> Nat]
                          /\ MaxReserved \in [Sides -> Nat]
                          /\ MaxRepeats \in Nat

VARIABLES
    streams,      \* [Sides -> a function from the ids in the table to entries]
    next_id,      \* [Sides -> next_client_stream_id or next_server_stream_id]
    calls,        \* [Sides -> open_stream calls so far]
    issued,       \* [Sides -> the ids open_stream has returned]
    conn_sent,    \* [Sides -> connection_sent]
    conn_window,  \* [Sides -> connection_flow_window]
    net,          \* frames in flight
    repeats       \* repeated deliveries so far

vars == <<streams, next_id, calls, issued, conn_sent, conn_window, net, repeats>>

Ids(s) == DOMAIN streams[s]

NewEntry == [state |-> "Open"]

\* Faulty variant of FirstId: both sides count from the same id.
FirstIdSame(s) == 2
FirstId(s) == IF s = "client" THEN 2 ELSE 1

Init ==
    /\ streams     = [s \in Sides |-> <<>>]
    /\ next_id     = [s \in Sides |-> FirstId(s)]
    /\ calls       = [s \in Sides |-> 0]
    /\ issued      = [s \in Sides |-> {}]
    /\ conn_sent   = [s \in Sides |-> 0]
    /\ conn_window = [s \in Sides |-> ConnectionWindow]
    /\ net         = {}
    /\ repeats     = 0

-----------------------------------------------------------------------------
(* Tables. *)

\* HashMap::insert and HashMap::remove.
Insert(table, id, entry) ==
    [i \in DOMAIN table \cup {id} |-> IF i = id THEN entry ELSE table[i]]
Remove(table, id) == [i \in DOMAIN table \ {id} |-> table[i]]

\* Store the entry, or remove it when it is closed.
KeepUnlessClosed(table, id, entry) ==
    IF IsClosed(entry) THEN Remove(table, id) ELSE Insert(table, id, entry)

OpenFrame(s, id)  == [kind |-> "StreamOpen", to |-> s, id |-> id]
CloseFrame(s, id) == [kind |-> "StreamClose", to |-> s, id |-> id]

-----------------------------------------------------------------------------
(* Calls of the program. *)

\* The counter advances although the id is out of range.
ExhaustedOpen(s) ==
    /\ Cardinality(Ids(s)) < MaxStreams[s]
    /\ next_id[s] > MaxId
    /\ UNCHANGED <<streams, issued, net>>

\* Faulty variant of SuccessfulOpen: one stream too many.
SuccessfulOpenOver(s) ==
    /\ Cardinality(Ids(s)) <= MaxStreams[s]
    /\ next_id[s] <= MaxId
    /\ streams' = [streams EXCEPT ![s] = Insert(@, next_id[s], NewEntry)]
    /\ issued' = [issued EXCEPT ![s] = @ \cup {next_id[s]}]
    /\ net' = net \cup {OpenFrame(Other(s), next_id[s])}

SuccessfulOpen(s) ==
    /\ Cardinality(Ids(s)) < MaxStreams[s]
    /\ next_id[s] <= MaxId
    /\ streams' = [streams EXCEPT ![s] = Insert(@, next_id[s], NewEntry)]
    /\ issued' = [issued EXCEPT ![s] = @ \cup {next_id[s]}]
    /\ net' = net \cup {OpenFrame(Other(s), next_id[s])}

\* Faulty variant of OpenStream: the counter does not advance.
OpenStreamSameId(s) ==
    /\ calls[s] < MaxCalls[s]
    /\ calls' = [calls EXCEPT ![s] = @ + 1]
    /\ ExhaustedOpen(s) \/ SuccessfulOpen(s)
    /\ UNCHANGED <<next_id, conn_sent, conn_window, repeats>>

\* open_stream; at the limit it is refused before anything changes.
OpenStream(s) ==
    /\ calls[s] < MaxCalls[s]
    /\ calls' = [calls EXCEPT ![s] = @ + 1]
    /\ ExhaustedOpen(s) \/ SuccessfulOpen(s)
    /\ next_id' = [next_id EXCEPT ![s] = (@ + 2) % IdSpace]
    /\ UNCHANGED <<conn_sent, conn_window, repeats>>

\* reserve_connection_send adds whatever it is given: can_send_connection is a
\* question of its own, and neither is asked by a write.
ReserveConnectionSend(s, len) ==
    /\ conn_sent[s] + len <= MaxReserved[s]
    /\ conn_sent' = [conn_sent EXCEPT ![s] = @ + len]
    /\ UNCHANGED <<streams, next_id, calls, issued, conn_window, net, repeats>>

\* update_connection_window
UpdateConnectionWindow(s, window) ==
    /\ conn_window' = [conn_window EXCEPT ![s] = Greater(@, window)]
    /\ UNCHANGED <<streams, next_id, calls, issued, conn_sent, net, repeats>>

\* get_stream_mut(id).close_write(), and the StreamClose frame.
FinishWriting(s, id) ==
    /\ streams[s][id].state \in {"Open", "HalfClosedRemote"}
    /\ streams' = [streams EXCEPT ![s][id] = CloseWrite(@)]
    /\ net' = net \cup {CloseFrame(Other(s), id)}
    /\ UNCHANGED <<next_id, calls, issued, conn_sent, conn_window, repeats>>

\* shutdown_stream, and the StreamClose frame.
ShutdownStream(s, id) ==
    /\ streams' = [streams EXCEPT
                    ![s] = KeepUnlessClosed(@, id, CloseRead(CloseWrite(@[id])))]
    /\ net' = net \cup {CloseFrame(Other(s), id)}
    /\ UNCHANGED <<next_id, calls, issued, conn_sent, conn_window, repeats>>

-----------------------------------------------------------------------------
(* Frames of the peer. *)

\* accept_stream: only an id that is in the table is refused.
AcceptStream(s, id) ==
    /\ id \notin Ids(s)
    /\ streams' = [streams EXCEPT ![s] = Insert(@, id, NewEntry)]

\* close_stream: StreamClosed for an id that is not in the table.
CloseStream(s, id) ==
    /\ id \in Ids(s)
    /\ streams' = [streams EXCEPT ![s] = KeepUnlessClosed(@, id, CloseRead(@[id]))]

\* The network delivers m and forgets it, or keeps it to deliver it again.
Arrives(m) ==
    \/ net' = net \ {m} /\ UNCHANGED repeats
    \/ /\ repeats < MaxRepeats
       /\ repeats' = repeats + 1
       /\ UNCHANGED net

Deliver(m) ==
    /\ Arrives(m)
    /\ \/ m.kind = "StreamOpen" /\ AcceptStream(m.to, m.id)
       \/ m.kind = "StreamClose" /\ CloseStream(m.to, m.id)
    /\ UNCHANGED <<next_id, calls, issued, conn_sent, conn_window>>

Next ==
    \/ \E s \in Sides :
          \/ OpenStream(s)
          \/ \E id \in Ids(s) : FinishWriting(s, id) \/ ShutdownStream(s, id)
          \/ \E len \in 1 .. MaxReserved[s] : ReserveConnectionSend(s, len)
          \/ \E w \in ConnectionWindows : UpdateConnectionWindow(s, w)
    \/ \E m \in net : Deliver(m)

Spec == Init /\ [][Next]_vars

-----------------------------------------------------------------------------
(* Types. *)

Entries == [state : StreamStates]
Frames  == [kind : {"StreamOpen", "StreamClose"}, to : Sides, id : Nat]

\* Every variable keeps its type.
TypeOK ==
    /\ \A s \in Sides : /\ Ids(s) \subseteq Nat
                        /\ \A id \in Ids(s) : streams[s][id] \in Entries
    /\ DOMAIN streams = Sides
    /\ next_id     \in [Sides -> Nat]
    /\ calls       \in [Sides -> Nat]
    /\ issued      \in [Sides -> SUBSET Nat]
    /\ conn_sent   \in [Sides -> Nat]
    /\ conn_window \in [Sides -> Nat]
    /\ net         \subseteq Frames
    /\ repeats     \in Nat

-----------------------------------------------------------------------------
(* Safety. *)

\* What is in a table, or in flight, was opened by exactly one side: nothing
\* but the parity of the two counters keeps the ids of the sides apart.
EachHasOneOpener ==
    /\ issued["client"] \cap issued["server"] = {}
    /\ \A s \in Sides : Ids(s) \subseteq issued["client"] \cup issued["server"]
    /\ \A m \in net : m.kind = "StreamOpen" => m.id \in issued[Other(m.to)]

\* The next id open_stream draws is not in use and never was, so inserting it
\* replaces no live stream of either side.
NextIsFresh ==
    \A s \in Sides :
        next_id[s] <= MaxId =>
            next_id[s] \notin Ids(s) \cup issued["client"] \cup issued["server"]

\* The streams a side opened itself stay within its limit, whatever the peer
\* opens and closes.
OwnWithinLimit ==
    \A s \in Sides : Cardinality(Ids(s) \cap issued[s]) <= MaxStreams[s]
=============================================================================
