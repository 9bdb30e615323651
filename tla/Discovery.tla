------------------------------ MODULE Discovery ------------------------------
(***************************************************************************)
(* DiscoveryService (aether-core/src/discovery.rs): nodes announce         *)
(* themselves to a multicast group, say goodbye, answer queries, and keep  *)
(* what they hear in a cache that get_peers() cleans.                      *)
(*                                                                         *)
(* A node is one identity; each start draws a new connection id, here the  *)
(* number of the start.  Times are relative: the age of an entry, counted  *)
(* up to CacheTtl, and the time to the next announce.  The receive loop    *)
(* takes the cache's lock with try_lock, and on another thread get_peers   *)
(* may hold it.  Datagrams are lost when they are sent, and delayed and    *)
(* reordered without limit.                                                *)
(***************************************************************************)
EXTENDS Naturals, FiniteSets

CONSTANTS
    Nodes,
    Stoppable,        \* the nodes that may leave, crash and start again
    Readers,          \* the nodes whose program calls get_peers(), and asks
    AnnounceInterval, \* ANNOUNCE_INTERVAL: 30 s
    CacheTtl,         \* CACHE_TTL: 300 s
    MaxStarts,        \* bound on the starts of a node
    MaxInFlight       \* bound on the datagrams in flight: others are lost

ASSUME RangeAssumption ==
    /\ Stoppable \subseteq Nodes /\ Readers \subseteq Nodes
    /\ AnnounceInterval \in Nat \ {0} /\ CacheTtl \in Nat \ {0}
    /\ MaxStarts \in Nat /\ MaxInFlight \in Nat

VARIABLES
    status,  \* "down"; "up"; "left": has said goodbye and still runs
    starts,  \* how often a node was started; the last one is its connection id
    wait,    \* time to the next tick of its announce loop
    cache,   \* [Nodes -> function from peers to entries]
    locked,  \* get_peers holds the cache's lock
    net,     \* datagrams in flight
    heard    \* history: time since an announce of the peer arrived

vars == <<status, starts, wait, cache, locked, net, heard>>

Entry(connection_id, age) == [connection_id |-> connection_id, age |-> age]

Running(n) == status[n] # "down"

Init ==
    /\ status = [n \in Nodes |-> "down"]
    /\ starts = [n \in Nodes |-> 0]
    /\ wait   = [n \in Nodes |-> 0]
    /\ cache  = [n \in Nodes |-> <<>>]
    /\ locked = [n \in Nodes |-> FALSE]
    /\ net    = {}
    /\ heard  = [n \in Nodes |-> [p \in Nodes |-> CacheTtl]]

-----------------------------------------------------------------------------
(* Datagrams: to the group, which includes the sender, or to one node. *)

Message(kind, to, from, connection_id) ==
    [kind |-> kind, to |-> to, from |-> from, connection_id |-> connection_id]

Group(kind, n, connection_id) == {Message(kind, to, n, connection_id) : to \in Nodes}

\* Some of the messages are lost, at least as many as do not fit.
SendSome(rest, messages) ==
    \E sent \in SUBSET messages :
        /\ Cardinality(rest \cup sent) <= MaxInFlight
        /\ net' = rest \cup sent

-----------------------------------------------------------------------------
(* What a node does by itself. *)

\* bind(), and the announce before the loop; the loop's first tick is at once.
Start(n) ==
    /\ status[n] = "down"
    /\ starts[n] < MaxStarts
    /\ status' = [status EXCEPT ![n] = "up"]
    /\ starts' = [starts EXCEPT ![n] = @ + 1]
    /\ wait' = [wait EXCEPT ![n] = 0]
    /\ SendSome(net, Group("Announce", n, starts'[n]))
    /\ UNCHANGED <<cache, locked, heard>>

\* A tick of announce_loop(), which does not know about shutdown().
Announce(n) ==
    /\ Running(n)
    /\ wait[n] = 0
    /\ wait' = [wait EXCEPT ![n] = AnnounceInterval]
    /\ SendSome(net, Group("Announce", n, starts[n]))
    /\ UNCHANGED <<status, starts, cache, locked, heard>>

\* shutdown() sends a goodbye; both loops run on.
Shutdown(n) ==
    /\ status[n] = "up"
    /\ status' = [status EXCEPT ![n] = "left"]
    /\ SendSome(net, Group("Goodbye", n, starts[n]))
    /\ UNCHANGED <<starts, wait, cache, locked, heard>>

\* The process ends, with or without a goodbye; its cache goes with it.
Exit(n) ==
    /\ Running(n)
    /\ status' = [status EXCEPT ![n] = "down"]
    /\ cache' = [cache EXCEPT ![n] = <<>>]
    /\ locked' = [locked EXCEPT ![n] = FALSE]
    /\ heard' = [heard EXCEPT ![n] = [p \in Nodes |-> CacheTtl]]
    /\ UNCHANGED <<starts, wait, net>>

\* A program sends a query to the group.
Ask(n) ==
    /\ Running(n)
    /\ SendSome(net, Group("Query", n, 0))
    /\ UNCHANGED <<status, starts, wait, cache, locked, heard>>

-----------------------------------------------------------------------------
(* The cache. *)

LockPeers(n) ==
    /\ Running(n)
    /\ ~locked[n]
    /\ locked' = [locked EXCEPT ![n] = TRUE]
    /\ UNCHANGED <<status, starts, wait, cache, net, heard>>

\* Faulty variant of Fresh: one unit too short.
FreshBelowTtl(entry) == entry.age + 1 < CacheTtl

Fresh(entry) == entry.age < CacheTtl

Listed(n) == {p \in DOMAIN cache[n] : Fresh(cache[n][p])}

\* Faulty variant of GetPeers: expired entries are passed over, not removed.
GetPeersKeeping(n) ==
    /\ locked[n]
    /\ locked' = [locked EXCEPT ![n] = FALSE]
    /\ UNCHANGED <<status, starts, wait, cache, net, heard>>

\* The rest of get_peers(): expired entries are removed, the others returned.
\* Nothing else removes them.
GetPeers(n) ==
    /\ locked[n]
    /\ locked' = [locked EXCEPT ![n] = FALSE]
    /\ cache' = [cache EXCEPT ![n] = [p \in Listed(n) |-> @[p]]]
    /\ UNCHANGED <<status, starts, wait, net, heard>>

\* try_lock: the update is dropped while get_peers holds the lock.
CachePeer(n, p, connection_id) ==
    cache' = IF locked[n] THEN cache
             ELSE [cache EXCEPT ![n] =
                      [q \in DOMAIN @ \cup {p} |->
                          IF q = p THEN Entry(connection_id, 0) ELSE @[q]]]

RemovePeer(n, p) ==
    cache' = IF locked[n] THEN cache
             ELSE [cache EXCEPT ![n] = [q \in DOMAIN @ \ {p} |-> @[q]]]

-----------------------------------------------------------------------------
(* handle_message(), for a datagram m that is in flight. *)

Heard(n, p) == heard' = [heard EXCEPT ![n][p] = 0]

\* Faulty variants of HandleAnnounce: a node's own announces are not ignored,
\* and a known peer is not updated.
HandleAnnounceOwn(m) ==
    /\ m.kind = "Announce"
    /\ CachePeer(m.to, m.from, m.connection_id)
    /\ Heard(m.to, m.from)
    /\ net' = net \ {m}

HandleAnnounceOnce(m) ==
    /\ m.kind = "Announce"
    /\ net' = net \ {m}
    /\ \/ m.from = m.to /\ UNCHANGED <<cache, heard>>
       \/ /\ m.from \in DOMAIN cache[m.to]
          /\ cache' = [cache EXCEPT ![m.to][m.from].age = 0]
          /\ Heard(m.to, m.from)
       \/ /\ m.from \notin DOMAIN cache[m.to] \cup {m.to}
          /\ CachePeer(m.to, m.from, m.connection_id)
          /\ Heard(m.to, m.from)

\* A node's own announce is ignored.  Neither the timestamp nor the connection
\* id is compared with those in the cache.
HandleAnnounce(m) ==
    /\ m.kind = "Announce"
    /\ net' = net \ {m}
    /\ \/ m.from = m.to /\ UNCHANGED <<cache, heard>>
       \/ /\ m.from # m.to
          /\ CachePeer(m.to, m.from, m.connection_id)
          /\ Heard(m.to, m.from)

\* The answer goes to the node that asked, not to the group.
HandleQuery(m) ==
    /\ m.kind = "Query"
    /\ SendSome(net \ {m}, {Message("Announce", m.from, m.to, starts[m.to])})
    /\ UNCHANGED <<cache, heard>>

HandleGoodbye(m) ==
    /\ m.kind = "Goodbye"
    /\ RemovePeer(m.to, m.from)
    /\ net' = net \ {m}
    /\ UNCHANGED heard

\* Nobody receives it.
Vanish(m) ==
    /\ ~Running(m.to)
    /\ net' = net \ {m}
    /\ UNCHANGED <<cache, heard>>

Deliver(m) ==
    /\ \/ /\ Running(m.to)
          /\ HandleAnnounce(m) \/ HandleQuery(m) \/ HandleGoodbye(m)
       \/ Vanish(m)
    /\ UNCHANGED <<status, starts, wait, locked>>

-----------------------------------------------------------------------------
(* Time. *)

Older(age) == IF age < CacheTtl THEN age + 1 ELSE age

\* Timers are punctual: time does not pass an announce that is due.
Tick ==
    /\ \A n \in Nodes : Running(n) => wait[n] > 0
    /\ wait' = [n \in Nodes |-> IF wait[n] > 0 THEN wait[n] - 1 ELSE 0]
    /\ cache' = [n \in Nodes |-> [p \in DOMAIN cache[n] |->
                    Entry(cache[n][p].connection_id, Older(cache[n][p].age))]]
    /\ heard' = [n \in Nodes |-> [p \in Nodes |-> Older(heard[n][p])]]
    /\ UNCHANGED <<status, starts, locked, net>>

Next ==
    \/ \E n \in Nodes : Start(n) \/ Announce(n)
    \/ \E n \in Readers : LockPeers(n) \/ GetPeers(n) \/ Ask(n)
    \/ \E n \in Stoppable : Shutdown(n) \/ Exit(n)
    \/ \E m \in net : Deliver(m)
    \/ Tick

Spec == Init /\ [][Next]_vars

\* Both loops and the timers run, a datagram in flight arrives some time, and
\* the program calls get_peers() again and again.
Fairness ==
    /\ \A n \in Nodes : WF_vars(Announce(n))
    /\ \A n \in Readers : WF_vars(LockPeers(n)) /\ WF_vars(GetPeers(n))
    /\ \A n, p \in Nodes, k \in {"Announce", "Query", "Goodbye"}, c \in 0 .. MaxStarts :
          LET m == Message(k, n, p, c) IN WF_vars(m \in net /\ Deliver(m))
    /\ WF_vars(Tick)

FairSpec == Spec /\ Fairness

-----------------------------------------------------------------------------
(* Types. *)

Ages == 0 .. CacheTtl
Messages ==
    [kind : {"Announce", "Query", "Goodbye"}, to : Nodes, from : Nodes,
     connection_id : Nat]

\* Every variable keeps its type.
TypeOK ==
    /\ status \in [Nodes -> {"down", "up", "left"}]
    /\ starts \in [Nodes -> Nat]
    /\ wait   \in [Nodes -> 0 .. AnnounceInterval]
    /\ DOMAIN cache = Nodes
    /\ \A n \in Nodes :
          /\ DOMAIN cache[n] \subseteq Nodes
          /\ \A p \in DOMAIN cache[n] :
                cache[n][p] \in [connection_id : Nat, age : Ages]
    /\ locked \in [Nodes -> BOOLEAN]
    /\ net    \in SUBSET Messages
    /\ heard  \in [Nodes -> [Nodes -> Ages]]

-----------------------------------------------------------------------------
(* Safety and liveness. *)

\* A node lists a peer only if an announce of that peer reached it less than
\* CACHE_TTL ago, whatever was dropped, late or lost; never itself; and under
\* a connection id the peer has had.
ListedWasHeard ==
    \A n \in Nodes : \A p \in Listed(n) :
        /\ heard[n][p] < CacheTtl
        /\ p # n
        /\ cache[n][p].connection_id \in 1 .. starts[p]

\* A running node drops a peer it heard of less than CACHE_TTL ago only because
\* a goodbye of that peer arrived.
FreshPeersStay ==
    [][\A n \in Nodes : \A p \in DOMAIN cache[n] :
          p \notin DOMAIN cache'[n] /\ Running(n)' /\ cache[n][p].age < CacheTtl =>
              \E m \in net \ net' : m.kind = "Goodbye" /\ m.to = n /\ m.from = p]_vars

\* The cache becomes right: in the end it holds no peer that is gone for good,
\* although its goodbye may be lost or dropped at the lock and late announces
\* bring it back, and no peer under an older connection id, although an older
\* announce may arrive after a newer one.  (That it holds a peer that stays is
\* StaysKnown.)
Settles ==
    \A n \in Readers, p \in Nodes :
        <>[](p \in DOMAIN cache[n] =>
                Running(p) /\ cache[n][p].connection_id = starts[p])

Knows(n, p) == p \in Listed(n) /\ cache[n][p].connection_id = starts[p]

\* An announce of p's present start arrives at n while the lock is free.
Reaches(p, n) ==
    \E m \in net :
        /\ m = Message("Announce", n, p, starts[p])
        /\ ~locked[n]
        /\ Deliver(m)

\* Neither the network nor the lock is against it for ever: if p announces
\* itself again and again, then again and again an announce reaches n.
FairLoss(p, n) == []<><<Announce(p)>>_vars => []<><<Reaches(p, n)>>_vars

\* A peer that runs on is listed again and again under its present connection
\* id by a node that runs on, whatever else arrives, is lost, or is dropped at
\* the lock, if the losses are fair: the announce loop never stops, not even
\* after shutdown(), and an announce replaces what was cached before it.  With
\* Settles, from some time on there is no other entry for it.
StaysKnown ==
    \A n \in Readers : \A p \in Nodes \ {n} :
        /\ FairLoss(p, n)
        /\ <>[](Running(n) /\ Running(p))
        => []<>Knows(n, p)
=============================================================================
