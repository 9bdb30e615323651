---------------------------- MODULE DiscoveryProofs ----------------------------
(***************************************************************************)
(* Proofs about Discovery, for any nodes, intervals and bounds.            *)
(***************************************************************************)
EXTENDS Discovery, TLAPS

\* What is in a cache is no fresher than what was heard, is of another node, and
\* of a start that node has made.
CacheWasHeard ==
    \A n \in Nodes : \A p \in DOMAIN cache[n] :
        /\ heard[n][p] <= cache[n][p].age
        /\ p # n
        /\ cache[n][p].connection_id \in 1 .. starts[p]

\* An announce in flight is of a start its sender has made.
AnnouncesHappened ==
    \A m \in net : m.kind = "Announce" => m.connection_id \in 1 .. starts[m.from]

RunningStarted == \A n \in Nodes : Running(n) => starts[n] >= 1

IInv == TypeOK /\ CacheWasHeard /\ AnnouncesHappened /\ RunningStarted

-----------------------------------------------------------------------------

LEMMA RangeFacts ==
    /\ Stoppable \subseteq Nodes /\ Readers \subseteq Nodes
    /\ CacheTtl \in Nat /\ CacheTtl > 0 /\ AnnounceInterval \in Nat /\ AnnounceInterval > 0
    /\ 0 \in Ages /\ CacheTtl \in Ages
    /\ 0 \in 0 .. AnnounceInterval /\ AnnounceInterval \in 0 .. AnnounceInterval
BY RangeAssumption DEF Ages

LEMMA OlderFacts ==
    ASSUME NEW a \in Ages
    PROVE  /\ Older(a) \in Ages
           /\ \A b \in Ages : b <= a => Older(b) <= Older(a)
BY RangeFacts DEF Ages, Older

\* The cache as TypeOK describes it.
CacheTyped ==
    /\ DOMAIN cache = Nodes
    /\ \A n \in Nodes :
          /\ DOMAIN cache[n] \subseteq Nodes
          /\ \A p \in DOMAIN cache[n] : cache[n][p] \in [connection_id : Nat, age : Ages]

LEMMA CacheIsTyped == TypeOK <=> /\ status \in [Nodes -> {"down", "up", "left"}]
                                 /\ starts \in [Nodes -> Nat]
                                 /\ wait \in [Nodes -> 0 .. AnnounceInterval]
                                 /\ CacheTyped
                                 /\ locked \in [Nodes -> BOOLEAN]
                                 /\ net \in SUBSET Messages
                                 /\ heard \in [Nodes -> [Nodes -> Ages]]
BY DEF TypeOK, CacheTyped

\* The cache and what was heard stay, and so do the starts or they grow.
LEMMA CacheStays ==
    ASSUME IInv, cache' = cache, heard' = heard,
           \A p \in Nodes : starts[p] <= starts'[p], starts' \in [Nodes -> Nat]
    PROVE  CacheTyped' /\ CacheWasHeard'
<1>1. CacheTyped'
    BY CacheIsTyped DEF IInv, CacheTyped
<1>2. \A n \in Nodes : \A p \in DOMAIN cache[n] :
          /\ p \in Nodes
          /\ cache[n][p].connection_id \in 1 .. starts[p]
    BY DEF IInv, TypeOK, CacheWasHeard
<1>3. \A p \in Nodes : 1 .. starts[p] \subseteq 1 .. starts'[p]
    BY DEF IInv, TypeOK
<1>4. CacheWasHeard'
    BY <1>2, <1>3 DEF IInv, CacheWasHeard
<1>5. QED
    BY <1>1, <1>4

\* What a node sends to the group.
LEMMA GroupFacts ==
    ASSUME NEW n \in Nodes, NEW kind \in {"Announce", "Query", "Goodbye"}, NEW c \in Nat
    PROVE  \A m \in Group(kind, n, c) :
               m \in Messages /\ m.kind = kind /\ m.from = n /\ m.connection_id = c
BY DEF Group, Message, Messages

LEMMA SendFacts ==
    ASSUME NEW rest, NEW messages, SendSome(rest, messages)
    PROVE  \A m \in net' : m \in rest \/ m \in messages
BY DEF SendSome

-----------------------------------------------------------------------------
(* The steps. *)

LEMMA InitIInv == Init => IInv
<1> SUFFICES ASSUME Init PROVE IInv
    OBVIOUS
<1>1. TypeOK
    BY RangeFacts DEF Init, TypeOK
<1>2. QED
    BY <1>1 DEF Init, IInv, CacheWasHeard, AnnouncesHappened, RunningStarted, Running

LEMMA StartStep ==
    ASSUME IInv, NEW n \in Nodes, Start(n)
    PROVE  IInv'
<1> USE DEF IInv
<1>1. /\ starts' \in [Nodes -> Nat] /\ starts'[n] = starts[n] + 1 /\ starts[n] \in Nat
      /\ \A p \in Nodes \ {n} : starts'[p] = starts[p]
      /\ \A p \in Nodes : starts[p] <= starts'[p]
    BY DEF Start, TypeOK
<1>2. UNCHANGED <<cache, locked, heard>>
    BY DEF Start
<1>3. status' \in [Nodes -> {"down", "up", "left"}]
      /\ \A p \in Nodes \ {n} : status'[p] = status[p]
    BY DEF Start, TypeOK
<1>4. wait' \in [Nodes -> 0 .. AnnounceInterval]
    BY RangeFacts DEF Start, TypeOK
<1>5. \A m \in net' : m \in net \/ m \in Group("Announce", n, starts'[n])
    BY SendFacts DEF Start
<1>6. \A m \in net' : \/ m \in net
                      \/ /\ m \in Messages /\ m.from = n /\ m.connection_id = starts'[n]
    BY <1>1, <1>5, GroupFacts
<1>7. CacheTyped' /\ CacheWasHeard'
    BY <1>1, <1>2, CacheStays
<1>8. TypeOK'
    <2>1. net' \in SUBSET Messages
        BY <1>6 DEF TypeOK
    <2>2. locked' \in [Nodes -> BOOLEAN] /\ heard' \in [Nodes -> [Nodes -> Ages]]
        BY <1>2 DEF TypeOK
    <2>3. QED
        BY <1>1, <1>3, <1>4, <1>7, <2>1, <2>2 DEF TypeOK, CacheTyped
<1>9. AnnouncesHappened'
    <2>1. \A m \in net : m.from \in Nodes
        BY DEF TypeOK, Messages
    <2>2. \A p \in Nodes : 1 .. starts[p] \subseteq 1 .. starts'[p]
        BY <1>1 DEF TypeOK
    <2>3. starts'[n] \in 1 .. starts'[n]
        BY <1>1
    <2>4. QED
        BY <1>6, <2>1, <2>2, <2>3 DEF AnnouncesHappened
<1>10. RunningStarted'
    BY <1>1, <1>3 DEF RunningStarted, Running
<1>11. QED
    BY <1>7, <1>8, <1>9, <1>10

\* Steps that only send what has happened, and change status, wait or locked.
LEMMA SendStep ==
    ASSUME IInv,
           status' \in [Nodes -> {"down", "up", "left"}],
           \A n \in Nodes : Running(n)' => Running(n),
           starts' = starts, cache' = cache, heard' = heard,
           wait' \in [Nodes -> 0 .. AnnounceInterval],
           locked' \in [Nodes -> BOOLEAN],
           \A m \in net' : m \in net \/
              (m \in Messages /\ (m.kind = "Announce" => m.connection_id \in 1 .. starts[m.from]))
    PROVE  IInv'
<1> USE DEF IInv
<1>1. CacheTyped' /\ CacheWasHeard'
    BY DEF TypeOK, CacheTyped, CacheWasHeard
<1>2. TypeOK'
    <2>1. net' \in SUBSET Messages
        BY DEF TypeOK
    <2>2. starts' \in [Nodes -> Nat] /\ heard' \in [Nodes -> [Nodes -> Ages]]
        BY DEF TypeOK
    <2>3. QED
        BY <1>1, <2>1, <2>2 DEF TypeOK, CacheTyped
<1>3. AnnouncesHappened'
    BY DEF AnnouncesHappened
<1>4. RunningStarted'
    BY DEF RunningStarted
<1>5. QED
    BY <1>1, <1>2, <1>3, <1>4

LEMMA AnnounceStep ==
    ASSUME IInv, NEW n \in Nodes, Announce(n)
    PROVE  IInv'
<1>1. starts[n] \in Nat /\ starts[n] >= 1
    BY DEF Announce, IInv, TypeOK, RunningStarted
<1>2. \A m \in net' : m \in net \/ m \in Group("Announce", n, starts[n])
    BY SendFacts DEF Announce
<1>3. \A m \in net' : m \in net \/
          (m \in Messages /\ (m.kind = "Announce" => m.connection_id \in 1 .. starts[m.from]))
    BY <1>1, <1>2, GroupFacts
<1>4. wait' \in [Nodes -> 0 .. AnnounceInterval]
    BY RangeFacts DEF Announce, IInv, TypeOK
<1>5. /\ status' = status /\ starts' = starts /\ cache' = cache /\ locked' = locked
      /\ heard' = heard
    BY DEF Announce
<1>6. QED
    BY <1>3, <1>4, <1>5, SendStep DEF IInv, TypeOK, Running

LEMMA ShutdownStep ==
    ASSUME IInv, NEW n \in Nodes, Shutdown(n)
    PROVE  IInv'
<1>1. starts[n] \in Nat
    BY DEF IInv, TypeOK
<1>2. \A m \in net' : m \in net \/ m \in Group("Goodbye", n, starts[n])
    BY SendFacts DEF Shutdown
<1>3. \A m \in net' : m \in net \/
          (m \in Messages /\ (m.kind = "Announce" => m.connection_id \in 1 .. starts[m.from]))
    BY <1>1, <1>2, GroupFacts
<1>4. /\ status' \in [Nodes -> {"down", "up", "left"}]
      /\ \A p \in Nodes : Running(p)' => Running(p)
    BY DEF Shutdown, IInv, TypeOK, Running
<1>5. /\ wait' = wait /\ starts' = starts /\ cache' = cache /\ locked' = locked
      /\ heard' = heard
    BY DEF Shutdown
<1>6. QED
    BY <1>3, <1>4, <1>5, SendStep DEF IInv, TypeOK

LEMMA AskStep ==
    ASSUME IInv, NEW n \in Nodes, Ask(n)
    PROVE  IInv'
<1>1. \A m \in net' : m \in net \/ m \in Group("Query", n, 0)
    BY SendFacts DEF Ask
<1>2. \A m \in net' : m \in net \/
          (m \in Messages /\ (m.kind = "Announce" => m.connection_id \in 1 .. starts[m.from]))
    BY <1>1, GroupFacts
<1>3. UNCHANGED <<status, starts, wait, cache, locked, heard>>
    BY DEF Ask
<1>4. QED
    BY <1>2, <1>3, SendStep DEF IInv, TypeOK, Running

LEMMA LockStep ==
    ASSUME IInv, NEW n \in Nodes, LockPeers(n)
    PROVE  IInv'
<1>1. UNCHANGED <<status, starts, wait, cache, net, heard>>
    BY DEF LockPeers
<1>2. locked' \in [Nodes -> BOOLEAN]
    BY DEF LockPeers, IInv, TypeOK
<1>3. QED
    BY <1>1, <1>2, SendStep DEF IInv, TypeOK, Running

\* Entries are removed from one cache, and nothing is sent.
LEMMA RemoveStep ==
    ASSUME IInv, NEW n \in Nodes,
           DOMAIN cache' = Nodes,
           \A q \in Nodes \ {n} : cache'[q] = cache[q],
           DOMAIN cache'[n] \subseteq DOMAIN cache[n],
           \A p \in DOMAIN cache'[n] : cache'[n][p] = cache[n][p],
           UNCHANGED <<status, starts, wait, heard>>,
           locked' \in [Nodes -> BOOLEAN],
           \A m \in net' : m \in net
    PROVE  IInv'
<1> USE DEF IInv
<1>1. /\ status' = status /\ starts' = starts /\ wait' = wait /\ heard' = heard
    OBVIOUS
<1>2. \A q \in Nodes : /\ DOMAIN cache'[q] \subseteq DOMAIN cache[q]
                       /\ \A p \in DOMAIN cache'[q] : cache'[q][p] = cache[q][p]
    OBVIOUS
<1>3. CacheTyped'
    BY <1>2 DEF TypeOK, CacheTyped
<1>4. TypeOK'
    BY <1>1, <1>3 DEF TypeOK, CacheTyped
<1>5. CacheWasHeard'
    BY <1>1, <1>2 DEF CacheWasHeard
<1>6. AnnouncesHappened' /\ RunningStarted'
    BY <1>1 DEF AnnouncesHappened, RunningStarted, Running
<1>7. QED
    BY <1>4, <1>5, <1>6

LEMMA GetPeersStep ==
    ASSUME IInv, NEW n \in Nodes, GetPeers(n)
    PROVE  /\ IInv'
           /\ \A q \in Nodes \ {n} : cache'[q] = cache[q]
           /\ DOMAIN cache'[n] = Listed(n)
<1>1. UNCHANGED <<status, starts, wait, net, heard>>
    BY DEF GetPeers
<1>2. locked' \in [Nodes -> BOOLEAN]
    BY DEF GetPeers, IInv, TypeOK
<1>3. /\ DOMAIN cache' = Nodes
      /\ \A q \in Nodes \ {n} : cache'[q] = cache[q]
      /\ cache'[n] = [p \in Listed(n) |-> cache[n][p]]
    BY DEF GetPeers, IInv, TypeOK
<1>4. Listed(n) \subseteq DOMAIN cache[n]
    BY DEF Listed
<1>5. QED
    BY <1>1, <1>2, <1>3, <1>4, RemoveStep

LEMMA ExitStep ==
    ASSUME IInv, NEW n \in Nodes, Exit(n)
    PROVE  /\ IInv' /\ ~Running(n)'
           /\ \A q \in Nodes \ {n} : cache'[q] = cache[q]
<1> USE DEF IInv
<1>1. starts' = starts /\ wait' = wait /\ net' = net
    BY DEF Exit
<1>2. /\ status' \in [Nodes -> {"down", "up", "left"}] /\ status'[n] = "down"
      /\ \A q \in Nodes \ {n} : status'[q] = status[q]
    BY DEF Exit, TypeOK
<1>3. DOMAIN cache' = Nodes /\ cache'[n] = <<>> /\ \A q \in Nodes \ {n} : cache'[q] = cache[q]
    BY DEF Exit, TypeOK
<1>4. locked' \in [Nodes -> BOOLEAN]
    BY DEF Exit, TypeOK
<1>5. /\ heard' \in [Nodes -> [Nodes -> Ages]]
      /\ \A q \in Nodes \ {n} : heard'[q] = heard[q]
    BY RangeFacts DEF Exit, TypeOK
<1>6. CacheTyped'
    BY <1>3 DEF TypeOK, CacheTyped
<1>7. TypeOK'
    BY <1>1, <1>2, <1>4, <1>5, <1>6 DEF TypeOK, CacheTyped
<1>8. CacheWasHeard'
    BY <1>1, <1>3, <1>5 DEF CacheWasHeard
<1>9. AnnouncesHappened' /\ RunningStarted'
    BY <1>1, <1>2 DEF AnnouncesHappened, RunningStarted, Running
<1>10. QED
    BY <1>2, <1>3, <1>7, <1>8, <1>9 DEF Running

\* An announce of a peer arrives: it enters the cache, or the lock keeps it out.
LEMMA HandleAnnounceStep ==
    ASSUME IInv, NEW m \in net, HandleAnnounce(m),
           UNCHANGED <<status, starts, wait, locked>>
    PROVE  IInv' /\ \A n \in Nodes : DOMAIN cache[n] \subseteq DOMAIN cache'[n]
<1> USE DEF IInv
<1> DEFINE n == m.to
           p == m.from
           c == m.connection_id
<1>1. /\ m.kind = "Announce" /\ net' = net \ {m}
      /\ n \in Nodes /\ p \in Nodes /\ c \in Nat
      /\ c \in 1 .. starts[p]
    BY DEF HandleAnnounce, TypeOK, Messages, AnnouncesHappened
<1>2. AnnouncesHappened' /\ RunningStarted'
    BY <1>1 DEF AnnouncesHappened, RunningStarted, Running
<1>3. CASE m.from = m.to
    <2>1. cache' = cache /\ heard' = heard
        BY <1>3 DEF HandleAnnounce
    <2>2. \A f \in net' : f \in net
        BY <1>1
    <2>3. QED
        BY <1>3, <2>1, <2>2, SendStep DEF TypeOK, Running
<1>4. CASE m.from # m.to
    <2>1. CachePeer(n, p, c) /\ Heard(n, p)
        BY <1>4 DEF HandleAnnounce
    <2>2. p # n
        BY <1>4
    <2> HIDE DEF n, p, c
    <2>3. /\ heard' \in [Nodes -> [Nodes -> Ages]]
          /\ heard'[n][p] = 0
          /\ \A q, r \in Nodes : heard'[q][r] <= heard[q][r]
        <3>1. /\ heard \in [Nodes -> [Nodes -> Ages]]
              /\ heard' = [heard EXCEPT ![n][p] = 0] /\ 0 \in Ages
            BY <2>1, RangeFacts DEF Heard, TypeOK
        <3>2. /\ heard' \in [Nodes -> [Nodes -> Ages]] /\ heard'[n][p] = 0
              /\ \A q, r \in Nodes : q # n \/ r # p => heard'[q][r] = heard[q][r]
            BY <1>1, <3>1
        <3>3. \A q, r \in Nodes : heard[q][r] \in Nat
            BY <3>1, RangeFacts DEF Ages
        <3>4. QED
            BY <3>2, <3>3
    <2>4. /\ DOMAIN cache' = Nodes
          /\ \A q \in Nodes : DOMAIN cache[q] \subseteq DOMAIN cache'[q]
          /\ \A q \in Nodes : \A r \in DOMAIN cache'[q] :
                \/ r \in DOMAIN cache[q] /\ cache'[q][r] = cache[q][r]
                \/ q = n /\ r = p /\ cache'[q][r] = Entry(c, 0)
        <3>1. CASE locked[n]
            BY <2>1, <3>1 DEF CachePeer, TypeOK
        <3>2. CASE ~locked[n]
            BY <1>1, <2>1, <3>2 DEF CachePeer, TypeOK
        <3>3. QED
            BY <3>1, <3>2
    <2>5. /\ Entry(c, 0) \in [connection_id : Nat, age : Ages]
          /\ Entry(c, 0).age = 0 /\ Entry(c, 0).connection_id = c
        BY <1>1, RangeFacts DEF Entry
    <2>6. CacheTyped'
        <3>1. \A q \in Nodes : DOMAIN cache'[q] \subseteq Nodes
            BY <1>1, <2>4 DEF TypeOK
        <3>2. \A q \in Nodes : \A r \in DOMAIN cache'[q] :
                  cache'[q][r] \in [connection_id : Nat, age : Ages]
            BY <2>4, <2>5 DEF TypeOK
        <3>3. QED
            BY <2>4, <3>1, <3>2 DEF CacheTyped
    <2>7. TypeOK'
        <3>1. net' \in SUBSET Messages
            BY <1>1 DEF TypeOK
        <3>2. /\ status' \in [Nodes -> {"down", "up", "left"}] /\ starts' \in [Nodes -> Nat]
              /\ wait' \in [Nodes -> 0 .. AnnounceInterval] /\ locked' \in [Nodes -> BOOLEAN]
            BY DEF TypeOK
        <3>3. QED
            BY <2>3, <2>6, <3>1, <3>2 DEF TypeOK, CacheTyped
    <2>8. CacheWasHeard'
        <3> SUFFICES ASSUME NEW q \in Nodes, NEW r \in DOMAIN cache'[q]
                     PROVE  /\ heard'[q][r] <= cache'[q][r].age
                            /\ r # q
                            /\ cache'[q][r].connection_id \in 1 .. starts[r]
            BY DEF CacheWasHeard
        <3>1. CASE q = n /\ r = p /\ cache'[q][r] = Entry(c, 0)
            BY <1>1, <2>2, <2>3, <2>5, <3>1 DEF p, c
        <3>2. CASE r \in DOMAIN cache[q] /\ cache'[q][r] = cache[q][r]
            <4>1. /\ heard[q][r] <= cache[q][r].age /\ r # q
                  /\ cache[q][r].connection_id \in 1 .. starts[r]
                BY <3>2 DEF CacheWasHeard
            <4>2. r \in Nodes /\ cache[q][r].age \in Nat
                BY <3>2, RangeFacts DEF TypeOK, Ages
            <4>3. heard'[q][r] \in Nat /\ heard[q][r] \in Nat
                BY <2>3, <4>2, RangeFacts DEF TypeOK, Ages
            <4>4. heard'[q][r] <= heard[q][r]
                BY <2>3, <4>2
            <4>5. QED
                BY <3>2, <4>1, <4>2, <4>3, <4>4
        <3>3. QED
            BY <2>4, <3>1, <3>2
    <2>9. QED
        BY <1>2, <2>4, <2>7, <2>8
<1>5. QED
    BY <1>3, <1>4

LEMMA HandleQueryStep ==
    ASSUME IInv, NEW m \in net, HandleQuery(m), Running(m.to),
           UNCHANGED <<status, starts, wait, locked>>
    PROVE  IInv'
<1> DEFINE answer == Message("Announce", m.from, m.to, starts[m.to])
<1>1. m.to \in Nodes /\ m.from \in Nodes /\ starts[m.to] \in Nat /\ starts[m.to] >= 1
    BY DEF IInv, TypeOK, Messages, RunningStarted
<1>2. answer \in Messages /\ answer.connection_id \in 1 .. starts[answer.from]
    BY <1>1 DEF Message, Messages
<1>3. \A f \in net' : f \in net \ {m} \/ f \in {answer}
    BY SendFacts DEF HandleQuery
<1> HIDE DEF answer
<1>4. \A f \in net' : f \in net \/
          (f \in Messages /\ (f.kind = "Announce" => f.connection_id \in 1 .. starts[f.from]))
    BY <1>2, <1>3
<1>5. cache' = cache /\ heard' = heard
    BY DEF HandleQuery
<1>6. /\ status' = status /\ starts' = starts /\ wait' = wait /\ locked' = locked
    OBVIOUS
<1>7. QED
    BY <1>4, <1>5, <1>6, SendStep DEF IInv, TypeOK, Running

LEMMA HandleGoodbyeStep ==
    ASSUME IInv, NEW m \in net, HandleGoodbye(m),
           UNCHANGED <<status, starts, wait, locked>>
    PROVE  /\ IInv'
           /\ m.kind = "Goodbye" /\ m \in net \ net'
           /\ \A n \in Nodes : \A p \in DOMAIN cache[n] :
                 p \in DOMAIN cache'[n] \/ (n = m.to /\ p = m.from)
<1>1. m.kind = "Goodbye" /\ net' = net \ {m} /\ heard' = heard /\ RemovePeer(m.to, m.from)
    BY DEF HandleGoodbye
<1>2. m.to \in Nodes /\ DOMAIN cache = Nodes
    BY DEF IInv, TypeOK, Messages
<1>3. /\ DOMAIN cache' = Nodes
      /\ \A q \in Nodes \ {m.to} : cache'[q] = cache[q]
      /\ DOMAIN cache'[m.to] \subseteq DOMAIN cache[m.to]
      /\ \A p \in DOMAIN cache[m.to] : p \in DOMAIN cache'[m.to] \/ p = m.from
      /\ \A p \in DOMAIN cache'[m.to] : cache'[m.to][p] = cache[m.to][p]
    <2>1. CASE locked[m.to]
        BY <1>1, <1>2, <2>1 DEF RemovePeer
    <2>2. CASE ~locked[m.to]
        BY <1>1, <1>2, <2>2 DEF RemovePeer
    <2>3. QED
        BY <2>1, <2>2
<1>4. locked' \in [Nodes -> BOOLEAN]
    BY DEF IInv, TypeOK
<1>5. IInv'
    BY <1>1, <1>2, <1>3, <1>4, RemoveStep
<1>6. QED
    BY <1>1, <1>3, <1>5

LEMMA VanishStep ==
    ASSUME IInv, NEW m \in net, Vanish(m), UNCHANGED <<status, starts, wait, locked>>
    PROVE  IInv'
<1>1. cache' = cache /\ heard' = heard /\ \A f \in net' : f \in net
    BY DEF Vanish
<1>2. /\ status' = status /\ starts' = starts /\ wait' = wait /\ locked' = locked
    OBVIOUS
<1>3. QED
    BY <1>1, <1>2, SendStep DEF IInv, TypeOK, Running

LEMMA TickStep ==
    ASSUME IInv, Tick
    PROVE  IInv' /\ \A n \in Nodes : DOMAIN cache'[n] = DOMAIN cache[n]
<1> USE DEF IInv
<1>1. status' = status /\ starts' = starts /\ locked' = locked /\ net' = net
    BY DEF Tick
<1>2. wait' \in [Nodes -> 0 .. AnnounceInterval]
    <2>1. \A n \in Nodes : wait[n] \in 0 .. AnnounceInterval
        BY DEF TypeOK
    <2>2. \A n \in Nodes :
              (IF wait[n] > 0 THEN wait[n] - 1 ELSE 0) \in 0 .. AnnounceInterval
        BY <2>1, RangeFacts
    <2>3. QED
        BY <2>2 DEF Tick
<1>3. \A n, p \in Nodes : heard[n][p] \in Ages
    BY DEF TypeOK
<1>4. /\ heard' \in [Nodes -> [Nodes -> Ages]]
      /\ \A n, p \in Nodes : heard'[n][p] = Older(heard[n][p])
    BY <1>3, OlderFacts DEF Tick
<1>5. \A n \in Nodes : \A p \in DOMAIN cache[n] :
          p \in Nodes /\ cache[n][p].age \in Ages /\ cache[n][p].connection_id \in Nat
    BY DEF TypeOK
<1>6. /\ DOMAIN cache' = Nodes
      /\ \A n \in Nodes : DOMAIN cache'[n] = DOMAIN cache[n]
      /\ \A n \in Nodes : \A p \in DOMAIN cache[n] :
            cache'[n][p] = Entry(cache[n][p].connection_id, Older(cache[n][p].age))
    BY DEF Tick
<1>7. \A n \in Nodes : \A p \in DOMAIN cache[n] :
          /\ cache'[n][p] \in [connection_id : Nat, age : Ages]
          /\ cache'[n][p].age = Older(cache[n][p].age)
          /\ cache'[n][p].connection_id = cache[n][p].connection_id
    <2>1. \A n \in Nodes : \A p \in DOMAIN cache[n] : Older(cache[n][p].age) \in Ages
        BY <1>5, OlderFacts
    <2> SUFFICES ASSUME NEW n \in Nodes, NEW p \in DOMAIN cache[n]
                 PROVE  /\ cache'[n][p] \in [connection_id : Nat, age : Ages]
                        /\ cache'[n][p].age = Older(cache[n][p].age)
                        /\ cache'[n][p].connection_id = cache[n][p].connection_id
        OBVIOUS
    <2> DEFINE c == cache[n][p].connection_id
               a == Older(cache[n][p].age)
    <2>2. c \in Nat /\ a \in Ages /\ cache'[n][p] = Entry(c, a)
        BY <1>5, <1>6, <2>1
    <2> HIDE DEF c, a
    <2>3. /\ cache'[n][p] \in [connection_id : Nat, age : Ages]
          /\ cache'[n][p].age = a /\ cache'[n][p].connection_id = c
        BY <2>2 DEF Entry
    <2>4. QED
        BY <2>3 DEF a, c
<1>8. CacheTyped'
    BY <1>5, <1>6, <1>7 DEF CacheTyped
<1>9. TypeOK'
    BY <1>1, <1>2, <1>4, <1>8 DEF TypeOK, CacheTyped
<1>10. CacheWasHeard'
    <2> SUFFICES ASSUME NEW n \in Nodes, NEW p \in DOMAIN cache[n]
                 PROVE  /\ heard'[n][p] <= cache'[n][p].age
                        /\ p # n
                        /\ cache'[n][p].connection_id \in 1 .. starts[p]
        BY <1>1, <1>6 DEF CacheWasHeard
    <2>1. /\ heard[n][p] <= cache[n][p].age /\ p # n
          /\ cache[n][p].connection_id \in 1 .. starts[p]
        BY DEF CacheWasHeard
    <2>2. Older(heard[n][p]) <= Older(cache[n][p].age)
        BY <1>3, <1>5, <2>1, OlderFacts
    <2>3. QED
        BY <1>4, <1>5, <1>7, <2>1, <2>2
<1>11. AnnouncesHappened' /\ RunningStarted'
    BY <1>1 DEF AnnouncesHappened, RunningStarted, Running
<1>12. QED
    BY <1>6, <1>9, <1>10, <1>11

LEMMA DeliverStep ==
    ASSUME IInv, NEW m \in net, Deliver(m)
    PROVE  IInv'
<1>1. UNCHANGED <<status, starts, wait, locked>>
    BY DEF Deliver
<1>2. QED
    BY <1>1, HandleAnnounceStep, HandleQueryStep, HandleGoodbyeStep, VanishStep DEF Deliver

LEMMA NextIInv == IInv /\ [Next]_vars => IInv'
<1> SUFFICES ASSUME IInv, [Next]_vars PROVE IInv'
    OBVIOUS
<1>1. ASSUME NEW n \in Nodes, Start(n) \/ Announce(n) PROVE IInv'
    BY <1>1, StartStep, AnnounceStep
<1>2. ASSUME NEW n \in Readers, LockPeers(n) \/ GetPeers(n) \/ Ask(n) PROVE IInv'
    BY <1>2, LockStep, GetPeersStep, AskStep, RangeFacts
<1>3. ASSUME NEW n \in Stoppable, Shutdown(n) \/ Exit(n) PROVE IInv'
    BY <1>3, ShutdownStep, ExitStep, RangeFacts
<1>4. ASSUME NEW m \in net, Deliver(m) PROVE IInv'
    BY <1>4, DeliverStep
<1>5. CASE Tick
    BY <1>5, TickStep
<1>6. CASE UNCHANGED vars
    <2>1. UNCHANGED <<status, starts, wait, cache, locked, net, heard>>
        BY <1>6 DEF vars
    <2>2. QED
        BY <2>1, SendStep DEF IInv, TypeOK, Running
<1>7. QED
    BY <1>1, <1>2, <1>3, <1>4, <1>5, <1>6 DEF Next

LEMMA SpecIInv == Spec => []IInv
BY InitIInv, NextIInv, PTL DEF Spec

-----------------------------------------------------------------------------
(* The theorems. *)

\* The variables keep their types (Discovery.tla, TypeOK).
THEOREM TypeCorrect == Spec => []TypeOK
<1>1. IInv => TypeOK
    BY DEF IInv
<1>2. QED
    BY <1>1, SpecIInv, PTL

\* A listed peer was heard of less than CACHE_TTL ago, under a connection id it has
\* had, whatever the network does (discovery.rs: handle_message and get_peers).
THEOREM ListedWasHeardHolds == Spec => []ListedWasHeard
<1>1. IInv => ListedWasHeard
    <2> SUFFICES ASSUME IInv, NEW n \in Nodes, NEW p \in Listed(n)
                 PROVE  /\ heard[n][p] < CacheTtl
                        /\ p # n
                        /\ cache[n][p].connection_id \in 1 .. starts[p]
        BY DEF ListedWasHeard
    <2>1. p \in DOMAIN cache[n] /\ cache[n][p].age < CacheTtl
        BY DEF Listed, Fresh
    <2>2. /\ heard[n][p] <= cache[n][p].age /\ p # n
          /\ cache[n][p].connection_id \in 1 .. starts[p]
        BY <2>1 DEF IInv, CacheWasHeard
    <2>3. heard[n][p] \in Nat /\ cache[n][p].age \in Nat /\ CacheTtl \in Nat
        BY <2>1, RangeFacts DEF IInv, TypeOK, Ages
    <2>4. QED
        BY <2>1, <2>2, <2>3
<1>2. QED
    BY <1>1, SpecIInv, PTL

\* Only a goodbye removes a peer heard of less than CACHE_TTL ago from the cache of a
\* node that runs on (discovery.rs: get_peers and remove_peer).
THEOREM FreshPeersStayHolds == Spec => FreshPeersStay
<1> DEFINE A == \A n \in Nodes : \A p \in DOMAIN cache[n] :
          p \notin DOMAIN cache'[n] /\ Running(n)' /\ cache[n][p].age < CacheTtl =>
              \E m \in net \ net' : m.kind = "Goodbye" /\ m.to = n /\ m.from = p
<1>1. ASSUME IInv, Next PROVE A
    <2> SUFFICES ASSUME NEW n \in Nodes, NEW p \in DOMAIN cache[n],
                        p \notin DOMAIN cache'[n], Running(n)', cache[n][p].age < CacheTtl
                 PROVE  \E m \in net \ net' : m.kind = "Goodbye" /\ m.to = n /\ m.from = p
        OBVIOUS
    <2>1. cache' # cache
        OBVIOUS
    <2>2. ASSUME NEW q \in Nodes,
                 Start(q) \/ Announce(q) \/ LockPeers(q) \/ Ask(q) \/ Shutdown(q)
          PROVE  FALSE
        BY <2>1, <2>2 DEF Start, Announce, LockPeers, Ask, Shutdown
    <2>3. ASSUME NEW q \in Nodes, GetPeers(q) PROVE FALSE
        <3>1. CASE q = n
            BY <1>1, <2>3, <3>1, GetPeersStep DEF Listed, Fresh
        <3>2. CASE q # n
            BY <1>1, <2>3, <3>2, GetPeersStep
        <3>3. QED
            BY <3>1, <3>2
    <2>4. ASSUME NEW q \in Nodes, Exit(q) PROVE FALSE
        BY <1>1, <2>4, ExitStep
    <2>5. CASE Tick
        BY <1>1, <2>5, TickStep
    <2>6. ASSUME NEW m \in net, Deliver(m)
          PROVE  \E f \in net \ net' : f.kind = "Goodbye" /\ f.to = n /\ f.from = p
        <3>1. UNCHANGED <<status, starts, wait, locked>>
            BY <2>6 DEF Deliver
        <3>2. CASE HandleAnnounce(m)
            BY <1>1, <3>1, <3>2, HandleAnnounceStep
        <3>3. CASE HandleQuery(m) \/ Vanish(m)
            BY <2>1, <3>3 DEF HandleQuery, Vanish
        <3>4. CASE HandleGoodbye(m)
            BY <1>1, <3>1, <3>4, HandleGoodbyeStep
        <3>5. QED
            BY <2>6, <3>2, <3>3, <3>4 DEF Deliver
    <2>7. QED
        BY <1>1, <2>2, <2>3, <2>4, <2>5, <2>6, RangeFacts DEF Next
<1>2. ASSUME IInv, [Next]_vars PROVE [A]_vars
    BY <1>1, <1>2
<1> HIDE DEF A
<1>3. IInv /\ [Next]_vars => [A]_vars
    BY <1>2
<1>4. Spec => [][A]_vars
    BY <1>3, SpecIInv, PTL DEF Spec
<1>5. QED
    BY <1>4 DEF A, FreshPeersStay
=============================================================================
