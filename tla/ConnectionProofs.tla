--------------------------- MODULE ConnectionProofs ---------------------------
(***************************************************************************)
(* Proofs about Connection for any number of clients, any configurations   *)
(* and any number of network faults.                                       *)
(***************************************************************************)
EXTENDS Connection, SequenceTheorems, TLAPS

(* Losing, repeating and reordering datagrams creates none: a queue of S     *)
(* stays a queue of S, for every set S.                                      *)
LEMMA FaultyQueueType ==
    ASSUME NEW S, NEW q \in Seq(S), NEW r \in Faulty(q)
    PROVE  r \in Seq(S)
<1>1. CASE r \in Lost(q)
  <2>1. PICK k \in DOMAIN q : r = RemoveAt(q, k)
    BY <1>1 DEF Lost
  <2>2. SubSeq(q, 1, k - 1) \in Seq(S) /\ SubSeq(q, k + 1, Len(q)) \in Seq(S)
    OBVIOUS
  <2> QED
    BY <2>1, <2>2 DEF RemoveAt
<1>2. CASE r \in Duplicated(q)
  BY <1>2 DEF Duplicated
<1>3. CASE r \in Swapped(q)
  BY <1>3 DEF Swapped
<1> QED
  BY <1>1, <1>2, <1>3 DEF Faulty

(* Every datagram of a faulty queue was in the original. *)
LEMMA FaultyQueues ==
    ASSUME NEW S, NEW q \in Seq(S), NEW r \in Faulty(q)
    PROVE  \A i \in DOMAIN r : \E j \in DOMAIN q : r[i] = q[j]
<1> DEFINE E == {q[j] : j \in DOMAIN q}
<1>1. q \in Seq(E)
  OBVIOUS
<1>2. r \in Seq(E)
  <2> HIDE DEF E
  <2> QED
    BY <1>1, FaultyQueueType
<1> QED
  BY <1>2

-----------------------------------------------------------------------------
(* Types. *)

LEMMA NegotiatedType ==
    ASSUME NEW s \in Capabilities, NEW c \in Capabilities
    PROVE  Negotiated(s, c) \in Capabilities
  BY DEF Negotiated, Capabilities, Lesser

LEMMA HelloType ==
    ASSUME NEW c \in Clients
    PROVE  HelloOf(c) \in Hellos
  BY CapsAssumption, SupportsAssumption DEF HelloOf, ClientHello, Hellos

(* The kind of a datagram tells which set it belongs to. *)
LEMMA Kinds ==
    ASSUME NEW m \in Datagrams
    PROVE  /\ m.kind = "ClientHello" => m \in Hellos
           /\ m.kind = "ServerHello" => m \in ServerHellos
  BY DEF Datagrams, Hellos, ServerHellos, Finisheds, Sealeds

LEMMA FinishedType ==
    ASSUME NEW S, NEW ctx \in Contexts(S)
    PROVE  CreateFinished(ctx) \in Datagrams
  BY DEF Contexts, CreateFinished, Finished, Finisheds, Datagrams

LEMMA NewContextType ==
    ASSUME NEW S, NEW id \in S
    PROVE  NewContext(id) \in Contexts(S)
  BY DEF NewContext, Contexts, HandshakeStates, Transcripts

LEMMA CreateClientHelloType ==
    ASSUME NEW c \in Clients, NEW ctx \in Contexts(Clients)
    PROVE  CreateClientHello(ctx, Supports[c], ClientCaps[c]) \in Contexts(Clients)
<1> DEFINE hello == ClientHello(ctx.our, Supports[c], ClientCaps[c])
           full  == Append(ctx.transcript, hello)
<1>1. hello \in Hellos
  BY CapsAssumption, SupportsAssumption DEF ClientHello, Hellos, Contexts
<1>2. full \in Transcripts
  <2> HIDE DEF hello
  <2> QED
    BY <1>1 DEF Contexts, Transcripts
<1>3. CreateClientHello(ctx, Supports[c], ClientCaps[c]) =
        [ctx EXCEPT !.transcript = full, !.state = "HelloSent"]
  BY DEF CreateClientHello
<1> HIDE DEF full
<1> QED
  BY <1>2, <1>3 DEF Contexts, HandshakeStates

LEMMA HandleClientHelloType ==
    ASSUME NEW m \in Hellos, NEW n \in Nat, NEW caps \in Capabilities
    PROVE  /\ HandleClientHello(NewContext(None), m, n, caps)
                 \in Contexts(Nat \cup {None})
           /\ HandleClientHello(NewContext(None), m, n, caps).transcript[2]
                 \in ServerHellos
<1> DEFINE agreed == Negotiated(caps, m.caps)
           heard  == Append(NewContext(None).transcript, m)
           hello  == ServerHello(n, m.cid, heard, agreed)
           full   == Append(heard, hello)
<1>1. m.cid \in Clients /\ m.caps \in Capabilities
  BY DEF Hellos
<1>2. agreed \in Capabilities
  BY <1>1, NegotiatedType
<1>3. heard \in Seq(Hellos) /\ heard = <<m>>
  BY DEF NewContext
<1>4. hello \in ServerHellos
  <2> HIDE DEF agreed, heard
  <2> QED
    BY <1>1, <1>2, <1>3 DEF ServerHello, ServerHellos
<1>5. full \in Transcripts /\ full[2] = hello
  <2> HIDE DEF hello
  <2> QED
    BY <1>3, <1>4 DEF Transcripts
<1>6. SessionKey(n, m.cid, full) \in Keys
  <2> HIDE DEF full
  <2> QED
    BY <1>1, <1>5 DEF SessionKey, Keys, Ids
<1>7. HandleClientHello(NewContext(None), m, n, caps) =
        [state |-> "KeysDerived", our |-> n, peer |-> m.cid, transcript |-> full,
         session_key |-> SessionKey(n, m.cid, full), capabilities |-> agreed]
  BY DEF HandleClientHello
<1> HIDE DEF agreed, full
<1> QED
  BY <1>1, <1>2, <1>4, <1>5, <1>6, <1>7 DEF Contexts, HandshakeStates, Ids

LEMMA HandleServerHelloType ==
    ASSUME NEW m \in ServerHellos, NEW ctx \in Contexts(Clients)
    PROVE  HandleServerHello(ctx, m) \in Contexts(Clients)
<1> DEFINE full == Append(ctx.transcript, m)
<1>1. full \in Transcripts
  BY DEF Contexts, Transcripts
<1>2. m.src \in Nat /\ m.caps \in Capabilities /\ ctx.our \in Clients
  BY DEF ServerHellos, Contexts
<1>3. SessionKey(ctx.our, m.src, full) \in Keys
  <2> HIDE DEF full
  <2> QED
    BY <1>1, <1>2 DEF SessionKey, Keys, Ids
<1> QED
  BY <1>1, <1>2, <1>3 DEF HandleServerHello, Contexts, HandshakeStates, Ids

LEMMA CompleteHandshakeType ==
    ASSUME NEW S, NEW ctx \in Contexts(S)
    PROVE  CompleteHandshake(ctx) \in Contexts(S)
  BY DEF CompleteHandshake, Contexts, HandshakeStates

LEMMA Enqueue ==
    ASSUME NEW q \in [Clients -> Seq(Datagrams)], NEW c \in Clients,
           NEW m \in Datagrams
    PROVE  [q EXCEPT ![c] = Append(@, m)] \in [Clients -> Seq(Datagrams)]
  OBVIOUS

LEMMA UpdateAccepted ==
    ASSUME NEW s \in Seq(AcceptedConnections), NEW k \in DOMAIN s,
           NEW x \in AcceptedConnections
    PROVE  [s EXCEPT ![k] = x] \in Seq(AcceptedConnections)
  OBVIOUS

(* Every step keeps the types. *)
LEMMA TypeStep == TypeOK /\ [Next]_vars => TypeOK'
<1> SUFFICES ASSUME TypeOK, [Next]_vars
             PROVE  TypeOK'
  OBVIOUS
<1>1. ASSUME NEW c \in Clients, Connect(c) PROVE TypeOK'
  <2>1. hs' \in [Clients -> Contexts(Clients)]
    BY <1>1, CreateClientHelloType DEF TypeOK, Connect
  <2>2. toServer' \in [Clients -> Seq(Datagrams)]
    BY <1>1, HelloType DEF TypeOK, Connect, Datagrams
  <2>3. phase' \in [Clients -> Phases]
    BY <1>1 DEF TypeOK, Connect, Phases
  <2> QED
    BY <1>1, <2>1, <2>2, <2>3 DEF TypeOK, Connect, serverVars
<1>2. ASSUME NEW c \in Clients, ReceiveServerHello(c) PROVE TypeOK'
  <2>1. Head(toClient[c]) \in Datagrams
    BY <1>2 DEF TypeOK, ReceiveServerHello
  <2>2. hs' \in [Clients -> Contexts(Clients)]
    <3>1. hs[c] \in Contexts(Clients)
      BY DEF TypeOK
    <3>2. Head(toClient[c]).kind = "ServerHello" =>
             HandleServerHello(hs[c], Head(toClient[c])) \in Contexts(Clients)
      BY <2>1, <3>1, Kinds, HandleServerHelloType
    <3>3. \/ UNCHANGED hs
          \/ /\ Head(toClient[c]).kind = "ServerHello"
             /\ hs' = [hs EXCEPT ![c] = HandleServerHello(@, Head(toClient[c]))]
      BY <1>2 DEF ReceiveServerHello
    <3> QED
      BY <3>2, <3>3 DEF TypeOK
  <2>3. phase' \in [Clients -> Phases]
    BY <1>2 DEF TypeOK, ReceiveServerHello, Phases
  <2>4. toClient' \in [Clients -> Seq(Datagrams)]
    BY <1>2 DEF TypeOK, ReceiveServerHello
  <2> QED
    BY <1>2, <2>2, <2>3, <2>4 DEF TypeOK, ReceiveServerHello, serverVars
<1>3. ASSUME NEW c \in Clients, ReceiveFinished(c) PROVE TypeOK'
  <2>0. /\ hs[c] \in Contexts(Clients)
        /\ CompleteHandshake(hs[c]) \in Contexts(Clients)
        /\ CreateFinished(hs[c]) \in Datagrams
    <3>1. hs[c] \in Contexts(Clients)
      BY DEF TypeOK
    <3> QED
      BY <3>1, CompleteHandshakeType, FinishedType
  <2>1. hs' \in [Clients -> Contexts(Clients)]
    BY <1>3, <2>0 DEF TypeOK, ReceiveFinished
  <2>2. toServer' \in [Clients -> Seq(Datagrams)]
    <3> DEFINE m == CreateFinished(hs[c])
    <3>1. \/ UNCHANGED toServer
          \/ toServer' = [toServer EXCEPT ![c] = Append(@, m)]
      BY <1>3 DEF ReceiveFinished
    <3>2. m \in Datagrams /\ toServer \in [Clients -> Seq(Datagrams)]
      BY <2>0 DEF TypeOK
    <3> HIDE DEF m
    <3>3. [toServer EXCEPT ![c] = Append(@, m)] \in [Clients -> Seq(Datagrams)]
      BY <3>2, Enqueue
    <3> QED
      BY <3>1, <3>2, <3>3
  <2>3. phase' \in [Clients -> Phases]
    BY <1>3 DEF TypeOK, ReceiveFinished, Phases
  <2>4. toClient' \in [Clients -> Seq(Datagrams)]
    BY <1>3 DEF TypeOK, ReceiveFinished
  <2> QED
    BY <1>3, <2>1, <2>2, <2>3, <2>4 DEF TypeOK, ReceiveFinished, serverVars
<1>4. ASSUME NEW c \in Clients, ClientSend(c) PROVE TypeOK'
  <2>1. Sealed(hs[c], TRUE) \in Datagrams
    BY DEF TypeOK, Sealed, Sealeds, Datagrams, Contexts, Ids
  <2>2. toServer' \in [Clients -> Seq(Datagrams)]
    BY <1>4, <2>1, Enqueue DEF TypeOK, ClientSend
  <2>3. result' \in [Clients -> Results] /\ sends' \in [Clients -> Nat]
    BY <1>4 DEF TypeOK, ClientSend, Results
  <2> QED
    BY <1>4, <2>2, <2>3 DEF TypeOK, ClientSend, serverVars
<1>5. ASSUME NEW c \in Clients, ClientReceive(c) PROVE TypeOK'
  <2>1. result' \in [Clients -> Results]
    BY <1>5 DEF TypeOK, ClientReceive, Results
  <2>2. toClient' \in [Clients -> Seq(Datagrams)]
    BY <1>5 DEF TypeOK, ClientReceive
  <2> QED
    BY <1>5, <2>1, <2>2 DEF TypeOK, ClientReceive, serverVars
<1>6. ASSUME NEW c \in Clients, ClientClose(c) PROVE TypeOK'
  BY <1>6 DEF TypeOK, ClientClose, serverVars, netVars, Phases, Results
<1>7. ASSUME NEW c \in Clients, AcceptHello(c) PROVE TypeOK'
  <2> DEFINE m   == Head(toServer[c])
             ctx == HandleClientHello(NewContext(None), m, answered + 1, ServerCaps)
  <2>1. m \in Datagrams /\ toServer' \in [Clients -> Seq(Datagrams)]
    BY <1>7 DEF TypeOK, AcceptHello
  <2>2. CASE m.kind = "ClientHello" /\ VersionSupported(m)
    <3>1. /\ accept' = [pc |-> "recv_finished", peer |-> c, hs |-> ctx]
          /\ toClient' = [toClient EXCEPT ![c] =
                            @ \o <<ctx.transcript[2], CreateFinished(ctx)>>]
          /\ answered' = answered + 1
      BY <1>7, <2>2 DEF AcceptHello
    <3>2. ctx \in Contexts(Nat \cup {None}) /\ ctx.transcript[2] \in Datagrams
      <4>1. m \in Hellos /\ answered + 1 \in Nat /\ ServerCaps \in Capabilities
        BY <2>1, <2>2, Kinds, CapsAssumption DEF TypeOK
      <4> HIDE DEF m
      <4>2. ctx \in Contexts(Nat \cup {None}) /\ ctx.transcript[2] \in ServerHellos
        BY <4>1, HandleClientHelloType
      <4> QED
        BY <4>2 DEF Datagrams
    <3>3. CreateFinished(ctx) \in Datagrams
      BY <3>2, FinishedType
    <3> HIDE DEF m, ctx
    <3>4. toClient' \in [Clients -> Seq(Datagrams)]
      <4> DEFINE sh == ctx.transcript[2]
                 sf == CreateFinished(ctx)
      <4>1. sh \in Datagrams /\ sf \in Datagrams
        BY <3>2, <3>3
      <4>2. toClient' = [toClient EXCEPT ![c] = @ \o <<sh, sf>>]
        BY <3>1
      <4> HIDE DEF sh, sf
      <4> QED
        BY <4>1, <4>2 DEF TypeOK
    <3> QED
      BY <1>7, <2>1, <3>1, <3>2, <3>4 DEF TypeOK, AcceptHello, clientVars, Accepting
  <2>3. CASE ~(m.kind = "ClientHello" /\ VersionSupported(m))
    BY <1>7, <2>1, <2>3 DEF TypeOK, AcceptHello, clientVars
  <2> QED
    BY <2>2, <2>3
<1>8. ASSUME NEW c \in Clients, AcceptFinished(c) PROVE TypeOK'
  <2>1. accept' = Listening /\ NewContext(None) \in Contexts(Nat \cup {None})
    BY <1>8, NewContextType DEF AcceptFinished
  <2>2. accepted' \in Seq(AcceptedConnections)
    <3> DEFINE conn == [peer |-> accept.peer, state |-> "Active",
                        hs |-> CompleteHandshake(accept.hs), result |-> "none"]
    <3>1. accepted' = Append(accepted, conn) \/ UNCHANGED accepted
      BY <1>8 DEF AcceptFinished
    <3>2. accept.peer \in Clients /\ accept.hs \in Contexts(Nat \cup {None})
      BY <1>8 DEF TypeOK, Accepting, AcceptFinished
    <3>3. CompleteHandshake(accept.hs) \in Contexts(Nat \cup {None})
      BY <3>2, CompleteHandshakeType
    <3>4. conn \in AcceptedConnections
      BY <3>2, <3>3 DEF AcceptedConnections, Results
    <3>5. accepted \in Seq(AcceptedConnections)
      BY DEF TypeOK
    <3> HIDE DEF conn
    <3> QED
      BY <3>1, <3>4, <3>5
  <2>3. toServer' \in [Clients -> Seq(Datagrams)]
    BY <1>8 DEF TypeOK, AcceptFinished
  <2> QED
    BY <1>8, <2>1, <2>2, <2>3 DEF TypeOK, AcceptFinished, clientVars, Listening, Accepting
<1>9. ASSUME NEW k \in DOMAIN accepted, NEW c \in Clients, ServerReceive(k, c)
      PROVE  TypeOK'
  <2>1. toServer' \in [Clients -> Seq(Datagrams)]
    BY <1>9 DEF TypeOK, ServerReceive
  <2>2. accepted' \in Seq(AcceptedConnections)
    <3>1. accepted[k] \in AcceptedConnections
      BY DEF TypeOK
    <3>2. PICK x \in AcceptedConnections : accepted' = [accepted EXCEPT ![k] = x]
      <4>1. CASE accepted' = [accepted EXCEPT ![k].result = "ok"]
        <5> DEFINE x == [accepted[k] EXCEPT !.result = "ok"]
        <5>1. x \in AcceptedConnections
          BY <3>1 DEF AcceptedConnections, Results
        <5> QED
          BY <4>1, <5>1
      <4>2. CASE accepted' = [accepted EXCEPT ![k].result = "CryptoError",
                                              ![k].state = "dropped"]
        <5> DEFINE x == [accepted[k] EXCEPT !.result = "CryptoError",
                                            !.state = "dropped"]
        <5>1. x \in AcceptedConnections
          BY <3>1 DEF AcceptedConnections, Results
        <5>2. accepted' = [accepted EXCEPT ![k] = x]
          BY <4>2 DEF TypeOK
        <5> QED
          BY <5>1, <5>2
      <4> QED
        BY <1>9, <4>1, <4>2 DEF ServerReceive
    <3> QED
      BY <3>2, UpdateAccepted DEF TypeOK
  <2> QED
    BY <1>9, <2>1, <2>2 DEF TypeOK, ServerReceive, clientVars
<1>10. ASSUME NEW k \in DOMAIN accepted, ServerSend(k) PROVE TypeOK'
  <2>1. accepted' \in Seq(AcceptedConnections)
    <3> DEFINE x == [accepted[k] EXCEPT !.result = "IoError"]
    <3>0. accepted[k] \in AcceptedConnections
      BY DEF TypeOK
    <3>1. x \in AcceptedConnections
      BY <3>0 DEF AcceptedConnections, Results
    <3>2. accepted' = [accepted EXCEPT ![k] = x]
      BY <1>10 DEF ServerSend
    <3> QED
      BY <3>1, <3>2, UpdateAccepted DEF TypeOK
  <2> QED
    BY <1>10, <2>1 DEF TypeOK, ServerSend, clientVars, netVars
<1>11. ASSUME NEW c \in Clients, NetworkFault(c) PROVE TypeOK'
  <2>1. faults' \in Nat
    BY <1>11 DEF TypeOK, NetworkFault
  <2>2. toServer' \in [Clients -> Seq(Datagrams)]
    BY <1>11, FaultyQueueType DEF TypeOK, NetworkFault
  <2>3. toClient' \in [Clients -> Seq(Datagrams)]
    BY <1>11, FaultyQueueType DEF TypeOK, NetworkFault
  <2> QED
    BY <1>11, <2>1, <2>2, <2>3 DEF TypeOK, NetworkFault, clientVars, serverVars
<1>12. CASE UNCHANGED vars
  BY <1>12 DEF TypeOK, vars, clientVars, serverVars, netVars
<1> QED
  BY <1>1, <1>2, <1>3, <1>4, <1>5, <1>6, <1>7, <1>8, <1>9, <1>10, <1>11, <1>12
     DEF Next, Client, Server

LEMMA TypeInit == Init => TypeOK
<1> SUFFICES ASSUME Init PROVE TypeOK
  OBVIOUS
<1>1. hs \in [Clients -> Contexts(Clients)]
  BY NewContextType DEF Init
<1>2. Listening \in Accepting
  BY NewContextType DEF Listening, Accepting
<1> QED
  BY <1>1, <1>2 DEF Init, TypeOK, Phases, Results

(* Every variable keeps its type, for any clients, configurations and        *)
(* number of network faults.                                                 *)
THEOREM TypeCorrect == Spec => []TypeOK
  BY TypeInit, TypeStep, PTL DEF Spec

-----------------------------------------------------------------------------
(* Provenance. *)

LEMMA AppendTuple ==
    ASSUME NEW x, NEW y
    PROVE  Append(<<>>, x) = <<x>> /\ Append(<<x>>, y) = <<x, y>>
<1> DEFINE S == {x, y}
           a == Append(<<x>>, y)
           b == <<x, y>>
<1>1. a \in Seq(S) /\ Len(a) = 2 /\ a[1] = x /\ a[2] = y
  OBVIOUS
<1>2. b \in Seq(S) /\ Len(b) = 2 /\ b[1] = x /\ b[2] = y
  OBVIOUS
<1>3. a = b
  <2> HIDE DEF S, a, b
  <2> QED
    BY <1>1, <1>2, SeqEqual
<1> QED
  BY <1>3

LEMMA HelloSent ==
    ASSUME NEW c \in Clients, NEW ctx,
           ctx = CreateClientHello(NewContext(c), Supports[c], ClientCaps[c])
    PROVE  /\ ctx.our = c
           /\ ctx.state = "HelloSent"
           /\ ctx.transcript = <<HelloOf(c)>>
           /\ ctx.session_key = None
           /\ DOMAIN ctx = {"state", "our", "peer", "transcript",
                            "session_key", "capabilities"}
<1> DEFINE old == NewContext(c)
<1>1. /\ old.our = c
      /\ old.transcript = <<>>
      /\ old.session_key = None
      /\ DOMAIN old = {"state", "our", "peer", "transcript",
                       "session_key", "capabilities"}
  BY DEF NewContext
<1>2. ctx = [old EXCEPT !.transcript = <<HelloOf(c)>>, !.state = "HelloSent"]
  <2> HIDE DEF old
  <2> QED
    BY <1>1, AppendTuple DEF CreateClientHello, HelloOf, old
<1> HIDE DEF old
<1> QED
  BY <1>1, <1>2

(* What the server derives from the ClientHello of c. *)
LEMMA HelloAnswered ==
    ASSUME NEW c \in Clients, NEW n \in Nat, NEW ctx,
           ctx = HandleClientHello(NewContext(None), HelloOf(c), n, ServerCaps)
    PROVE  /\ ServerContext(ctx, c)
           /\ ctx.our = n
           /\ ctx.transcript[2].kind = "ServerHello"
           /\ FromServer(c, ctx.transcript[2])
<1> DEFINE agreed == Negotiated(ServerCaps, ClientCaps[c])
           sh == ServerHello(n, c, <<HelloOf(c)>>, agreed)
           full == <<HelloOf(c), sh>>
<1>1. /\ HelloOf(c).cid = c
      /\ HelloOf(c).caps = ClientCaps[c]
  BY DEF HelloOf, ClientHello
<1>2. ctx = [state |-> "KeysDerived", our |-> n, peer |-> c, transcript |-> full,
             session_key |-> SessionKey(n, c, full), capabilities |-> agreed]
  BY <1>1, AppendTuple DEF HandleClientHello, NewContext
<1>3. /\ sh.src = n
      /\ sh.kind = "ServerHello"
      /\ sh.signed = <<HelloOf(c)>>
      /\ sh.caps = agreed
  BY DEF ServerHello
<1>4. full[1] = HelloOf(c) /\ full[2] = sh
  OBVIOUS
<1> HIDE DEF sh, agreed
<1>5. Derived(ctx, c, n)
  BY <1>1, <1>2, <1>3, <1>4 DEF Derived
<1> QED
  BY <1>2, <1>3, <1>4, <1>5 DEF ServerContext, FromServer, agreed

(* What the client derives from a ServerHello made for it. *)
LEMMA HelloCompleted ==
    ASSUME NEW c \in Clients, NEW m, m.kind = "ServerHello", FromServer(c, m),
           NEW old, old = CreateClientHello(NewContext(c), Supports[c], ClientCaps[c]),
           NEW ctx, ctx = HandleServerHello(old, m)
    PROVE  /\ ctx.our = c
           /\ ctx.state = "KeysDerived"
           /\ Derived(ctx, c, ctx.peer)
           /\ ctx.capabilities = Negotiated(ServerCaps, ClientCaps[c])
<1> DEFINE full == <<HelloOf(c), m>>
<1>1. Append(<<HelloOf(c)>>, m) = full
  BY AppendTuple
<1>2. /\ ctx.our = c
      /\ ctx.peer = m.src
      /\ ctx.state = "KeysDerived"
      /\ ctx.transcript = full
      /\ ctx.session_key = SessionKey(c, m.src, full)
      /\ ctx.capabilities = m.caps
  <2>1. /\ old.our = c
        /\ old.transcript = <<HelloOf(c)>>
        /\ DOMAIN old = {"state", "our", "peer", "transcript",
                         "session_key", "capabilities"}
    BY HelloSent
  <2>2. Append(old.transcript, m) = full
    BY <1>1, <2>1
  <2> HIDE DEF full
  <2> QED
    BY <2>1, <2>2 DEF HandleServerHello
<1>3. full[1].cid = c /\ full[2] = m
  BY DEF HelloOf, ClientHello
<1>4. full = <<full[1], full[2]>>
  OBVIOUS
<1> HIDE DEF full
<1> QED
  BY <1>2, <1>3, <1>4 DEF Derived, FromServer

(* A completed handshake never changes. *)
LEMMA CompleteIsFinal ==
    ASSUME TypeOK, ClientProvenance, [Next]_vars,
           NEW c \in Clients, hs[c].state = "Complete"
    PROVE  hs'[c] = hs[c]
<1>1. phase[c] \in {"Active", "Closing"}
  BY DEF ClientProvenance, ClientContext
<1>2. ASSUME NEW d \in Clients, Client(d) PROVE hs'[c] = hs[c]
  BY <1>1, <1>2 DEF TypeOK, Client, Connect, ReceiveServerHello, ReceiveFinished,
     ClientSend, ClientReceive, ClientClose
<1>3. ASSUME Server PROVE UNCHANGED hs
  BY <1>3 DEF Server, AcceptHello, AcceptFinished, ServerSend, ServerReceive,
     clientVars
<1>4. ASSUME NEW d \in Clients, NetworkFault(d) PROVE UNCHANGED hs
  BY <1>4 DEF NetworkFault, clientVars
<1>5. UNCHANGED vars => UNCHANGED hs
  BY DEF vars, clientVars
<1> QED
  BY <1>2, <1>3, <1>4, <1>5 DEF Next

(* Client contexts: only the client's own handshake steps change them. *)
LEMMA ClientStep ==
    ASSUME TypeOK, Provenance, [Next]_vars
    PROVE  ClientProvenance'
<1> SUFFICES ASSUME NEW c \in Clients PROVE ClientContext(c)'
  BY DEF ClientProvenance
<1>0. ClientContext(c)
  BY DEF Provenance, ClientProvenance
<1>1. ASSUME NEW d \in Clients, Connect(d) PROVE ClientContext(c)'
  <2>1. CASE d = c
    <3>1. /\ hs'[c] = CreateClientHello(NewContext(c), Supports[c], ClientCaps[c])
          /\ phase'[c] = "await_server_hello"
      BY <1>0, <1>1, <2>1 DEF Connect, TypeOK, ClientContext
    <3>2. hs'[c].our = c /\ hs'[c].state = "HelloSent"
      BY <3>1, HelloSent
    <3> QED
      BY <3>1, <3>2 DEF ClientContext
  <2>2. CASE d # c
    BY <1>0, <1>1, <2>2 DEF Connect, TypeOK, ClientContext
  <2> QED
    BY <2>1, <2>2
<1>2. ASSUME NEW d \in Clients, ReceiveServerHello(d) PROVE ClientContext(c)'
  <2> DEFINE m == Head(toClient[c])
  <2>1. CASE d # c
    BY <1>0, <1>2, <2>1 DEF ReceiveServerHello, TypeOK, ClientContext
  <2>2. CASE /\ d = c
             /\ phase'[c] = "await_finished"
             /\ m.kind = "ServerHello"
             /\ hs' = [hs EXCEPT ![c] = HandleServerHello(@, m)]
    <3>1. hs[c] = CreateClientHello(NewContext(c), Supports[c], ClientCaps[c])
      BY <1>0, <1>2, <2>2 DEF ReceiveServerHello, ClientContext
    <3>2. FromServer(c, m)
      <4>1. m = toClient[c][1] /\ 1 \in DOMAIN toClient[c]
        BY <1>2, <2>2 DEF ReceiveServerHello, TypeOK
      <4> QED
        BY <4>1 DEF Provenance, DatagramProvenance
    <3>3. hs'[c] = HandleServerHello(hs[c], m)
      BY <2>2 DEF TypeOK
    <3> HIDE DEF m
    <3>4. /\ hs'[c].our = c
          /\ hs'[c].state = "KeysDerived"
          /\ Derived(hs'[c], c, hs'[c].peer)
          /\ hs'[c].capabilities = Negotiated(ServerCaps, ClientCaps[c])
      BY <2>2, <3>1, <3>2, <3>3, HelloCompleted
    <3> QED
      BY <2>2, <3>4 DEF ClientContext
  <2>3. CASE /\ d = c
             /\ phase'[c] \in {"dropped", "panicked"}
             /\ UNCHANGED hs
    BY <1>0, <1>2, <2>3 DEF ReceiveServerHello, ClientContext
  <2>4. \/ d # c
        \/ /\ d = c
           /\ phase'[c] = "await_finished"
           /\ m.kind = "ServerHello"
           /\ hs' = [hs EXCEPT ![c] = HandleServerHello(@, m)]
        \/ /\ d = c
           /\ phase'[c] \in {"dropped", "panicked"}
           /\ UNCHANGED hs
    BY <1>2 DEF ReceiveServerHello, TypeOK
  <2> QED
    BY <2>1, <2>2, <2>3, <2>4
<1>3. ASSUME NEW d \in Clients, ReceiveFinished(d) PROVE ClientContext(c)'
  <2>1. CASE d # c
    BY <1>0, <1>3, <2>1 DEF ReceiveFinished, TypeOK, ClientContext
  <2>2. CASE d = c /\ hs' = [hs EXCEPT ![c] = CompleteHandshake(@)]
                   /\ phase' = [phase EXCEPT ![c] = "Active"]
    <3>1. hs[c].state = "KeysDerived" /\ hs[c] \in Contexts(Clients)
      BY <1>0, <1>3, <2>2 DEF ReceiveFinished, ClientContext, TypeOK
    <3>2. /\ hs'[c] = [hs[c] EXCEPT !.state = "Complete"]
          /\ phase'[c] = "Active"
      BY <2>2 DEF TypeOK, CompleteHandshake
    <3>3. /\ hs'[c].state = "Complete"
          /\ hs'[c].our = hs[c].our
          /\ hs'[c].peer = hs[c].peer
          /\ hs'[c].transcript = hs[c].transcript
          /\ hs'[c].session_key = hs[c].session_key
          /\ hs'[c].capabilities = hs[c].capabilities
      BY <3>1, <3>2 DEF Contexts
    <3> QED
      BY <1>0, <3>1, <3>2, <3>3 DEF ClientContext, Derived
  <2>3. CASE d = c /\ UNCHANGED hs /\ phase' = [phase EXCEPT ![c] = "dropped"]
    BY <1>0, <1>3, <2>3 DEF ReceiveFinished, TypeOK, ClientContext
  <2> QED
    BY <1>3, <2>1, <2>2, <2>3 DEF ReceiveFinished
<1>4. ASSUME NEW d \in Clients, ClientSend(d) \/ ClientReceive(d) PROVE ClientContext(c)'
  BY <1>0, <1>4 DEF ClientSend, ClientReceive, ClientContext
<1>5. ASSUME NEW d \in Clients, ClientClose(d) PROVE ClientContext(c)'
  BY <1>0, <1>5 DEF ClientClose, TypeOK, ClientContext
<1>6. ASSUME Server PROVE ClientContext(c)'
  BY <1>0, <1>6 DEF Server, AcceptHello, AcceptFinished, ServerSend, ServerReceive,
     clientVars, ClientContext
<1>7. ASSUME NEW d \in Clients, NetworkFault(d) PROVE ClientContext(c)'
  BY <1>0, <1>7 DEF NetworkFault, clientVars, ClientContext
<1>8. CASE UNCHANGED vars
  BY <1>0, <1>8 DEF vars, clientVars, ClientContext
<1> QED
  BY <1>1, <1>2, <1>3, <1>4, <1>5, <1>6, <1>7, <1>8 DEF Next, Client

(* What a step adds to the queues towards the server: the sender's hello,    *)
(* its Finished, or a sealed frame.                                          *)
LEMMA ToServerStep ==
    ASSUME TypeOK, Provenance, [Next]_vars,
           NEW c \in Clients, NEW i \in DOMAIN toServer'[c]
    PROVE  \/ \E j \in DOMAIN toServer[c] : toServer'[c][i] = toServer[c][j]
           \/ toServer'[c][i] = HelloOf(c)
           \/ toServer'[c][i].kind = "Sealed"
           \/ /\ toServer'[c][i] = CreateFinished(hs'[c])
              /\ hs'[c].state = "Complete"
<1> DEFINE Old == \E j \in DOMAIN toServer[c] : toServer'[c][i] = toServer[c][j]
<1>0. toServer[c] \in Seq(Datagrams)
  BY DEF TypeOK
<1>1. toServer'[c] = toServer[c] => Old
  OBVIOUS
<1>2. ASSUME toServer'[c] = Tail(toServer[c]), toServer[c] # <<>> PROVE Old
  <2>1. i + 1 \in DOMAIN toServer[c] /\ toServer'[c][i] = toServer[c][i + 1]
    BY <1>0, <1>2
  <2> QED
    BY <2>1
<1>3. ASSUME NEW m, toServer'[c] = Append(toServer[c], m)
      PROVE  Old \/ toServer'[c][i] = m
  BY <1>0, <1>3
<1>4. ASSUME toServer'[c] \in Faulty(toServer[c]) PROVE Old
  BY <1>0, <1>4, FaultyQueues
<1>5. ASSUME NEW d \in Clients, Connect(d)
      PROVE  Old \/ toServer'[c][i] = HelloOf(c)
  <2>1. toServer'[c] = toServer[c] \/ toServer'[c] = Append(toServer[c], HelloOf(c))
    BY <1>5 DEF Connect, TypeOK
  <2> QED
    BY <1>1, <1>3, <2>1
<1>6. ASSUME NEW d \in Clients, ReceiveFinished(d)
      PROVE  \/ Old
             \/ /\ toServer'[c][i] = CreateFinished(hs'[c])
                /\ hs'[c].state = "Complete"
  <2>1. CASE toServer'[c] = toServer[c]
    BY <1>1, <2>1
  <2>2. CASE toServer'[c] # toServer[c]
    <3>1. /\ d = c
          /\ hs'[c] = CompleteHandshake(hs[c])
          /\ toServer'[c] = Append(toServer[c], CreateFinished(hs[c]))
          /\ hs[c] \in Contexts(Clients)
      BY <1>6, <2>2 DEF ReceiveFinished, TypeOK
    <3>2. /\ hs'[c].state = "Complete"
          /\ CreateFinished(hs'[c]) = CreateFinished(hs[c])
      BY <3>1 DEF CompleteHandshake, CreateFinished, Contexts
    <3> QED
      BY <1>3, <3>1, <3>2
  <2> QED
    BY <2>1, <2>2
<1>7. ASSUME NEW d \in Clients, ClientSend(d)
      PROVE  Old \/ toServer'[c][i].kind = "Sealed"
  <2>1. \/ toServer'[c] = toServer[c]
        \/ toServer'[c] = Append(toServer[c], Sealed(hs[c], TRUE))
    BY <1>7 DEF ClientSend, TypeOK
  <2>2. Sealed(hs[c], TRUE).kind = "Sealed"
    BY DEF Sealed
  <2> QED
    BY <1>1, <1>3, <2>1, <2>2
<1>8. ASSUME NEW d \in Clients, ReceiveServerHello(d) \/ ClientReceive(d) \/ ClientClose(d)
      PROVE  Old
  BY <1>1, <1>8 DEF ReceiveServerHello, ClientReceive, ClientClose, netVars
<1>9. ASSUME NEW d \in Clients, \/ AcceptHello(d) \/ AcceptFinished(d)
                                \/ \E k \in DOMAIN accepted : ServerReceive(k, d)
      PROVE  Old
  <2>1. toServer'[c] = toServer[c]
        \/ (toServer'[c] = Tail(toServer[c]) /\ toServer[c] # <<>>)
    BY <1>9 DEF AcceptHello, AcceptFinished, ServerReceive, TypeOK
  <2> QED
    BY <1>1, <1>2, <2>1
<1>10. ASSUME NEW k \in DOMAIN accepted, ServerSend(k) PROVE Old
  BY <1>1, <1>10 DEF ServerSend, netVars
<1>11. ASSUME NEW d \in Clients, NetworkFault(d) PROVE Old
  <2>1. toServer'[c] = toServer[c] \/ toServer'[c] \in Faulty(toServer[c])
    BY <1>11 DEF NetworkFault, TypeOK
  <2> QED
    BY <1>1, <1>4, <2>1
<1>12. ASSUME UNCHANGED vars PROVE Old
  BY <1>1, <1>12 DEF vars, netVars
<1> DEFINE Goal == \/ Old
                   \/ toServer'[c][i] = HelloOf(c)
                   \/ toServer'[c][i].kind = "Sealed"
                   \/ /\ toServer'[c][i] = CreateFinished(hs'[c])
                      /\ hs'[c].state = "Complete"
<1>13. ASSUME NEW d \in Clients, Client(d) PROVE Goal
  BY <1>5, <1>6, <1>7, <1>8, <1>13 DEF Client
<1>14. ASSUME Server PROVE Goal
  BY <1>9, <1>10, <1>14 DEF Server
<1> QED
  <2> HIDE DEF Goal
  <2>1. Goal
    <3>1. Old => Goal
      BY DEF Goal
    <3> HIDE DEF Old
    <3> QED
      BY <1>11, <1>12, <1>13, <1>14, <3>1 DEF Next
  <2> QED
    BY <2>1 DEF Goal

(* What a step adds to the queues towards a client. *)
LEMMA ToClientStep ==
    ASSUME TypeOK, Provenance, [Next]_vars,
           NEW c \in Clients, NEW i \in DOMAIN toClient'[c]
    PROVE  \/ \E j \in DOMAIN toClient[c] : toClient'[c][i] = toClient[c][j]
           \/ FromServer(c, toClient'[c][i])
<1> DEFINE Old == \E j \in DOMAIN toClient[c] : toClient'[c][i] = toClient[c][j]
           New == FromServer(c, toClient'[c][i])
<1>0. toClient[c] \in Seq(Datagrams)
  BY DEF TypeOK
<1>1. toClient'[c] = toClient[c] => Old
  OBVIOUS
<1>2. ASSUME toClient'[c] = Tail(toClient[c]), toClient[c] # <<>> PROVE Old
  <2>1. i + 1 \in DOMAIN toClient[c] /\ toClient'[c][i] = toClient[c][i + 1]
    BY <1>0, <1>2
  <2> QED
    BY <2>1
<1>3. ASSUME NEW d \in Clients, AcceptHello(d) PROVE Old \/ New
  <2>1. CASE toClient'[c] = toClient[c]
    BY <1>1, <2>1
  <2>2. CASE toClient'[c] # toClient[c]
    <3> DEFINE m   == Head(toServer[c])
               ctx == HandleClientHello(NewContext(None), m, answered + 1, ServerCaps)
               sh  == ctx.transcript[2]
               sf  == CreateFinished(ctx)
    <3>1. /\ d = c
          /\ m.kind = "ClientHello"
          /\ toClient'[c] = toClient[c] \o <<sh, sf>>
      BY <1>3, <2>2 DEF AcceptHello, TypeOK
    <3>2. m = HelloOf(c)
      <4>1. m = toServer[c][1] /\ 1 \in DOMAIN toServer[c]
        BY <1>3, <3>1 DEF AcceptHello, TypeOK
      <4> QED
        BY <3>1, <4>1 DEF Provenance, DatagramProvenance, FromClient
    <3>3. answered + 1 \in Nat
      BY DEF TypeOK
    <3>4. FromServer(c, sh)
      <4> HIDE DEF m
      <4> QED
        BY <3>2, <3>3, HelloAnswered
    <3>5. FromServer(c, sf)
      BY DEF CreateFinished, Finished, FromServer
    <3> HIDE DEF sh, sf
    <3>6. Old \/ toClient'[c][i] = sh \/ toClient'[c][i] = sf
      BY <1>0, <3>1
    <3> QED
      BY <3>4, <3>5, <3>6
  <2> QED
    BY <2>1, <2>2
<1>4. ASSUME NEW d \in Clients,
             ReceiveServerHello(d) \/ ReceiveFinished(d) \/ ClientReceive(d)
      PROVE  Old
  <2>1. toClient'[c] = toClient[c]
        \/ (toClient'[c] = Tail(toClient[c]) /\ toClient[c] # <<>>)
    BY <1>4 DEF ReceiveServerHello, ReceiveFinished, ClientReceive, TypeOK
  <2> QED
    BY <1>1, <1>2, <2>1
<1>5. ASSUME NEW d \in Clients, Connect(d) \/ ClientSend(d) \/ ClientClose(d) PROVE Old
  BY <1>1, <1>5 DEF Connect, ClientSend, ClientClose, netVars
<1>6. ASSUME NEW d \in Clients, AcceptFinished(d) PROVE Old
  BY <1>1, <1>6 DEF AcceptFinished
<1>7. ASSUME NEW k \in DOMAIN accepted,
             ServerSend(k) \/ \E d \in Clients : ServerReceive(k, d)
      PROVE  Old
  BY <1>1, <1>7 DEF ServerSend, ServerReceive, netVars
<1>8. ASSUME NEW d \in Clients, NetworkFault(d) PROVE Old
  <2>1. toClient'[c] = toClient[c] \/ toClient'[c] \in Faulty(toClient[c])
    BY <1>8 DEF NetworkFault, TypeOK
  <2> QED
    BY <1>0, <1>1, <2>1, FaultyQueues
<1>9. ASSUME UNCHANGED vars PROVE Old
  BY <1>1, <1>9 DEF vars, netVars
<1> HIDE DEF Old, New
<1>10. ASSUME NEW d \in Clients, Client(d) PROVE Old
  BY <1>4, <1>5, <1>10 DEF Client
<1>11. ASSUME Server PROVE Old \/ New
  BY <1>3, <1>6, <1>7, <1>11 DEF Server
<1>12. Old \/ New
  BY <1>8, <1>9, <1>10, <1>11 DEF Next
<1> QED
  BY <1>12 DEF Old, New

(* Datagrams in flight keep their provenance: what they were computed from   *)
(* does not change.                                                          *)
LEMMA DatagramStep ==
    ASSUME TypeOK, Provenance, [Next]_vars
    PROVE  DatagramProvenance'
<1>1. ASSUME NEW c \in Clients, NEW i \in DOMAIN toServer'[c]
      PROVE  FromClient(c, toServer[c][i])'
  <2> DEFINE m == toServer'[c][i]
  <2>1. CASE \E j \in DOMAIN toServer[c] : m = toServer[c][j]
    <3>1. FromClient(c, m)
      BY <2>1 DEF Provenance, DatagramProvenance
    <3>2. hs[c].state = "Complete" => hs'[c] = hs[c]
      BY CompleteIsFinal DEF Provenance
    <3> QED
      BY <3>1, <3>2 DEF FromClient
  <2>2. CASE m = HelloOf(c)
    BY <2>2 DEF FromClient, HelloOf, ClientHello
  <2>3. CASE m.kind = "Sealed"
    BY <2>3 DEF FromClient
  <2>4. CASE m = CreateFinished(hs'[c]) /\ hs'[c].state = "Complete"
    BY <2>4 DEF FromClient, CreateFinished, Finished
  <2> QED
    BY <2>1, <2>2, <2>3, <2>4, ToServerStep
<1>2. ASSUME NEW c \in Clients, NEW i \in DOMAIN toClient'[c]
      PROVE  FromServer(c, toClient'[c][i])
  BY <1>2, ToClientStep DEF Provenance, DatagramProvenance
<1> QED
  BY <1>1, <1>2 DEF DatagramProvenance

(* Sending or receiving on an accepted connection leaves its context alone.  *)
LEMMA AcceptedKeep ==
    ASSUME TypeOK, NEW k \in DOMAIN accepted,
           ServerSend(k) \/ \E c \in Clients : ServerReceive(k, c)
    PROVE  /\ UNCHANGED <<accept, answered>>
           /\ DOMAIN accepted' = DOMAIN accepted
           /\ \A j \in DOMAIN accepted : /\ accepted'[j].peer = accepted[j].peer
                                         /\ accepted'[j].hs = accepted[j].hs
<1> DEFINE a == accepted[k]
           io   == [a EXCEPT !.result = "IoError"]
           ok   == [a EXCEPT !.result = "ok"]
           fail == [a EXCEPT !.result = "CryptoError", !.state = "dropped"]
<1>1. /\ UNCHANGED <<accept, answered>>
      /\ \/ accepted' = [accepted EXCEPT ![k] = io]
         \/ accepted' = [accepted EXCEPT ![k] = ok]
         \/ accepted' = [accepted EXCEPT ![k] = fail]
  BY DEF ServerSend, ServerReceive, TypeOK
<1>2. a \in AcceptedConnections
  BY DEF TypeOK
<1>3. /\ io.peer = a.peer /\ io.hs = a.hs
      /\ ok.peer = a.peer /\ ok.hs = a.hs
      /\ fail.peer = a.peer /\ fail.hs = a.hs
  BY <1>2 DEF AcceptedConnections
<1>4. accepted \in Seq(AcceptedConnections)
  BY DEF TypeOK
<1> HIDE DEF io, ok, fail
<1> QED
  BY <1>1, <1>3, <1>4

(* Server contexts.  AcceptFinished rests on the MAC: the client that        *)
(* computed it has the transcript of this accept() call, whose first message *)
(* is that client's own hello.                                               *)
LEMMA ServerStep ==
    ASSUME TypeOK, Provenance, [Next]_vars
    PROVE  ServerProvenance'
<1> DEFINE Kept(conn) == /\ ServerContext(conn.hs, conn.peer)
                         /\ hs'[conn.peer].state = "Complete"
                         /\ CreateFinished(conn.hs) = CreateFinished(hs'[conn.peer])
<1>1. ASSUME NEW k \in DOMAIN accepted PROVE Kept(accepted[k])
  <2>1. /\ ServerContext(accepted[k].hs, accepted[k].peer)
        /\ AgreesWithClient(accepted[k])
    BY DEF Provenance, ServerProvenance
  <2>2. accepted[k] \in AcceptedConnections
    BY DEF TypeOK
  <2>3. accepted[k].peer \in Clients
    BY <2>2 DEF AcceptedConnections
  <2>4. hs'[accepted[k].peer] = hs[accepted[k].peer]
    BY <2>1, <2>3, CompleteIsFinal DEF Provenance, AgreesWithClient
  <2> QED
    BY <2>1, <2>4 DEF AgreesWithClient
<1>2. ASSUME \A k \in DOMAIN accepted' : Kept(accepted'[k]),
             accept'.pc = "recv_finished" => ServerContext(accept'.hs, accept'.peer)
      PROVE  ServerProvenance'
  BY <1>2 DEF ServerProvenance, AgreesWithClient, ServerContext, Derived
<1>3. accept.pc = "recv_finished" => ServerContext(accept.hs, accept.peer)
  BY DEF Provenance, ServerProvenance
<1>4. ASSUME UNCHANGED <<accept, accepted>> PROVE ServerProvenance'
  <2> HIDE DEF Kept
  <2> QED
    BY <1>1, <1>2, <1>3, <1>4
<1>5. ASSUME NEW c \in Clients, AcceptHello(c) PROVE ServerProvenance'
  <2> DEFINE m   == Head(toServer[c])
             ctx == HandleClientHello(NewContext(None), m, answered + 1, ServerCaps)
  <2>1. CASE UNCHANGED accept
    BY <1>4, <1>5, <2>1 DEF AcceptHello
  <2>2. CASE ~UNCHANGED accept
    <3>1. /\ m.kind = "ClientHello"
          /\ accept' = [pc |-> "recv_finished", peer |-> c, hs |-> ctx]
          /\ UNCHANGED accepted
      BY <1>5, <2>2 DEF AcceptHello
    <3>2. m = HelloOf(c)
      <4>1. m = toServer[c][1] /\ 1 \in DOMAIN toServer[c]
        BY <1>5 DEF AcceptHello, TypeOK
      <4> QED
        BY <1>5, <3>1, <4>1 DEF Provenance, DatagramProvenance, FromClient
    <3>3. ServerContext(ctx, c)
      <4>1. answered + 1 \in Nat
        BY DEF TypeOK
      <4> HIDE DEF m
      <4> QED
        BY <1>5, <3>2, <4>1, HelloAnswered
    <3> HIDE DEF Kept, ctx
    <3> QED
      BY <1>1, <1>2, <3>1, <3>3
  <2> QED
    BY <2>1, <2>2
<1>6. ASSUME NEW c \in Clients, AcceptFinished(c) PROVE ServerProvenance'
  <2>1. accept'.pc # "recv_finished"
    BY <1>6 DEF AcceptFinished, Listening
  <2>2. CASE UNCHANGED accepted
    <3> HIDE DEF Kept
    <3> QED
      BY <1>1, <1>2, <2>1, <2>2
  <2>3. CASE ~UNCHANGED accepted
    <3> DEFINE conn == [peer |-> accept.peer, state |-> "Active",
                        hs |-> CompleteHandshake(accept.hs), result |-> "none"]
    <3>1. /\ accepted' = Append(accepted, conn)
          /\ FinishedVerifies(accept.hs, Head(toServer[c]))
          /\ UNCHANGED hs
      BY <1>6, <2>3 DEF AcceptFinished, clientVars
    <3>2. /\ FromClient(c, CreateFinished(accept.hs))
          /\ ServerContext(accept.hs, accept.peer)
      <4>1. Head(toServer[c]) = toServer[c][1] /\ 1 \in DOMAIN toServer[c]
        BY <1>6 DEF AcceptFinished, TypeOK
      <4> QED
        BY <1>3, <1>6, <3>1, <4>1 DEF Provenance, DatagramProvenance,
           FinishedVerifies, AcceptFinished
    <3>3. /\ hs[c].state = "Complete"
          /\ CreateFinished(accept.hs) = CreateFinished(hs[c])
      BY <3>2 DEF FromClient, CreateFinished, Finished
    <3>4. accept.hs.transcript = hs[c].transcript
      BY <3>3 DEF CreateFinished, Finished
    <3>5. Derived(hs[c], c, hs[c].peer)
      BY <1>6, <3>3 DEF Provenance, ClientProvenance, ClientContext
    <3>6. accept.peer = c
      BY <3>2, <3>4, <3>5 DEF ServerContext, Derived
    <3>7. Kept(conn)
      <4>1. accept.hs \in Contexts(Nat \cup {None})
        BY DEF TypeOK, Accepting
      <4>2. /\ conn.peer = c
            /\ conn.hs = [accept.hs EXCEPT !.state = "Complete"]
        BY <3>6 DEF CompleteHandshake
      <4>3. /\ conn.hs.our = accept.hs.our
            /\ conn.hs.peer = accept.hs.peer
            /\ conn.hs.transcript = accept.hs.transcript
            /\ conn.hs.session_key = accept.hs.session_key
            /\ conn.hs.capabilities = accept.hs.capabilities
        BY <4>1, <4>2 DEF Contexts
      <4> HIDE DEF conn
      <4> QED
        BY <3>1, <3>2, <3>3, <3>6, <4>2, <4>3
           DEF ServerContext, Derived, CreateFinished
    <3>8. accepted \in Seq(AcceptedConnections)
      BY DEF TypeOK
    <3>9. \A k \in DOMAIN accepted' :
            \/ k \in DOMAIN accepted /\ accepted'[k] = accepted[k]
            \/ accepted'[k] = conn
      <4> HIDE DEF conn
      <4> QED
        BY <3>1, <3>8
    <3> HIDE DEF Kept, conn
    <3>10. \A k \in DOMAIN accepted' : Kept(accepted'[k])
      BY <1>1, <3>7, <3>9
    <3> QED
      BY <1>2, <2>1, <3>10
  <2> QED
    BY <2>2, <2>3
<1>7. ASSUME NEW k \in DOMAIN accepted,
             ServerSend(k) \/ \E c \in Clients : ServerReceive(k, c)
      PROVE  ServerProvenance'
  <2>1. /\ UNCHANGED accept
        /\ DOMAIN accepted' = DOMAIN accepted
        /\ \A j \in DOMAIN accepted : /\ accepted'[j].peer = accepted[j].peer
                                      /\ accepted'[j].hs = accepted[j].hs
    BY <1>7, AcceptedKeep
  <2>3. \A j \in DOMAIN accepted' : Kept(accepted'[j])
    BY <1>1, <2>1
  <2> HIDE DEF Kept
  <2> QED
    BY <1>2, <1>3, <2>1, <2>3
<1>8. ASSUME NEW c \in Clients, Client(c) \/ NetworkFault(c)
      PROVE  UNCHANGED <<accept, accepted>>
  BY <1>8 DEF Client, Connect, ReceiveServerHello, ReceiveFinished, ClientSend,
     ClientReceive, ClientClose, NetworkFault, serverVars
<1>9. UNCHANGED vars => UNCHANGED <<accept, accepted>>
  BY DEF vars, serverVars
<1> QED
  BY <1>4, <1>5, <1>6, <1>7, <1>8, <1>9 DEF Next, Server

(* The ids drawn so far keep the accepted connections apart. *)
LEMMA FreshStep ==
    ASSUME TypeOK, Provenance, [Next]_vars
    PROVE  FreshIds'
<1>0. FreshIds /\ answered \in Nat
  BY DEF Provenance, TypeOK
<1>1. ASSUME UNCHANGED <<accept, answered, accepted>> PROVE FreshIds'
  BY <1>0, <1>1 DEF FreshIds
<1>2. ASSUME NEW c \in Clients, AcceptHello(c) PROVE FreshIds'
  <2> DEFINE m   == Head(toServer[c])
             ctx == HandleClientHello(NewContext(None), m, answered + 1, ServerCaps)
  <2>1. CASE UNCHANGED answered
    BY <1>1, <1>0, <1>2, <2>1 DEF AcceptHello
  <2>2. CASE ~UNCHANGED answered
    <3>1. /\ accept' = [pc |-> "recv_finished", peer |-> c, hs |-> ctx]
          /\ answered' = answered + 1
          /\ UNCHANGED accepted
      BY <1>2, <2>2 DEF AcceptHello
    <3>2. ctx.our = answered + 1
      BY DEF HandleClientHello
    <3> HIDE DEF ctx
    <3> QED
      BY <1>0, <3>1, <3>2 DEF FreshIds
  <2> QED
    BY <2>1, <2>2
<1>3. ASSUME NEW c \in Clients, AcceptFinished(c) PROVE FreshIds'
  <2>1. /\ accept.pc = "recv_finished"
        /\ accept'.pc = "recv_hello"
        /\ UNCHANGED answered
    BY <1>3 DEF AcceptFinished, Listening
  <2>2. CASE UNCHANGED accepted
    BY <1>0, <2>1, <2>2 DEF FreshIds
  <2>3. CASE ~UNCHANGED accepted
    <3> DEFINE conn == [peer |-> accept.peer, state |-> "Active",
                        hs |-> CompleteHandshake(accept.hs), result |-> "none"]
    <3>1. accepted' = Append(accepted, conn)
      BY <1>3, <2>3 DEF AcceptFinished
    <3>2. conn.hs.our = answered
      <4>1. accept.hs \in Contexts(Nat \cup {None})
        BY DEF TypeOK, Accepting
      <4> QED
        BY <1>0, <2>1, <4>1 DEF FreshIds, CompleteHandshake, Contexts
    <3>3. accepted \in Seq(AcceptedConnections) /\ answered # 0
      BY <3>2, <2>1, <1>0, <1>3 DEF TypeOK, FreshIds, AcceptFinished
    <3> HIDE DEF conn
    <3>4. \A k \in DOMAIN accepted' :
             \/ k \in DOMAIN accepted /\ accepted'[k] = accepted[k]
             \/ k = Len(accepted) + 1 /\ accepted'[k] = conn
      BY <3>1, <3>3
    <3> QED
      BY <1>0, <2>1, <3>2, <3>3, <3>4 DEF FreshIds
  <2> QED
    BY <2>2, <2>3
<1>4. ASSUME NEW k \in DOMAIN accepted,
             ServerSend(k) \/ \E c \in Clients : ServerReceive(k, c)
      PROVE  FreshIds'
  BY <1>0, <1>4, AcceptedKeep DEF FreshIds
<1>5. ASSUME NEW c \in Clients, Client(c) \/ NetworkFault(c)
      PROVE  UNCHANGED <<accept, answered, accepted>>
  BY <1>5 DEF Client, Connect, ReceiveServerHello, ReceiveFinished, ClientSend,
     ClientReceive, ClientClose, NetworkFault, serverVars
<1>6. UNCHANGED vars => UNCHANGED <<accept, answered, accepted>>
  BY DEF vars, serverVars
<1> QED
  BY <1>1, <1>2, <1>3, <1>4, <1>5, <1>6 DEF Next, Server

LEMMA ProvenanceInit == Init => Provenance
<1> SUFFICES ASSUME Init PROVE Provenance
  OBVIOUS
<1>1. ClientProvenance
  BY DEF Init, ClientProvenance, ClientContext, NewContext
<1>2. DatagramProvenance
  BY DEF Init, DatagramProvenance
<1>3. ServerProvenance
  BY DEF Init, ServerProvenance, Listening
<1>4. FreshIds
  BY DEF Init, FreshIds, Listening
<1> QED
  BY <1>1, <1>2, <1>3, <1>4 DEF Provenance

LEMMA ProvenanceStep == TypeOK /\ Provenance /\ [Next]_vars => Provenance'
<1> SUFFICES ASSUME TypeOK, Provenance, [Next]_vars PROVE Provenance'
  OBVIOUS
<1>1. ClientProvenance'
  BY ClientStep DEF ClientProvenance
<1> QED
  BY <1>1, DatagramStep, ServerStep, FreshStep DEF Provenance

(* Every context of every connect() and accept() call, and every handshake   *)
(* datagram in flight, comes from the calls it claims to come from.          *)
THEOREM ProvenanceHolds == Spec => []Provenance
<1>1. Init => TypeOK /\ Provenance
  BY TypeInit, ProvenanceInit
<1>2. TypeOK /\ Provenance /\ [Next]_vars => (TypeOK /\ Provenance)'
  BY TypeStep, ProvenanceStep
<1> QED
  BY <1>1, <1>2, PTL DEF Spec

(* The transcript in the Finished that accept() checked is the transcript of *)
(* the client whose address it stored: the two ends agree on everything.     *)
LEMMA ProvenanceAgreement == Provenance /\ TypeOK => Agreement
<1> SUFFICES ASSUME Provenance, TypeOK, NEW k \in DOMAIN accepted
             PROVE  /\ hs[accepted[k].peer].state = "Complete"
                    /\ hs[accepted[k].peer].session_key = accepted[k].hs.session_key
                    /\ hs[accepted[k].peer].transcript = accepted[k].hs.transcript
                    /\ hs[accepted[k].peer].capabilities = accepted[k].hs.capabilities
                    /\ hs[accepted[k].peer].peer = accepted[k].hs.our
  BY DEF Agreement
<1> DEFINE c == accepted[k].peer
<1>1. accepted[k] \in AcceptedConnections
  BY DEF TypeOK
<1>2. c \in Clients
  BY <1>1 DEF AcceptedConnections
<1>3. /\ Derived(accepted[k].hs, c, accepted[k].hs.our)
      /\ hs[c].state = "Complete"
      /\ CreateFinished(accepted[k].hs) = CreateFinished(hs[c])
  BY DEF Provenance, ServerProvenance, ServerContext, AgreesWithClient
<1>4. Derived(hs[c], c, hs[c].peer)
  BY <1>2, <1>3 DEF Provenance, ClientProvenance, ClientContext
<1>5. /\ hs[c].session_key = accepted[k].hs.session_key
      /\ hs[c].transcript = accepted[k].hs.transcript
  BY <1>3 DEF CreateFinished, Finished
<1> QED
  BY <1>3, <1>4, <1>5 DEF Derived

(* Both ends of every accepted connection agree, whatever the network does.  *)
THEOREM AgreementHolds == Spec => []Agreement
  BY TypeCorrect, ProvenanceHolds, ProvenanceAgreement, PTL

(* Two accepted connections of one client would have one transcript, hence   *)
(* one server id, and ids are fresh.                                         *)
LEMMA ProvenanceAcceptedOnce == Provenance /\ Agreement => AcceptedOnce
<1> SUFFICES ASSUME Provenance, Agreement,
                    NEW j \in DOMAIN accepted, NEW k \in DOMAIN accepted,
                    accepted[j].peer = accepted[k].peer
             PROVE  j = k
  BY DEF AcceptedOnce
<1>1. accepted[j].hs.our = accepted[k].hs.our
  BY DEF Agreement
<1> QED
  BY <1>1 DEF Provenance, FreshIds

(* No connect() call is accepted twice, however often its hello is repeated. *)
THEOREM AcceptedOnceHolds == Spec => []AcceptedOnce
  BY AgreementHolds, ProvenanceHolds, ProvenanceAcceptedOnce, PTL

(* What a client ends up with is allowed by both configurations. *)
LEMMA ProvenanceCapabilities == Provenance => WithinBothCapabilities
<1> SUFFICES ASSUME Provenance, NEW c \in Clients, hs[c].state = "Complete"
             PROVE  LET caps == hs[c].capabilities
                    IN  /\ caps.multipath => ServerCaps.multipath /\ ClientCaps[c].multipath
                        /\ caps.max_streams <= ServerCaps.max_streams
                        /\ caps.max_streams <= ClientCaps[c].max_streams
                        /\ caps.ack_frequency = ClientCaps[c].ack_frequency
  BY DEF WithinBothCapabilities
<1>1. hs[c].capabilities = Negotiated(ServerCaps, ClientCaps[c])
  BY DEF Provenance, ClientProvenance, ClientContext
<1>2. ServerCaps.max_streams \in Nat /\ ClientCaps[c].max_streams \in Nat
  BY CapsAssumption DEF Capabilities
<1>3. /\ hs[c].capabilities.multipath = (ServerCaps.multipath /\ ClientCaps[c].multipath)
      /\ hs[c].capabilities.max_streams = Lesser(ServerCaps.max_streams,
                                                ClientCaps[c].max_streams)
      /\ hs[c].capabilities.ack_frequency = ClientCaps[c].ack_frequency
  BY <1>1 DEF Negotiated
<1>4. /\ hs[c].capabilities.max_streams <= ServerCaps.max_streams
      /\ hs[c].capabilities.max_streams <= ClientCaps[c].max_streams
  BY <1>2, <1>3 DEF Lesser
<1> QED
  BY <1>3, <1>4

(* The negotiated capabilities a client ends up with are within its own      *)
(* configuration and the server's.                                           *)
THEOREM CapabilitiesHold == Spec => []WithinBothCapabilities
  BY ProvenanceHolds, ProvenanceCapabilities, PTL

(* No step replaces a session key or touches a completed handshake: the      *)
(* handlers that write the context run only while there is no key.           *)
LEMMA KeysStep ==
    ASSUME TypeOK, Provenance, [Next]_vars, NEW c \in Clients
    PROVE  /\ hs[c].session_key # None => hs'[c].session_key = hs[c].session_key
           /\ hs[c].state = "Complete" => hs'[c] = hs[c]
<1>0. ClientContext(c) /\ hs[c] \in Contexts(Clients)
  BY DEF Provenance, ClientProvenance, TypeOK
<1>1. hs[c].state = "Complete" => hs'[c] = hs[c]
  BY CompleteIsFinal DEF Provenance
<1>2. phase[c] \in {"idle", "await_server_hello"} => hs[c].session_key = None
  <2>1. NewContext(c).session_key = None
    BY DEF NewContext
  <2>2. CreateClientHello(NewContext(c), Supports[c], ClientCaps[c]).session_key = None
    BY DEF NewContext, CreateClientHello
  <2> QED
    BY <1>0, <2>1, <2>2 DEF ClientContext
<1>3. ASSUME NEW d \in Clients, Connect(d) \/ ReceiveServerHello(d),
             hs[c].session_key # None
      PROVE  hs'[c] = hs[c]
  BY <1>2, <1>3 DEF Connect, ReceiveServerHello, TypeOK
<1>4. ASSUME NEW d \in Clients, ReceiveFinished(d)
      PROVE  hs'[c].session_key = hs[c].session_key
  <2>1. hs'[c] = hs[c] \/ hs'[c] = CompleteHandshake(hs[c])
    BY <1>4 DEF ReceiveFinished, TypeOK
  <2> QED
    BY <1>0, <2>1 DEF CompleteHandshake, Contexts
<1>5. ASSUME NEW d \in Clients,
             ClientSend(d) \/ ClientReceive(d) \/ ClientClose(d) \/ NetworkFault(d)
      PROVE  UNCHANGED hs
  BY <1>5 DEF ClientSend, ClientReceive, ClientClose, NetworkFault, clientVars
<1>6. Server => UNCHANGED hs
  BY DEF Server, AcceptHello, AcceptFinished, ServerSend, ServerReceive, clientVars
<1>7. UNCHANGED vars => UNCHANGED hs
  BY DEF vars, clientVars
<1> QED
  BY <1>1, <1>3, <1>4, <1>5, <1>6, <1>7 DEF Next, Client

(* A session key, once derived, is never replaced.                           *)
THEOREM KeysAreFinalHolds == Spec => KeysAreFinal
<1>1. TypeOK /\ Provenance /\ [Next]_vars
      => [\A c \in Clients :
            /\ hs[c].session_key # None => hs'[c].session_key = hs[c].session_key
            /\ hs[c].state = "Complete" => hs'[c] = hs[c]]_vars
  BY KeysStep
<1> QED
  BY <1>1, TypeCorrect, ProvenanceHolds, PTL DEF Spec, KeysAreFinal
=============================================================================
