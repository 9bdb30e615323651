----------------------------- MODULE Connection ------------------------------
(***************************************************************************)
(* Establishing, using and closing Aether connections over UDP             *)
(* (aether-core/src/connection.rs, with handshake.rs through Handshake.tla *)
(* and the accept and receive loops of demo/src/main.rs).                  *)
(*                                                                         *)
(* Each element of Clients is one Connection::connect call: a socket of    *)
(* its own, bound to the server's address.  The server has ONE socket: the *)
(* accept loop reads it twice per connection (a ClientHello, then a        *)
(* Finished), and the receive loop spawned for every accepted connection   *)
(* reads it too; whoever calls recv first gets the datagram.               *)
(*                                                                         *)
(* The network keeps a queue per direction and client and may lose,        *)
(* duplicate and swap datagrams, at most MaxFaults times.                  *)
(***************************************************************************)
EXTENDS Handshake, FiniteSets, SequencesExt

CONSTANTS
    Clients,      \* connect() calls
    ClientCaps,   \* [Clients -> capabilities] from each client's Config
    ServerCaps,   \* the capabilities of the server's Config
    Supports,     \* [Clients -> set of versions] in each ClientHello
    FaultKinds,   \* the faults the network commits: "lose", "duplicate", "swap"
    MaxFaults,    \* bound on the number of faults
    MaxSends      \* bound on the frames each client sends after the handshake

Capabilities ==
    [multipath : BOOLEAN, max_streams : Nat, ack_frequency : Nat]

ASSUME ClientsAssumption == Clients \cap Nat = {} /\ None \notin Clients
ASSUME CapsAssumption    == /\ ClientCaps \in [Clients -> Capabilities]
                            /\ ServerCaps \in Capabilities
ASSUME SupportsAssumption == Supports \in [Clients -> SUBSET Nat]
ASSUME BoundAssumption   == MaxFaults \in Nat /\ MaxSends \in Nat

VARIABLES
    phase,      \* [Clients -> phase of the connect() call, then ConnectionState]
    hs,         \* [Clients -> HandshakeContext]
    result,     \* [Clients -> what the last call on the connection returned]
    sends,      \* [Clients -> frames sent after the handshake]
    accept,     \* the accept() call in progress: pc, peer, hs
    answered,   \* ClientHellos answered so far: source of fresh server ids
    accepted,   \* the connections accept() returned, in order
    toServer,   \* [Clients -> datagrams in flight to the server's socket]
    toClient,   \* [Clients -> datagrams in flight to that client's socket]
    faults      \* faults committed so far

clientVars == <<phase, hs, result, sends>>
serverVars == <<accept, answered, accepted>>
netVars    == <<toServer, toClient, faults>>
vars       == <<clientVars, serverVars, netVars>>

Phases == {"idle", "await_server_hello", "await_finished",
           "Active", "Closing", "dropped", "panicked"}
Results == {"none", "ok", "InvalidState", "CryptoError", "IoError"}

Listening == [pc |-> "recv_hello", peer |-> None, hs |-> NewContext(None)]

Init ==
    /\ phase    = [c \in Clients |-> "idle"]
    /\ hs       = [c \in Clients |-> NewContext(c)]
    /\ result   = [c \in Clients |-> "none"]
    /\ sends    = [c \in Clients |-> 0]
    /\ accept   = Listening
    /\ answered = 0
    /\ accepted = <<>>
    /\ toServer = [c \in Clients |-> <<>>]
    /\ toClient = [c \in Clients |-> <<>>]
    /\ faults   = 0

-----------------------------------------------------------------------------
(* AEAD.  make_aad is the sealing side's own truncated connection id and a  *)
(* packet number; that number and the nonce counter are never advanced, so  *)
(* neither appears in the term.                                             *)

Sealed(ctx, byClient) ==
    [kind |-> "Sealed", key |-> ctx.session_key, byClient |-> byClient,
     aad |-> ctx.our]

\* recv_frame decrypts with its own make_aad.
Opens(ctx, isClient, datagram) ==
    /\ datagram.kind = "Sealed"
    /\ datagram.key = ctx.session_key
    /\ datagram.byClient = ~isClient
    /\ datagram.aad = ctx.our

-----------------------------------------------------------------------------
(* The client. *)

HelloOf(c) == ClientHello(c, Supports[c], ClientCaps[c])

\* connect: send ClientHello and wait for the answer.
Connect(c) ==
    /\ phase[c] = "idle"
    /\ hs' = [hs EXCEPT ![c] = CreateClientHello(@, Supports[c], ClientCaps[c])]
    /\ toServer' = [toServer EXCEPT ![c] = Append(@, HelloOf(c))]
    /\ phase' = [phase EXCEPT ![c] = "await_server_hello"]
    /\ UNCHANGED <<result, sends, serverVars, toClient, faults>>

\* Faulty variant of ReceiveServerHello: a later ServerHello is taken too, and
\* its proof is not checked.
ReceiveAnyServerHello(c) ==
    /\ phase[c] \in {"await_server_hello", "await_finished"}
    /\ toClient[c] # <<>>
    /\ Head(toClient[c]).kind = "ServerHello"
    /\ hs' = [hs EXCEPT ![c] = HandleServerHello(@, Head(toClient[c]))]
    /\ phase' = [phase EXCEPT ![c] = "await_finished"]
    /\ toClient' = [toClient EXCEPT ![c] = Tail(@)]
    /\ UNCHANGED <<result, sends, serverVars, toServer, faults>>

\* The first recv of the handshake.  ServerHello::decode slices without a
\* length check, so any other (shorter) message panics the task.
ReceiveServerHello(c) ==
    /\ phase[c] = "await_server_hello"
    /\ toClient[c] # <<>>
    /\ LET m == Head(toClient[c])
       IN  \/ /\ m.kind = "ServerHello"
              /\ ProofVerifies(hs[c], m)
              /\ hs' = [hs EXCEPT ![c] = HandleServerHello(@, m)]
              /\ phase' = [phase EXCEPT ![c] = "await_finished"]
           \/ /\ m.kind = "ServerHello"
              /\ ~ProofVerifies(hs[c], m)
              /\ phase' = [phase EXCEPT ![c] = "dropped"]
              /\ UNCHANGED hs
           \/ /\ m.kind # "ServerHello"
              /\ phase' = [phase EXCEPT ![c] = "panicked"]
              /\ UNCHANGED hs
    /\ toClient' = [toClient EXCEPT ![c] = Tail(@)]
    /\ UNCHANGED <<result, sends, serverVars, toServer, faults>>

\* The second recv: the server's Finished, answered with the client's own.
\* An error makes connect() return it and drop the connection.
ReceiveFinished(c) ==
    /\ phase[c] = "await_finished"
    /\ toClient[c] # <<>>
    /\ toClient' = [toClient EXCEPT ![c] = Tail(@)]
    /\ \/ /\ FinishedVerifies(hs[c], Head(toClient[c]))
          /\ hs' = [hs EXCEPT ![c] = CompleteHandshake(@)]
          /\ toServer' = [toServer EXCEPT ![c] = Append(@, CreateFinished(hs[c]))]
          /\ phase' = [phase EXCEPT ![c] = "Active"]
       \/ /\ ~FinishedVerifies(hs[c], Head(toClient[c]))
          /\ phase' = [phase EXCEPT ![c] = "dropped"]
          /\ UNCHANGED <<hs, toServer>>
    /\ UNCHANGED <<result, sends, serverVars, faults>>

\* send_stream_data or ping on an Active connection.
ClientSend(c) ==
    /\ phase[c] = "Active"
    /\ sends[c] < MaxSends
    /\ sends' = [sends EXCEPT ![c] = @ + 1]
    /\ toServer' = [toServer EXCEPT ![c] = Append(@, Sealed(hs[c], TRUE))]
    /\ result' = [result EXCEPT ![c] = "ok"]
    /\ UNCHANGED <<phase, hs, serverVars, toClient, faults>>

\* recv_frame, which does not look at the connection's state.
ClientReceive(c) ==
    /\ phase[c] \in {"Active", "Closing"}
    /\ toClient[c] # <<>>
    /\ result' = [result EXCEPT ![c] =
                    IF Opens(hs[c], TRUE, Head(toClient[c]))
                    THEN "ok" ELSE "CryptoError"]
    /\ toClient' = [toClient EXCEPT ![c] = Tail(@)]
    /\ UNCHANGED <<phase, hs, sends, serverVars, toServer, faults>>

\* close: the state becomes Closing, and send_frame then refuses the Close
\* frame because the state is not Active; `?' returns before Closed is set.
ClientClose(c) ==
    /\ phase[c] \in {"Active", "Closing"}
    /\ phase' = [phase EXCEPT ![c] = "Closing"]
    /\ result' = [result EXCEPT ![c] = "InvalidState"]
    /\ UNCHANGED <<hs, sends, serverVars, netVars>>

-----------------------------------------------------------------------------
(* The server.  Each of its receives takes the next datagram of some client. *)

\* Faulty variant of AcceptHello: every answer uses the same id and key pair.
AcceptHelloSameId(c) ==
    /\ accept.pc = "recv_hello"
    /\ toServer[c] # <<>>
    /\ LET m == Head(toServer[c])
       IN  \/ /\ m.kind = "ClientHello"
              /\ VersionSupported(m)
              /\ LET ctx == HandleClientHello(NewContext(None), m, 1, ServerCaps)
                 IN  /\ accept' = [pc |-> "recv_finished", peer |-> c, hs |-> ctx]
                     /\ toClient' = [toClient EXCEPT ![c] =
                            @ \o <<ctx.transcript[2], CreateFinished(ctx)>>]
              /\ answered' = answered + 1
           \/ /\ m.kind = "ClientHello" => ~VersionSupported(m)
              /\ UNCHANGED <<accept, answered, toClient>>
    /\ toServer' = [toServer EXCEPT ![c] = Tail(@)]
    /\ UNCHANGED <<clientVars, accepted, faults>>

\* accept's first recv_from.  Anything but an acceptable ClientHello is an
\* error, after which Listener::accept starts over.
AcceptHello(c) ==
    /\ accept.pc = "recv_hello"
    /\ toServer[c] # <<>>
    /\ LET m == Head(toServer[c])
       IN  \/ /\ m.kind = "ClientHello"
              /\ VersionSupported(m)
              /\ LET ctx == HandleClientHello(NewContext(None), m,
                                              answered + 1, ServerCaps)
                 IN  /\ accept' = [pc |-> "recv_finished", peer |-> c, hs |-> ctx]
                     /\ toClient' = [toClient EXCEPT ![c] =
                            @ \o <<ctx.transcript[2], CreateFinished(ctx)>>]
              /\ answered' = answered + 1
           \/ /\ m.kind = "ClientHello" => ~VersionSupported(m)
              /\ UNCHANGED <<accept, answered, toClient>>
    /\ toServer' = [toServer EXCEPT ![c] = Tail(@)]
    /\ UNCHANGED <<clientVars, accepted, faults>>

\* Faulty variant of AcceptFinished: accept() goes on waiting after it is done.
AcceptFinishedAgain(c) ==
    /\ accept.pc = "recv_finished"
    /\ toServer[c] # <<>>
    /\ toServer' = [toServer EXCEPT ![c] = Tail(@)]
    /\ FinishedVerifies(accept.hs, Head(toServer[c]))
    /\ accepted' = Append(accepted, [peer |-> accept.peer, state |-> "Active",
                                     hs |-> CompleteHandshake(accept.hs),
                                     result |-> "none"])
    /\ UNCHANGED <<clientVars, accept, answered, toClient, faults>>

\* accept's second recv_from, which ignores the sender's address.
AcceptFinished(c) ==
    /\ accept.pc = "recv_finished"
    /\ toServer[c] # <<>>
    /\ toServer' = [toServer EXCEPT ![c] = Tail(@)]
    /\ accept' = Listening
    /\ \/ /\ FinishedVerifies(accept.hs, Head(toServer[c]))
          /\ accepted' = Append(accepted,
                            [peer |-> accept.peer, state |-> "Active",
                             hs |-> CompleteHandshake(accept.hs),
                             result |-> "none"])
       \/ /\ ~FinishedVerifies(accept.hs, Head(toServer[c]))
          /\ UNCHANGED accepted
    /\ UNCHANGED <<clientVars, answered, toClient, faults>>

\* The receive loop of the k-th accepted connection.  It stops at the first
\* error, and the connection is dropped with it.
ServerReceive(k, c) ==
    /\ accepted[k].state = "Active"
    /\ toServer[c] # <<>>
    /\ toServer' = [toServer EXCEPT ![c] = Tail(@)]
    /\ \/ /\ Opens(accepted[k].hs, FALSE, Head(toServer[c]))
          /\ accepted' = [accepted EXCEPT ![k].result = "ok"]
       \/ /\ ~Opens(accepted[k].hs, FALSE, Head(toServer[c]))
          /\ accepted' = [accepted EXCEPT ![k].result = "CryptoError",
                                          ![k].state = "dropped"]
    /\ UNCHANGED <<clientVars, accept, answered, toClient, faults>>

\* send_frame on an accepted connection: it calls send() on the listening
\* socket, which is not connected to anyone.
ServerSend(k) ==
    /\ accepted[k].state = "Active"
    /\ accepted' = [accepted EXCEPT ![k].result = "IoError"]
    /\ UNCHANGED <<clientVars, accept, answered, netVars>>

-----------------------------------------------------------------------------
(* The network. *)

Lost(q)       == {RemoveAt(q, i) : i \in DOMAIN q}
Duplicated(q) == {Append(q, q[i]) : i \in DOMAIN q}
Swapped(q)    == {[q EXCEPT ![i] = q[i + 1], ![i + 1] = q[i]] :
                    i \in {j \in DOMAIN q : j + 1 \in DOMAIN q}}

Faulty(q) ==
    UNION {IF "lose" \in FaultKinds THEN Lost(q) ELSE {},
           IF "duplicate" \in FaultKinds THEN Duplicated(q) ELSE {},
           IF "swap" \in FaultKinds THEN Swapped(q) ELSE {}}

NetworkFault(c) ==
    /\ faults < MaxFaults
    /\ faults' = faults + 1
    /\ \/ /\ \E q \in Faulty(toServer[c]) : toServer' = [toServer EXCEPT ![c] = q]
          /\ UNCHANGED toClient
       \/ /\ \E q \in Faulty(toClient[c]) : toClient' = [toClient EXCEPT ![c] = q]
          /\ UNCHANGED toServer
    /\ UNCHANGED <<clientVars, serverVars>>

-----------------------------------------------------------------------------
Client(c) ==
    \/ Connect(c)
    \/ ReceiveServerHello(c)
    \/ ReceiveFinished(c)
    \/ ClientSend(c)
    \/ ClientReceive(c)
    \/ ClientClose(c)

Server ==
    \/ \E c \in Clients : AcceptHello(c) \/ AcceptFinished(c)
    \/ \E k \in DOMAIN accepted : ServerSend(k) \/ \E c \in Clients : ServerReceive(k, c)

Next ==
    \/ \E c \in Clients : Client(c) \/ NetworkFault(c)
    \/ Server

Spec == Init /\ [][Next]_vars

AcceptStep == \E c \in Clients : AcceptHello(c) \/ AcceptFinished(c)

\* A task blocked in recv resumes once a datagram is there.  What the
\* applications choose to do (connect, send, close) is not promised.
FairSpec ==
    /\ Spec
    /\ \A c \in Clients :
          WF_vars(ReceiveServerHello(c)) /\ WF_vars(ReceiveFinished(c))
    /\ WF_vars(AcceptStep)

-----------------------------------------------------------------------------
(* Types. *)

Hellos == [kind : {"ClientHello"}, cid : Clients, versions : SUBSET Nat,
           caps : Capabilities]
ServerHellos == [kind : {"ServerHello"}, src : Nat, dst : Clients,
                 signed : Seq(Hellos), caps : Capabilities]
Transcripts == Seq(Hellos \cup ServerHellos)
Ids  == Clients \cup Nat
Keys == [dh : SUBSET Ids, transcript : Transcripts]
Contexts(ids) ==
    [state : HandshakeStates, our : ids, peer : Ids \cup {None},
     transcript : Transcripts, session_key : Keys \cup {None},
     capabilities : Capabilities \cup {None}]
Finisheds == [kind : {"Finished"}, key : Keys \cup {None}, transcript : Transcripts]
Sealeds   == [kind : {"Sealed"}, key : Keys \cup {None}, byClient : BOOLEAN,
              aad : Ids \cup {None}]
Datagrams == Hellos \cup ServerHellos \cup Finisheds \cup Sealeds

Accepting ==
    [pc : {"recv_hello"}, peer : {None}, hs : Contexts(Nat \cup {None})]
        \cup
    [pc : {"recv_finished"}, peer : Clients, hs : Contexts(Nat \cup {None})]
AcceptedConnections ==
    [peer : Clients, state : {"Active", "dropped"},
     hs : Contexts(Nat \cup {None}), result : Results]

\* Every variable keeps its type.
TypeOK ==
    /\ phase    \in [Clients -> Phases]
    /\ hs       \in [Clients -> Contexts(Clients)]
    /\ result   \in [Clients -> Results]
    /\ sends    \in [Clients -> Nat]
    /\ accept   \in Accepting
    /\ answered \in Nat
    /\ accepted \in Seq(AcceptedConnections)
    /\ toServer \in [Clients -> Seq(Datagrams)]
    /\ toClient \in [Clients -> Seq(Datagrams)]
    /\ faults   \in Nat

-----------------------------------------------------------------------------
(* Safety. *)

\* Both ends of an accepted connection hold the same session key, the same
\* transcript and the same negotiated capabilities, and the client has
\* finished its half: handle_finished_and_respond ran before verify_finished.
\* accept() does not check who the Finished came from, so this rests on the
\* transcript in the MAC alone.
Agreement ==
    \A k \in DOMAIN accepted :
        LET server == accepted[k].hs
            client == hs[accepted[k].peer]
        IN  /\ client.state = "Complete"
            /\ client.session_key = server.session_key
            /\ client.transcript = server.transcript
            /\ client.capabilities = server.capabilities
            /\ client.peer = server.our

\* One connect() call is accepted at most once, however often its datagrams
\* are repeated by the network.
AcceptedOnce ==
    \A j, k \in DOMAIN accepted : accepted[j].peer = accepted[k].peer => j = k

\* What a completed handshake agreed on is what BOTH configurations allow.
WithinBothCapabilities ==
    \A c \in Clients :
        hs[c].state = "Complete" =>
            LET caps == hs[c].capabilities
            IN  /\ caps.multipath => ServerCaps.multipath /\ ClientCaps[c].multipath
                /\ caps.max_streams <= ServerCaps.max_streams
                /\ caps.max_streams <= ClientCaps[c].max_streams
                /\ caps.ack_frequency = ClientCaps[c].ack_frequency

\* A session key, once derived, is never replaced, and a completed handshake
\* never changes again: not by a repeated ServerHello, not by a late one.
KeysAreFinal ==
    [][\A c \in Clients :
          /\ hs[c].session_key # None => hs'[c].session_key = hs[c].session_key
          /\ hs[c].state = "Complete" => hs'[c] = hs[c]]_vars

-----------------------------------------------------------------------------
(* Where contexts and datagrams come from: the facts Agreement and           *)
(* AcceptedOnce rest on, together inductive.                                 *)

\* Both transcripts are the ClientHello followed by the ServerHello, and all
\* that was negotiated can be read off the transcript.
Derived(ctx, client, server) ==
    /\ ctx.transcript = <<ctx.transcript[1], ctx.transcript[2]>>
    /\ ctx.transcript[1].cid = client
    /\ ctx.transcript[2].src = server
    /\ ctx.capabilities = ctx.transcript[2].caps
    /\ ctx.session_key = SessionKey(ctx.our, ctx.peer, ctx.transcript)

ClientContext(c) ==
    /\ hs[c].our = c
    /\ phase[c] = "idle" => hs[c] = NewContext(c)
    /\ phase[c] = "await_server_hello" =>
          hs[c] = CreateClientHello(NewContext(c), Supports[c], ClientCaps[c])
    /\ phase[c] = "await_finished" => hs[c].state = "KeysDerived"
    /\ phase[c] \in {"Active", "Closing"} <=> hs[c].state = "Complete"
    /\ hs[c].state \in {"KeysDerived", "Complete"} =>
          /\ Derived(hs[c], c, hs[c].peer)
          /\ hs[c].capabilities = Negotiated(ServerCaps, ClientCaps[c])

ServerContext(ctx, peer) ==
    /\ ctx.peer = peer
    /\ Derived(ctx, peer, ctx.our)

\* A ClientHello in flight is its sender's, a Finished in flight is the one
\* its sender computed when it completed.
FromClient(c, m) ==
    /\ m.kind = "ClientHello" => m = HelloOf(c)
    /\ m.kind = "Finished" => /\ hs[c].state = "Complete"
                              /\ m = CreateFinished(hs[c])

\* A ServerHello in flight was made for the client it travels to.
FromServer(c, m) ==
    m.kind = "ServerHello" =>
        /\ m.signed = <<HelloOf(c)>>
        /\ m.caps = Negotiated(ServerCaps, ClientCaps[c])

AgreesWithClient(conn) ==
    /\ hs[conn.peer].state = "Complete"
    /\ CreateFinished(conn.hs) = CreateFinished(hs[conn.peer])

\* Ids are drawn in order: those of accepted connections are in the past.
FreshIds ==
    /\ accept.pc = "recv_finished" => accept.hs.our = answered /\ answered # 0
    /\ \A k \in DOMAIN accepted :
          /\ accepted[k].hs.our \in 1 .. answered
          /\ accept.pc = "recv_finished" => accepted[k].hs.our # answered
          /\ \A j \in DOMAIN accepted :
                accepted[j].hs.our = accepted[k].hs.our => j = k

ClientProvenance == \A c \in Clients : ClientContext(c)

DatagramProvenance ==
    \A c \in Clients :
        /\ \A i \in DOMAIN toServer[c] : FromClient(c, toServer[c][i])
        /\ \A i \in DOMAIN toClient[c] : FromServer(c, toClient[c][i])

ServerProvenance ==
    /\ accept.pc = "recv_finished" => ServerContext(accept.hs, accept.peer)
    /\ \A k \in DOMAIN accepted :
          /\ ServerContext(accepted[k].hs, accepted[k].peer)
          /\ AgreesWithClient(accepted[k])

\* The provenance of every context and datagram.
Provenance ==
    /\ ClientProvenance
    /\ DatagramProvenance
    /\ ServerProvenance
    /\ FreshIds

-----------------------------------------------------------------------------
(* Liveness. *)

\* Only c has called connect(), on a network that has done nothing wrong.
Undisturbed(c) ==
    faults = 0 /\ \A d \in Clients \ {c} : phase[d] = "idle"

\* A connect() call that nothing disturbs ends with the connection established
\* at both ends: accept() answers, and both Finished messages are accepted.
ConnectEstablishes ==
    \A c \in Clients :
        phase[c] = "await_server_hello" /\ Undisturbed(c) ~>
            \/ \E k \in DOMAIN accepted : accepted[k].peer = c
            \/ ~Undisturbed(c)

-----------------------------------------------------------------------------
(* What the documents and comments say and the code does not do. *)

\* A client that has checked the server's Finished is a client the server
\* has a connection with, or will have.
ActiveAtBothEnds ==
    \A c \in Clients :
        phase[c] = "Active" ~> \E k \in DOMAIN accepted : accepted[k].peer = c
=============================================================================
