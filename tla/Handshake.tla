------------------------------ MODULE Handshake ------------------------------
(***************************************************************************)
(* The handshake of the Aether protocol (aether-core/src/handshake.rs) as  *)
(* operators on HandshakeContext values.  Connection.tla runs one context  *)
(* per connect() call and one per accept() call over the network.          *)
(*                                                                         *)
(* Cryptography is symbolic.  A connect() or accept() call draws a random  *)
(* connection id and an ephemeral X25519 key pair: both are identified     *)
(* with the call itself, so an id stands for the pair.  A session key is   *)
(* the term HKDF is applied to, a signature and a Finished MAC are the     *)
(* terms they are computed from, and two terms are equal iff their parts   *)
(* are.  Of the five capabilities, max_stream_data and idle_timeout_ms are *)
(* negotiated exactly as max_streams is and are left out.                  *)
(***************************************************************************)
EXTENDS Naturals, Sequences

CONSTANTS
    None,      \* an Option that holds nothing
    Version    \* crate::AETHER_VERSION of this build

-----------------------------------------------------------------------------
(* Wire messages. *)

ClientHello(cid, versions, caps) ==
    [kind |-> "ClientHello", cid |-> cid, versions |-> versions, caps |-> caps]

\* `signed' is the transcript the identity proof was computed over.
ServerHello(src, dst, signed, caps) ==
    [kind |-> "ServerHello", src |-> src, dst |-> dst, signed |-> signed,
     caps |-> caps]

\* x25519_dh is symmetric: the shared secret is the unordered pair of keys.
SessionKey(ours, peers, transcript) ==
    [dh |-> {ours, peers}, transcript |-> transcript]

\* The MAC has no direction label: both sides compute the same value.
Finished(key, transcript) ==
    [kind |-> "Finished", key |-> key, transcript |-> transcript]

-----------------------------------------------------------------------------
(* Contexts. *)

NewContext(cid) ==
    [state |-> "Initial", our |-> cid, peer |-> None, transcript |-> <<>>,
     session_key |-> None, capabilities |-> None]

CreateClientHello(ctx, versions, caps) ==
    [ctx EXCEPT
        !.transcript = Append(@, ClientHello(ctx.our, versions, caps)),
        !.state      = "HelloSent"]

Lesser(m, n) == IF m <= n THEN m ELSE n

\* Faulty variant of Negotiated: the server's limit whatever the client's is.
NegotiatedByServer(server, client) ==
    [multipath     |-> server.multipath /\ client.multipath,
     max_streams   |-> server.max_streams,
     ack_frequency |-> client.ack_frequency]

\* The intersection of the two sides' capabilities; ack_frequency is the
\* client's choice.
Negotiated(server, client) ==
    [multipath     |-> server.multipath /\ client.multipath,
     max_streams   |-> Lesser(server.max_streams, client.max_streams),
     ack_frequency |-> client.ack_frequency]

\* Faulty variant of VersionSupported: only the newest version offered counts.
NewestSupported(hello) == \A v \in hello.versions : v <= Version

VersionSupported(hello) == Version \in hello.versions

\* Faulty variant of HandleClientHello: the two ids are swapped.
HandleClientHelloSwapped(ctx, hello, cid, caps) ==
    LET agreed == Negotiated(caps, hello.caps)
        heard  == Append(ctx.transcript, hello)
        full   == Append(heard, ServerHello(cid, hello.cid, heard, agreed))
    IN  [state        |-> "KeysDerived",
         our          |-> hello.cid,
         peer         |-> cid,
         transcript   |-> full,
         session_key  |-> SessionKey(cid, hello.cid, full),
         capabilities |-> agreed]

\* The server's half: `cid' is the id and key pair it draws for this client.
HandleClientHello(ctx, hello, cid, caps) ==
    LET agreed == Negotiated(caps, hello.caps)
        heard  == Append(ctx.transcript, hello)
        full   == Append(heard, ServerHello(cid, hello.cid, heard, agreed))
    IN  [state        |-> "KeysDerived",
         our          |-> cid,
         peer         |-> hello.cid,
         transcript   |-> full,
         session_key  |-> SessionKey(cid, hello.cid, full),
         capabilities |-> agreed]

\* Identity::verify of the proof against the client's own transcript.
ProofVerifies(ctx, hello) == hello.signed = ctx.transcript

HandleServerHello(ctx, hello) ==
    LET full == Append(ctx.transcript, hello)
    IN  [ctx EXCEPT
            !.peer         = hello.src,
            !.transcript   = full,
            !.session_key  = SessionKey(ctx.our, hello.src, full),
            !.capabilities = hello.caps,
            !.state        = "KeysDerived"]

CreateFinished(ctx) == Finished(ctx.session_key, ctx.transcript)

\* Faulty variant of FinishedVerifies: the MAC is not compared.
AnyFinished(ctx, message) ==
    /\ ctx.session_key # None
    /\ message.kind = "Finished"

\* The check shared by handle_finished_and_respond and verify_finished; it
\* does not look at the frame's type.
FinishedVerifies(ctx, message) ==
    /\ ctx.session_key # None
    /\ message = CreateFinished(ctx)

CompleteHandshake(ctx) == [ctx EXCEPT !.state = "Complete"]

HandshakeStates == {"Initial", "HelloSent", "KeysDerived", "Complete"}
=============================================================================
