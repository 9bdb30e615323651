# Aether protocol: TLA+ models, model checking and proofs

This directory specifies the Aether workspace: the protocol core
(`aether-core`, with the loops of the demo server that use it), the identity
manager of `aether-sdk` and the TCP proxy `aether-gateway`. It checks the
specifications with TLC on small instances and proves their safety properties
with TLAPS. Every definition is translated from the Rust source;
`PROJECT.json` ("map") names the lines each one stands for.

## The system

| Component | State | Operations | Talks to |
|---|---|---|---|
| Handshake (`handshake.rs`) | `HandshakeContext`: state, both connection ids, ephemeral key, transcript, session key, capabilities | create and handle ClientHello, ServerHello, Finished; derive keys | called by Connection, uses Crypto |
| Connection (`connection.rs`) | state, handshake, AEAD session, streams, socket | bind, connect, accept, send_frame, recv_frame, ping, close, streams | UDP socket; one server socket is shared by `accept` and every accepted connection |
| Crypto (`crypto.rs`) | directional keys with a packet number that stays 0 | derive keys, encrypt, decrypt, Finished MAC | used by Handshake and Connection |
| Streams (`stream.rs`) | per stream: lifecycle state, three offsets, receive buffer | write, receive_data, read, close_write, close_read, window update | called by the program that uses the library |
| StreamManager (`stream.rs`) | table of streams, two id counters, connection budget | open, accept, close, shutdown, budget | called by Connection and the program |
| Multipath (`multipath.rs`) | table of paths, id counter | register, challenge, handle challenge and response, deactivate, timeouts, statistics | called by the program |
| Framing (`framing.rs`) | none | constructors, add_extension, encode, decode, wire_size | everything that sends |
| Congestion control (`congestion.rs`) | cwnd, min_rtt, max_bw, gain, phase, RTT window | on_ack, on_loss | nothing calls it yet |
| Discovery (`discovery.rs`) | peer cache behind a mutex, connection id | bind, announce loop, receive loop, query, get_peers, shutdown | UDP multicast |
| Identity manager and vaults (`aether-sdk/src/identity`) | identity in use, key file, archive | new, rotate, load, save, archive | file system, environment |
| SLA, monitoring (`aether-sdk`) | none that is read back | checks, metric macros | - |
| Gateway (`aether-gateway`) | semaphore, one task per connection, two copy tasks each | accept loop, proxy | TCP |
| Demo (`demo`) | - | echo server: accept loop, one receive loop per connection; client | Connection |

What is hard in it:

- **Interleaving.** The server's socket is read by `accept` (twice per
  connection, the second time from anyone) and by every receive loop. Both
  sides open, close and write streams while the peer's frames are under way.
  Discovery's loops share a cache by `try_lock`. The gateway runs three tasks
  per connection.
- **Unreliable delivery.** UDP loses, repeats and reorders. Nothing in the code
  retransmits or times out, although fields for both exist.
- **Ordering.** ServerHello and Finished, FIN and data, two window updates, a
  response and a newer challenge, announces and goodbyes of two starts of a
  node may arrive in the other order.
- **Limits and arithmetic.** Stream ids, path ids, the number of streams and
  paths, windows, permits; bit fields that share octets; truncating divisions
  and a product that wraps.
- **Restarts and partial failure.** Rotation of an identity is three file
  operations; a node of the discovery leaves, crashes and comes back; one of
  two copy tasks fails while the other goes on.

What makes each component correct:

- both ends of a handshake agree on key, transcript and capabilities, once;
- a stream skips nothing of what was written, no read has a hole, the window is
  kept, and its lifecycle matches the FINs sent;
- a stream id belongs to one opener and is never drawn twice;
- a path is active at its initiator only by the answer to its own challenge,
  and the two ends mean the same pair of addresses by it;
- `decode` undoes `encode`, refuses what was cut, and damage in the payload
  stays there;
- the estimates of congestion control are what the comments say of them, and
  the window follows them;
- the list of peers is never older than the TTL and in the end right, and a
  peer that stays is on it;
- no identity is lost before it is archived, and none that was rotated away
  comes back;
- every permit comes back once both ends are done and read what is left, and a
  connection that ended well has passed on all.

## Modules

| Module | Models |
|---|---|
| `Handshake` | `HandshakeContext` operations as operators on records; crypto as terms |
| `Connection` | connect, accept, send, receive and close of several clients and one server over a faulty network |
| `Stream` | `Stream` and `FlowControl` operations as operators on records |
| `PrefixStream` | abstract: what the reader has been given is a prefix of what was written; each read is a run without a hole, and none starts past the next byte |
| `StreamLink` | one stream at both ends, over a network that loses, reorders and repeats; refines `PrefixStream` once per direction |
| `StreamManager` | the stream tables of both sides of a connection |
| `Multipath` | the path tables of both sides |
| `Framing` | a frame that is built, encoded, damaged and decoded |
| `Congestion` | the congestion controller, with acks and losses in any order |
| `Discovery` | the nodes of a multicast group and their caches |
| `IdentityManager` | new and rotate over the file and the environment vault |
| `Gateway` | the accept loop and the tasks of every connection |
| `MC...` | small instances for TLC |
| `...Proofs` | TLAPS proofs about `Connection`, `StreamLink`, `StreamManager`, `Framing`, `Multipath`, `Congestion`, `Discovery`; `ApplicationProofs` holds those about `IdentityManager` and `Gateway` |

### Handshake and Connection

One element of `Clients` is one `Connection::connect` call with its own socket.
`phase` follows the awaits of `perform_client_handshake` and then
`ConnectionState`; `hs` is the client's `HandshakeContext`. The server is
`accept` (the call in progress: waiting for a ClientHello, or for a Finished),
`accepted` (the connections it returned) and `answered`, the number of hellos
answered, from which fresh ids come. Each `recv` is one action, because another
task may run between two awaits: `ReceiveServerHello`, `ReceiveFinished`,
`AcceptHello`, `AcceptFinished`, `ServerReceive`, `ClientReceive`. A handler's
whole effect, the frames it sends included, is in its action.

Cryptography is symbolic: a session key is the unordered pair of key shares and
the transcript it was derived from, a Finished is the key and transcript it is
a MAC of, a sealed frame is key, direction and associated data. Random ids and
ephemeral keys are drawn together and never repeat. The packet number is
constant in the code (`packet_number` and `tx_packet_number` are never
advanced), so it does not appear. Two of the five capabilities
(`max_stream_data`, `idle_timeout_ms`) are negotiated exactly as `max_streams`
and are left out.

### Streams

`Connection` does not hand frames to its `StreamManager`; the program that uses
the library calls it for each frame. `StreamLink` is that program: any frame in
flight may be delivered next (`Deliver`), or never, and frames of the kinds in
`DupKinds` may be delivered again. A fragment carries the offset on the wire
(`off`, truncated to `OffsetSpace`) and the writer's own position (`from`), so
that properties can tell bytes apart where the wire cannot. `read()` sorts the
buffer, also when it then returns nothing (`ReadNothing`), and takes fragments
that follow each other from offset 0 (`Takes`). `granted`, `finned`, `written`
and `delivered` record what was promised, closed, written and read. Empty
writes are left out, and so is the overflow of 64-bit offsets.

`PrefixStream` lets a read give bytes again, because the code does: it keeps
every copy of a datagram. What it forbids is a hole inside a read, a read that
starts past the next byte, and a byte that was not written. That a second read
then never returns the next byte is a defect of the code and a run of its own
(`WaitsOnlyForHole`).

`StreamManager` keeps the tables of both sides; an entry is its lifecycle state.
`open_stream` draws an id before it checks `MAX_STREAM_ID` (`ExhaustedOpen`);
`accept_stream` refuses only an id that is in the table. The calls on the
connection's budget are independent in the code: `ReserveConnectionSend` adds
whatever it is given, and no property says that streams stay within the budget.

### Multipath

The tables of both sides and the two frames between them. A nonce is identified
with the call that drew it. `deactivate_path` and `check_timeouts` have the same
effect on one path and are one action. The peer's address is its home address:
only the side that challenges moves. `max_paths` is any number, as in the code,
and may be larger than `IdSpace`, the number of ids (256): a challenge in a full
table of ids then draws one that is in use, and replaces the entry. RTT, loss
counters, `quality_score` and `best_path` are left out.

### Framing

A datagram is the sequence of its octets. Fields that share octets (version,
type, H and E bits, 18 bits of stream id) and offset and length are numbers and
are put together and taken apart with `\div` and `%`; connection ids and
payloads are opaque octets. `NewFrames` has the frames the constructors build,
`WithExtension` is `add_extension`. Between `Send` and `Receive` the network may
do one thing to the datagram: cut it, write over one octet, or add one. The
loop over the extension chain is the recursive function in `DecodeChain`.
`ExtensionsSize` adds up the chain as `wire_size()` does, without encoding it. A
long frame with extensions is excluded (`Expressible`): see below.

### Congestion

`OnAck` is the whole of `on_ack`: the estimates first (`Estimate`), then one of
four actions by phase, all on the new estimates, as in the code. Products of
`f64` that are cast to `u64` are integer divisions. The clock counts seconds and does not
run backwards; `Word` is 2^64, at which `min_rtt * 3` before the first ack wraps
in a release build. `acks` and `losses` are history.

### Discovery

A node is an identity; each start draws a new connection id, here the number of
the start. Times are relative: the age of an entry and the time to the next
announce. `LockPeers` and `GetPeers` are the two halves of `get_peers()`, between
which `try_lock` fails in the receive loop and `CachePeer` and `RemovePeer` drop
their update. The announce loop goes on after `shutdown()`. Datagrams may be
lost when they are sent, and are delayed and reordered without limit; `Exit`
ends the process with or without a goodbye. `heard` is history: the time since
an announce arrived.

### IdentityManager

An identity is its seed, and a seed is either drawn or the hash of an identity,
because that is what `save_identity` writes and `load_identity` reads. `new()`
and `rotate()` are split at each file operation (`Archive`, `OpenKeyFile`, which
empties the file, `WriteKey`), each of which may fail; the swap of the identity
in memory is a step of its own (`Use`), and `Exit` may come between any two. A
stop after `WriteKey` and before `Use` leaves a file that names the identity that
was being rotated to. `kind` chooses the vault; the environment vault's `save_identity` changes
nothing. `last` (the identity in use when the process stopped, and the one that
had been saved and was not in use yet) and `retired` are history.

### Gateway

`loop` is the await the accept loop is in; a permit is held from before
`accept()` to the end of the connection's task. Each direction of a connection
is a copy task that passes on what its end has sent, ends with it, or fails on
a reset; `Close` waits for both. The ends send, finish and reset at any time.
`Pass` is the return of a write to the other end. It may take as long as it
likes, for ever if that end does not read: no fairness makes it happen
(`WriteWaits`). Bytes are counted, not named.

## Runs

`*.cfg` gives constants their values. Deadlock is not checked: every program
here may stop calling, and every bound stops it.

| Run | Question and result |
|---|---|
| `MCConnection` | Two clients with different capabilities, the network commits up to two faults of any kind, each client may send a frame and close. `Agreement`, `AcceptedOnce`, `Provenance`, `WithinBothCapabilities` and `KeysAreFinal` hold, and a `connect()` that nothing disturbs ends with a connection on both sides (`ConnectEstablishes`). |
| `MCConnectionTwo` | Two clients at once, no faults: `ActiveAtBothEnds` is **violated**, `accept` takes a stranger's datagram for the Finished. |
| `MCStreamLink` | One writer; loss, reordering, one repeated Data, FIN or window frame. The window and the lifecycle are right, and the direction implements `PrefixStream`: no read has a hole and none skips a byte. |
| `MCStreamLinkWait` | Two bytes, two reads, no faults: `WaitsOnlyForHole` is **violated**, the second read returns nothing although its byte is there. |
| `MCStreamManager` | Ids, openers and own limit hold to the last id and past it, with repeated frames and any use of the budget. |
| `MCMultipath` | One side challenges until its table is full, and once more: ends agree, activation needs the path's own nonce, entries keep their addresses, every challenge is answered. |
| `MCFraming` | Every kind of frame with up to two extensions: round trip, refusal of what was cut, stability of what is accepted, locality of damage. |
| `MCCongestion` | Estimates, window after an ack from below and above, with a round trip of 0 among the measured ones; a loss at an ordinary round trip is never forgiven. |
| `MCDiscovery` | A watcher and a peer that leaves, crashes and starts again: the list is never too old, a fresh peer goes only by its goodbye, the list becomes right, and a peer that stays is listed again and again if losses are fair. |
| `MCIdentity` | Starts, rotations, failures and crashes: nothing is lost before it is archived, nothing rotated away returns, and a restart loads what the last save left, by its hash, or the identity that was loaded. |
| `MCIdentityRestart` | `IdentitySurvivesRestart` is **violated** by the first restart: the hash of the identity is read as its seed. |
| `MCGateway` | Two clients, one permit, failing accepts and connects, resets, writes that wait: permits add up and nothing is cut off; if the ends go on reading, permits come back and clients are served. |

The three violations are findings of `PROJECT.json`; each quotes the line of the
repository it contradicts.

**Bounds.** Two clients are what interference needs: one whose handshake is
under way, one that disturbs it; two faults allow a repeated ClientHello and a
swap. Three bytes in writes of one or two give every order of up to three
fragments, a buffer that is read in part, and a window that is too small until
it is widened, by two updates that may arrive in either order; one repeated
Data frame makes a second read return bytes again. Two `open_stream`
calls of each side reach the limit, the last id and the exhausted counter; only
the client uses its budget, since the two budgets do not meet.
Four challenges with three ids and room for three paths fill the table, wrap the
counter into the id of the primary path, and have one challenge refused: with
room for one more (the faulty variant `HasRoomForOneMore`) an entry is replaced.
Stream ids 0, 65793 and 262143 have distinct digits in each octet and set every
bit. Four acks, two losses and three seconds with a window of two seconds reach
every phase, a sample that ages out and one that stays, and a loss before any
ack. One restart of a peer with two datagrams in flight has the old start's
announce and goodbye arrive after the new one's. Four identities allow a
rotation, a failed one, a restart and another rotation. Two clients and one
permit make one wait for the other; one byte each way tells what was passed on
from what was not. All safety properties are also proved without these bounds.

**Fairness.** `Connection!FairSpec` asks that a task blocked in `recv` resumes
once a datagram is there, which tokio's scheduler provides; it promises nothing
about what the applications do. `AcceptStep` is one task, `Listener::accept`'s
loop, so it is one fairness condition. `Multipath!FairSpec` says that a frame in
flight is delivered in the end: `ChallengeAnswered` is a statement about the
handlers on a network that loses nothing, and is used with no other meaning.
`Discovery!FairSpec`: both loops and the timers run, a datagram that was not
lost arrives some time, and the watching program calls `get_peers()` again and
again, without which nothing removes an expired entry. `StaysKnown` has a
hypothesis of its own, `FairLoss`: if a peer announces itself again and again,
again and again an announce gets through, past the network and past the lock;
without it a peer that stays may never be heard of. `GatewayFairSpec`:
tokio runs every task that can go on; `accept()` may fail at any time, but not
for ever, hence strong fairness of `Accept`. Nothing is asked of the ends of a
connection: they need not finish and need not read, and a copy task whose write
waits may wait for ever. `PermitReturns` and `ClientsAreServed` therefore have
the hypothesis `EndsRead`, that no write waits for ever; without it both are
false, since `io::copy` has no timeout. An end that reads but never finishes
keeps its permit too, which both properties name.

**Faulty variants.** Beside some definitions stands a second one, marked
"Faulty variant of". It is the definition with a plausible mistake: exchanged
ids, a check that is left out, a counter that does not advance. No
specification uses it; put in place of the original it makes TLC report the
property `PROJECT.json` ("mutants") names, which shows that the property can
fail.

## What is proved

Each theorem holds for every value of the constants that the modules' `ASSUME`s
allow, with the further assumptions named below. `TypeOK` of every module with
proofs is a theorem; but for `Connection` it is proved only, not also run.

**`ConnectionProofs`**, for every set of clients, all capabilities and versions,
and any number of faults of any kind: `ProvenanceHolds`, `AgreementHolds`,
`AcceptedOnceHolds`, `CapabilitiesHold`, `KeysAreFinalHolds`. `Agreement` is not
inductive: nothing in it says what a Finished in flight proves. `Provenance`
adds it. Every context is in the shape its phase gives it; both halves of a
context can be read off its transcript; a ClientHello in flight is its
sender's; **a Finished in flight to the server is the one its sender computed
when it completed**; ids of accepted connections are in the past and pairwise
different. When `accept()` verifies a Finished from whoever sent it, the MAC
equals that sender's own; equal MACs have equal transcripts, and the first
message of the transcript names the client, so the sender is the peer.
`AcceptedOnce` follows because the transcript also names the server's id. The
cryptography is the symbolic one above.

**`StreamLinkProofs`**, for any windows, lengths of writes and reads, number of
bytes and number of repeated frames. Three inductive invariants carry it:

- `Flow` (for `ReceivedWithinGrantHolds`, `ReceivedWithinWrittenHolds`).
  `receive_data` checks nothing, so what bounds `received_offset` is spread over
  both ends and the network: the writer's window, and every window update in
  flight, is one its peer granted; a Data frame in flight stays within the
  writer's window and within what was written.
- `Lifecycle` (for `CloseMatchesHolds`, `NothingAfterFinHolds`): a FIN in flight
  has a sender that closed, and a StreamOpen in flight has an acceptor that does
  not have the stream yet and never had it. **Assumption:** no StreamOpen is
  repeated. A repeated one opens a closed stream again, and then `CloseMatches`
  is false.
- `Positions` (for `ReadsInOrderHolds`, the refinement of `PrefixStream`): every
  fragment, in flight or buffered, lies at the offset where the writer put it.
  What one read returns is then a run from the first byte of the stream
  (`PlacedPrefix`), and bytes may be repeated, so it skips nothing whatever
  earlier reads returned; the part of `delivered` that a read adds is that run
  (`Suffix`). Frames may be repeated any number of times. **Assumption:**
  `MaxBytes <= OffsetSpace`, that is, fewer bytes than the 32 bits on the wire
  can number.

**`StreamManagerProofs`**: `EachHasOneOpenerHolds`, `NextIsFreshHolds`,
`OwnWithinLimitHolds`. `Parity` keeps the ids of
the two sides apart, also past a wrap, because a u32 wraps at an even number
(`IdAssumption`); `Known` says that every id in a table or in a StreamOpen was
issued by its opener, `Tables` that the tables are finite. Only
`NextIsFreshHolds` needs more: `Counters`, where a counter stands after so many
calls and which ids it has issued, under the **assumption** `NoWrap`: fewer
than 2^31 calls of `open_stream` on a side. Past it, refused calls have wrapped
the counter and ids repeat.

**`FramingProofs`**, for any stream ids, offsets, payloads, extensions and
damages: `RoundTripHolds`, `CutIsRefusedHolds`, `AcceptedIsStableHolds`,
`PayloadDamageIsLocalHolds`. Three lemmas about the wire format carry them.

- `FrameRoundTrip`: a well-formed frame decodes from every datagram that begins
  with its encoding. `Holds(b, i, s)`, the octets of `s` stand in `b` from octet
  `i` on, splits over concatenation (`HoldsJoined`), so each word, header,
  extension and the payload is read where it was put (`Word32Held`,
  `HeaderRoundTrip`, `ExtensionRoundTrip`); `ChainRoundTrip` goes along the
  chain.
- `FrameDecoded`: what decodes is well formed, and its encoding is no longer
  than the datagram. With the first lemma this is `AcceptedIsStable`.
- `SameFrame`: what decodes decodes to the same frame when octets are added. A
  cut datagram that decoded would therefore decode to the frame that was sent,
  whose encoding is longer than what is left: `CutIsRefused`.

That `wire_size()`, a sum of its own, is the length of what `encode()` writes is
`EncodedSize`; `EncodedChainSize` compares the two sums over a chain.

`OverwrittenPayload` says that the headers and the chain of a damaged datagram
are those of the frame and its payload is another one of the same length. The
inductive invariant relates the three variables: the frame is what the
constructors build (`Built`), the datagram what the network made of its encoding
(`Carried`), the result what decodes from it. **Assumptions:** the fields of a
frame fit the Rust types (`RangeAssumption`: a u32 is below 2^32, an extension's
length takes three octets), and `Err` and `None` are none of the values
(`ResultAssumption`). A stream id must fit its 18 bits; the frames a sender
builds with a long header and extensions are outside `RoundTrip` and
`CutIsRefused` (`Expressible`), see "Other disagreements".

**Induction.** The library's induction theorems take an operator as parameter,
which no installed prover can instantiate. What they are needed for is proved
from one of them that does not: `NatLessThanWellFounded` gives a least element
of every non-empty set of naturals (`LeastOf`), and the claim about every length,
cardinality or place follows for the least number at which it would fail. A
recursive function written with CHOOSE satisfies its own equation once a
function that does exists (`DecodesExists`, `FlattensExists`, `LengthsSum`) and any two agree
where both are defined (`DecodesAgree`).

**`MultipathProofs`**: `EndsAgreeHolds`, `ActivationUsesNonceHolds`,
`EntriesKeepAddressesHolds`. `Numbering`: an initiator's ids are those below its
counter, or all there are; `ChallengesMatch`, `ResponsesMatch`: a challenge in
flight names its path's addresses, a response a path the peer has; `Twins`: what
the peer has, the initiator has with the addresses exchanged; `ActivesKnown`.
The invariant holds until a side has drawn every id and still has room
(`Wrapping`), which is for ever if `max_paths` is at most 256; at exactly 256 the
last challenge draws the id of the primary path (`Overlaid`).
`EntriesKeepAddressesHolds` has no bound on `max_paths`: it says that an entry is
replaced in these two cases only. **Assumptions:** `OneInitiator` for all three,
at most one side challenges, the documented use (otherwise the ids of the two
sides collide); `IdsSuffice`, `max_paths` at most 256, for the other two.

**`CongestionProofs`**: `MinOfWindowHolds`, `BestBandwidthHolds`,
`AckBoundsWindowHolds`, `AckKeepsWindowOpenHolds`, `OrdinaryLossCutsHolds`.
`WindowIsRecent` says that `rtt_window` has exactly the samples of the recent
acks, `MinOfSamples` that `min_rtt` is their minimum, `AcksPast` that none is in
the future. `OrdinaryLossCutsHolds` assumes `ShortTrips`: three times a round trip
fits into 64 bits.

**`DiscoveryProofs`**: `ListedWasHeardHolds`, `FreshPeersStayHolds`.
`CacheWasHeard`: an entry is no fresher than what was heard, is of another node
and of a start it has made; `AnnouncesHappened` says the last of every announce
in flight, `RunningStarted` of every node that can answer a query.

**`ApplicationProofs`**, about the SDK's `IdentityManager`:
`NamedOrArchivedHolds`, `RetiredForGoodHolds`, `RestartKeepsOrHashesHolds`.
`File` says what the key file holds at each step of new and rotate, the one
between save and swap included, and after a stop; `Draws`, that an identity that
is generated is newer than all others; `Retired`, that retired ones are older
than the one in use and the one the file names, which is why none comes back.
About the `Gateway` (whose specification has names of its
own, `GatewaySpec` and so on, so that one module can be about both):
`PermitsAddUpHolds`, `NothingCutOffHolds`. `Queue`: the backlog holds each
queued connection once, so an accepted one adds exactly one holder of a permit;
`CopyStages`: what the stage of a connection says of its two copies, and a copy
that ended well has passed on all its end sent.

Every invariant and every action property of the passing runs is the statement
of a theorem. Only model-checked is liveness (`ConnectEstablishes`,
`ChallengeAnswered`, `Settles`, `StaysKnown`, `PermitReturns`, `ClientsAreServed`), which the
prover cannot treat: it has neither fairness nor ENABLED.

## Other disagreements

Read off the code while it was modelled, and visible in the modules, but not the
subject of a run.

Handshake and connection:

- `connect()` awaits `recv` without a timeout and sends its ClientHello once
  (`connection.rs:207`): a lost datagram makes it wait for ever. `idle_timeout`
  (`connection.rs:185`) and `Error::Timeout` (`error.rs:16`) are never used;
  spec line 571 lists `IDLE_TIMEOUT_MS`.
- Each side authenticates its own connection id: `recv_frame` opens with the
  receiver's, `send_frame` seals with the sender's (`connection.rs:341`, `418`),
  so no frame of an established connection opens (spec line 239, and the demo,
  `main.rs:107`, expect that frames flow).
- `handle_client_hello` tells the client nothing about a version mismatch;
  `connect()` waits (spec line 429 has a close code for it).
- `close()` sets `Closing` first, then `send_frame` refuses because the state is
  not `Active`; `Closed` is never reached (`connection.rs:394`, `ClientClose`).
- A server cannot send: its socket is not connected (`connection.rs:318`,
  `ServerSend`).
- `StreamManager` gets the local, not the negotiated limits (`connection.rs:171`).
- `ServerHello::decode` indexes without a length check, so a Finished that
  arrives first panics the task (`handshake.rs:304`, phase `panicked`).

Streams:

- The calls on the connection's budget (`stream.rs:354-362`) are coupled by
  nothing: `write` makes none of them, `reserve_connection_send` checks nothing,
  and no code of the repository calls them (spec line 275 has flow control of the
  connection).
- The second FIN removes the stream with data that was not read (`stream.rs:338`;
  spec line 266).
- Data that arrives again after it was read is read again (`stream.rs:235`;
  spec line 302 foresees repetition on two paths): the buffer keeps both copies,
  and no property excludes it. A copy of the first fragment is also the only
  thing a read after the first can return.
- `readable_streams` does not list a stream whose peer has finished although
  `read()` returns its data (`stream.rs:390`).
- After the peer's FIN this end cannot write (`stream.rs:53`), although the
  comments make the two directions separate (`stream.rs:41`, `43`).
- A stream closed by `close_write` stays in the table (`stream.rs:155`).
- A repeated StreamOpen opens a removed stream again (`stream.rs:307`).
- A FIN that overtakes data makes `read()` report the end too early.
- Offsets are truncated to 32 bits (`stream.rs:98`); past 4 GiB order is lost.
- `accept_stream` ignores `max_streams`.
- Refused `open_stream` calls still advance the counter, which in a release
  build wraps to id 0 (`stream.rs:287`).
- Spec line 249 lets clients start at stream id 0; the code starts at 2.

Multipath:

- Both sides count path ids from 1 (`multipath.rs:98`), so the ids collide when
  both challenge (spec line 306).
- `handle_path_challenge` ignores `max_paths`; paths given up count against it
  for ever.
- `max_paths` is a `usize` nobody compares with the 256 ids of a `u8`
  (`multipath.rs:95`, `124`, `132`): above 256 the 257th path replaces an entry
  that is in use.
- `deactivate_path` leaves the nonce of a challenge that is not answered yet
  (`multipath.rs:226`): the late response activates a path that was given up.
- A path whose round trip was never measured has score 0 (`quality_score`,
  `multipath.rs:62`) and `best_path` prefers it to every measured one, whatever
  it has lost.

Framing:

- `from_u8(..).unwrap_or(Terminator)` (`framing.rs:173`): an extension of an
  unknown type ends the chain, and the payload is then read from the wrong
  place; the comment at line 135 says unknown ones are ignored for forward
  compatibility.
- `add_extension` on a long frame sets the E bit of `header`, not of
  `long.short`, which is the one that is encoded: the extensions are taken for
  payload.
- A short header of type Initial or Handshake is accepted, although the comment
  at line 200 names 0x02-0x09 only; the version is not looked at; a stream id
  above 18 bits is truncated silently.

Congestion control:

- `on_loss` takes every loss at a round trip above `3 * min_rtt` for noise and
  does not look at the bandwidth (`congestion.rs:134`). The comments at
  `congestion.rs:21-22` and `131`, and spec lines 345-346, call a loss noise only
  if the delivery rate is stable as well; `OrdinaryLossCuts` claims nothing about
  losses at high round trips.
- A round trip of 0 makes `min_rtt` and with it the window 0; repeated losses
  halve the window to 0.
- A window below 10 never grows in Startup (`* 1.1`, truncated), and an ack of
  no bytes grows one above.
- Nothing leaves Steady, and from Drain on the gain never cycles: after one ack
  with 0.75 it stays 1.25.
- A loss before the first ack: `u64::MAX * 3` panics in a debug build and wraps
  in a release build to 2^64 - 3, so that the loss halves the window.

Discovery:

- The doc comment says 224.0.0.251 (line 6), the code uses 224.0.0.252 (line 31).
- After `shutdown()` the announce loop goes on and the node stays in every cache
  while its process runs.
- A late goodbye of an older start removes the restarted node; an older announce
  replaces a newer entry until the next one.
- Only `get_peers()` removes expired entries. `Response` is never sent, and the
  service never sends a `Query`. The announce before the loop and the loop's
  immediate first tick are two announces.

Identity:

- `new()` takes any load error for a missing identity and overwrites the key
  file with a new one (`mod.rs:76`), without an archive entry.
- A crash after `fs::write` has emptied the file leaves one no load accepts; the
  next start generates an identity.
- A stop after the file was written and before `rotate` returns makes the next
  start use the identity that was being rotated to (`mod.rs:115-116`), whose hash
  nobody has been told.
- The archive keeps public keys only, so an archived identity cannot be used in
  a grace period (`vault.rs:20-23`).
- With the environment vault a rotation is undone by the next start.
- `needs_rotation` ignores `interval_days` (`mod.rs:128`).

Gateway:

- The end of one direction is not passed on as a half-close, so an end that
  waits for it keeps its connection, and its permit, open.
- Neither do an end that does not read and a write that waits for it
  (`main.rs:101-102`, no timeout): the connection keeps its permit although both
  ends may have finished, and clients in the backlog wait.
- An error in one copy does not stop the other.
- The error arm of `acquire_owned` (`main.rs:84-87`) is unreachable.

## Not modelled, and what is left

- The statistics of a path (`record_rtt`, `record_loss`, `quality_score`,
  `best_path`): they influence no other state.
- The DHT record and its xor distance in Discovery, which nothing calls, and the
  JSON encoding of a peer.
- Two of five capabilities, the statistics counters, `incoming_frames` and
  `pending_acks`, which nothing fills, and `StreamHandle` (`todo!()` stubs).
- SLA checks (three comparisons), monitoring (metric macros), the Ed25519
  wrapper, error definitions, console output, the empty benchmark.

Left for later: a composition of `Connection` with the stream tables of its two
ends once the code hands frames from one to the other; an abstract
specification of the list of peers for `Discovery` to implement; and the path
statistics, if path selection comes to depend on more than the latest values.
