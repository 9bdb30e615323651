-------------------------------- MODULE Gateway --------------------------------
(* The TCP proxy: an accept loop that takes a permit per connection, and for     *)
(* each connection a task that connects to the target, starts one copy task per *)
(* direction, waits for both and gives the permit back.                         *)
EXTENDS Integers, FiniteSets, Sequences

CONSTANTS Clients,        \* inbound TCP connections
          MaxConnections, \* --max-connections
          MaxBytes        \* bound: what one end sends on one connection

ASSUME GatewayAssumption ==
  IsFiniteSet(Clients) /\ MaxConnections \in Nat \ {0} /\ MaxBytes \in Nat

VARIABLES available, \* free permits of the semaphore
          loop,      \* the await the accept loop is in
          backlog,   \* connections the listener has not handed out
          conn,      \* [Clients -> Stages]
          copy,      \* [Clients -> [Ends -> Copies]]: the task that reads from that end
          sent,      \* [Clients -> [Ends -> 0..MaxBytes]]: bytes an end has sent
          passed,    \* [Clients -> [Ends -> 0..MaxBytes]]: those written to the other end
          finished,  \* [Clients -> SUBSET Ends]: ends that have shut down their writing
          gone       \* [Clients -> SUBSET Ends]: ends that have reset the connection

proxy == <<available, loop, backlog, conn, copy, passed>>
ends == <<sent, finished, gone>>
gatewayVars == <<proxy, ends>>

Ends == {"client", "server"}
Other(e) == CHOOSE f \in Ends : f # e
Stages == {"outside", "queued", "connecting", "proxying", "closed"}
Copies == {"none", "running", "ended", "failed"}

GatewayInit ==
  /\ available = MaxConnections
  /\ loop = "acquire"
  /\ backlog = <<>>
  /\ conn = [c \in Clients |-> "outside"]
  /\ copy = [c \in Clients |-> [e \in Ends |-> "none"]]
  /\ sent = [c \in Clients |-> [e \in Ends |-> 0]]
  /\ passed = [c \in Clients |-> [e \in Ends |-> 0]]
  /\ finished = [c \in Clients |-> {}]
  /\ gone = [c \in Clients |-> {}]

--------------------------------------------------------------------------------

\* acquire_owned returns; the semaphore is never closed, so it never fails.
Acquire ==
  /\ loop = "acquire"
  /\ available > 0
  /\ available' = available - 1
  /\ loop' = "accept"
  /\ UNCHANGED <<backlog, conn, copy, passed, ends>>

\* accept() returns a connection; its task gets the permit.
Accept ==
  /\ loop = "accept"
  /\ backlog # <<>>
  /\ conn' = [conn EXCEPT ![Head(backlog)] = "connecting"]
  /\ backlog' = Tail(backlog)
  /\ loop' = "acquire"
  /\ UNCHANGED <<available, copy, passed, ends>>

\* Faulty variant of AcceptFails: the permit is forgotten instead of dropped.
AcceptFailsForgetting ==
  /\ loop = "accept"
  /\ loop' = "acquire"
  /\ UNCHANGED <<available, backlog, conn, copy, passed, ends>>

\* accept() fails; the permit is dropped at the end of the arm.
AcceptFails ==
  /\ loop = "accept"
  /\ available' = available + 1
  /\ loop' = "acquire"
  /\ UNCHANGED <<backlog, conn, copy, passed, ends>>

\* TcpStream::connect returns: both copy tasks start.
ConnectTarget(c) ==
  /\ conn[c] = "connecting"
  /\ conn' = [conn EXCEPT ![c] = "proxying"]
  /\ copy' = [copy EXCEPT ![c] = [e \in Ends |-> "running"]]
  /\ UNCHANGED <<available, loop, backlog, passed, ends>>

\* Faulty variant of ConnectFails: returning early skips drop(permit).
ConnectFailsHolding(c) ==
  /\ conn[c] = "connecting"
  /\ conn' = [conn EXCEPT ![c] = "closed"]
  /\ UNCHANGED <<available, loop, backlog, copy, passed, ends>>

\* TcpStream::connect fails: proxy_connection returns Err, the permit is dropped.
ConnectFails(c) ==
  /\ conn[c] = "connecting"
  /\ conn' = [conn EXCEPT ![c] = "closed"]
  /\ available' = available + 1
  /\ UNCHANGED <<loop, backlog, copy, passed, ends>>

\* The copy has something to write to an end that is there: the write returns when
\* that end reads, and until then it waits.
WriteWaits(c, e) ==
  /\ copy[c][e] = "running"
  /\ passed[c][e] < sent[c][e]
  /\ Other(e) \notin gone[c]

\* io::copy passes on what it has read from e: its write to the other end returns.
Pass(c, e) ==
  /\ copy[c][e] = "running"
  /\ gone[c] = {}
  /\ passed[c][e] < sent[c][e]
  /\ passed' = [passed EXCEPT ![c][e] = sent[c][e]]
  /\ UNCHANGED <<available, loop, backlog, conn, copy, ends>>

\* io::copy reads the end of what e sent, and returns. The writing half it drops
\* does not close the other end's stream, which the other task still reads.
CopyEnds(c, e) ==
  /\ copy[c][e] = "running"
  /\ e \in finished[c] \ gone[c]
  /\ passed[c][e] = sent[c][e]
  /\ copy' = [copy EXCEPT ![c][e] = "ended"]
  /\ UNCHANGED <<available, loop, backlog, conn, passed, ends>>

\* Faulty variant of CopyFails: an end that no longer takes data goes unnoticed.
CopyFailsReading(c, e) ==
  /\ copy[c][e] = "running"
  /\ e \in gone[c]
  /\ copy' = [copy EXCEPT ![c][e] = "failed"]
  /\ UNCHANGED <<available, loop, backlog, conn, passed, ends>>

\* io::copy fails: e is gone, or there is something to write and the other end is.
\* While a write waits it may or may not find out that e is gone: it does if its
\* buffer has room to go on reading.
CopyFails(c, e) ==
  /\ copy[c][e] = "running"
  /\ \/ e \in gone[c]
     \/ Other(e) \in gone[c] /\ passed[c][e] < sent[c][e]
  /\ copy' = [copy EXCEPT ![c][e] = "failed"]
  /\ UNCHANGED <<available, loop, backlog, conn, passed, ends>>

\* Faulty variant of BothReturned: select! instead of join!.
OneReturned(c) == \E e \in Ends : copy[c][e] \in {"ended", "failed"}

\* join! returns when both tasks have.
BothReturned(c) == \A e \in Ends : copy[c][e] \in {"ended", "failed"}

\* proxy_connection returns; the permit is dropped, and with the last halves both
\* TCP streams.
Close(c) ==
  /\ conn[c] = "proxying"
  /\ BothReturned(c)
  /\ conn' = [conn EXCEPT ![c] = "closed"]
  /\ available' = available + 1
  /\ UNCHANGED <<loop, backlog, copy, passed, ends>>

Task(c) ==
  \/ ConnectTarget(c)
  \/ ConnectFails(c)
  \/ Close(c)

Copy(c, e) ==
  \/ Pass(c, e)
  \/ CopyEnds(c, e)
  \/ CopyFails(c, e)

--------------------------------------------------------------------------------
(* The ends.                                                                    *)

Arrive(c) ==
  /\ conn[c] = "outside"
  /\ conn' = [conn EXCEPT ![c] = "queued"]
  /\ backlog' = Append(backlog, c)
  /\ UNCHANGED <<available, loop, copy, passed, ends>>

\* The client's stream exists once it has arrived, the target's once connected.
Open(c, e) ==
  conn[c] \in IF e = "client" THEN {"queued", "connecting", "proxying"} ELSE {"proxying"}

SendByte(c, e) ==
  /\ Open(c, e)
  /\ e \notin finished[c] \cup gone[c]
  /\ sent[c][e] < MaxBytes
  /\ sent' = [sent EXCEPT ![c][e] = @ + 1]
  /\ UNCHANGED <<proxy, finished, gone>>

Finish(c, e) ==
  /\ Open(c, e)
  /\ e \notin finished[c] \cup gone[c]
  /\ finished' = [finished EXCEPT ![c] = @ \cup {e}]
  /\ UNCHANGED <<proxy, sent, gone>>

Reset(c, e) ==
  /\ Open(c, e)
  /\ e \notin gone[c]
  /\ gone' = [gone EXCEPT ![c] = @ \cup {e}]
  /\ UNCHANGED <<proxy, sent, finished>>

End(c, e) ==
  \/ SendByte(c, e)
  \/ Finish(c, e)
  \/ Reset(c, e)

GatewayNext ==
  \/ Acquire
  \/ Accept
  \/ AcceptFails
  \/ \E c \in Clients : Task(c) \/ Arrive(c)
  \/ \E c \in Clients, e \in Ends : Copy(c, e) \/ End(c, e)

GatewaySpec == GatewayInit /\ [][GatewayNext]_gatewayVars

\* tokio runs every task that can go on. accept() may fail at any time, but not
\* for ever: strong fairness of Accept. Nothing is asked of the ends: they may never
\* finish and never read, and a copy whose write waits for one need not go on.
GatewayFairSpec ==
  /\ GatewaySpec
  /\ WF_gatewayVars(Acquire)
  /\ SF_gatewayVars(Accept)
  /\ \A c \in Clients : /\ WF_gatewayVars(Task(c))
                       /\ \A e \in Ends : WF_gatewayVars(~WriteWaits(c, e) /\ Copy(c, e))

--------------------------------------------------------------------------------

\* Every variable keeps its type.
GatewayTypeOK ==
  /\ available \in 0..MaxConnections
  /\ loop \in {"acquire", "accept"}
  /\ backlog \in Seq(Clients)
  /\ conn \in [Clients -> Stages]
  /\ copy \in [Clients -> [Ends -> Copies]]
  /\ sent \in [Clients -> [Ends -> 0..MaxBytes]]
  /\ passed \in [Clients -> [Ends -> 0..MaxBytes]]
  /\ finished \in [Clients -> SUBSET Ends]
  /\ gone \in [Clients -> SUBSET Ends]

\* Connections that hold a permit.
Holding == {c \in Clients : conn[c] \in {"connecting", "proxying"}}

\* No permit is lost and none is given back twice, whichever way accept, connect
\* and the copies end: free permits, the accept loop's and the connections' add up
\* (main.rs: the permit moves into the task and is dropped there).
PermitsAddUp ==
  available + Cardinality(Holding) + (IF loop = "accept" THEN 1 ELSE 0) = MaxConnections

\* A connection whose copies both ended well was closed with everything passed on,
\* in both directions (main.rs: join! waits for both tasks).
NothingCutOff ==
  \A c \in Clients : conn[c] = "closed" /\ gone[c] = {} /\ copy[c]["client"] # "none" =>
    passed[c] = sent[c]

Ended(c) == finished[c] \cup gone[c] = Ends

\* Both ends of the connection go on reading: no write waits for ever.
EndsRead(c) == \A e \in Ends : WF_gatewayVars(Copy(c, e))

\* Once both ends of a connection have finished or are gone, its permit comes back,
\* also when one copy has failed and the other one has something left to pass on:
\* provided that the ends that are left go on reading (main.rs: join! waits for both
\* copies, and the copies have no timeout).
PermitReturns ==
  \A c \in Clients :
    EndsRead(c) => (conn[c] = "proxying" /\ Ended(c) ~> conn[c] = "closed")

\* A client in the backlog is accepted, unless a connection is proxied one end of
\* which has neither finished nor gone, or does not read what there is for it: one
\* such connection per permit makes the others wait, with no limit in time.
ClientsAreServed ==
  (\A d \in Clients : EndsRead(d)) =>
    \A c \in Clients :
      conn[c] = "queued" ~>
        \/ conn[c] # "queued"
        \/ \E d \in Clients : conn[d] = "proxying" /\ ~Ended(d)

================================================================================
