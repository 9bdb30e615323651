-------------------------- MODULE ApplicationProofs ---------------------------
(* Proofs about the two programs above the protocol core: the gateway, for any  *)
(* clients, any number of permits and any number of bytes, and the identity     *)
(* manager of the SDK, for any number of generated identities. They share no    *)
(* variable; each part is about the specification of its own module.            *)
EXTENDS Gateway, IdentityManager, FiniteSetTheorems, TLAPS

--------------------------------------------------------------------------------
(* The gateway.                                                                 *)

\* The backlog holds each queued connection once.
Queue ==
  /\ \A i \in 1..Len(backlog) : conn[backlog[i]] = "queued"
  /\ \A i, j \in 1..Len(backlog) : backlog[i] = backlog[j] => i = j

\* A copy exists from the time the target is connected; it ends when all its end
\* has sent is passed on, and fails only on a reset.
CopyStages ==
  \A c \in Clients :
    /\ conn[c] \in {"outside", "queued", "connecting"} => \A e \in Ends : copy[c][e] = "none"
    /\ conn[c] = "proxying" => \A e \in Ends : copy[c][e] # "none"
    /\ conn[c] = "closed" => BothReturned(c) \/ \A e \in Ends : copy[c][e] = "none"
    /\ \A e \in Ends :
         /\ copy[c][e] = "ended" => e \in finished[c] /\ passed[c][e] = sent[c][e]
         /\ copy[c][e] = "failed" => gone[c] # {}

GatewayIInv == GatewayTypeOK /\ PermitsAddUp /\ Queue /\ CopyStages

--------------------------------------------------------------------------------

LEMMA EndsFacts ==
  /\ Ends = {"client", "server"}
  /\ \A e \in Ends : Other(e) \in Ends
BY DEF Ends, Other

LEMMA HoldingFinite == IsFiniteSet(Holding) /\ Cardinality(Holding) \in Nat
<1>1. Holding \subseteq Clients
  BY DEF Holding
<1>2. IsFiniteSet(Holding)
  BY <1>1, FS_Subset, GatewayAssumption
<1>3. QED
  BY <1>2, FS_CardinalityType

\* A connection that starts to hold a permit is one more.
LEMMA HoldingGains ==
  ASSUME NEW c \in Clients, c \notin Holding, Holding' = Holding \cup {c}
  PROVE  Cardinality(Holding') = Cardinality(Holding) + 1
BY HoldingFinite, FS_AddElement

\* A connection that stops holding a permit is one fewer, and there was one.
LEMMA HoldingLoses ==
  ASSUME NEW c \in Clients, c \in Holding, Holding' = Holding \ {c}
  PROVE  Cardinality(Holding') = Cardinality(Holding) - 1 /\ Cardinality(Holding) >= 1
<1>1. Cardinality(Holding') = Cardinality(Holding) - 1
  BY HoldingFinite, FS_RemoveElement
<1>2. Holding # {}
  OBVIOUS
<1>3. Cardinality(Holding) # 0
  BY <1>2, HoldingFinite, FS_EmptySet
<1>4. QED
  BY <1>1, <1>3, HoldingFinite

LEMMA InitGatewayIInv == GatewayInit => GatewayIInv
<1> SUFFICES ASSUME GatewayInit PROVE GatewayIInv
  OBVIOUS
<1>1. GatewayTypeOK
  <2>1. 0 \in 0..MaxBytes /\ MaxConnections \in 0..MaxConnections
    BY GatewayAssumption
  <2>2. QED
    BY <2>1 DEF GatewayInit, GatewayTypeOK, Stages, Copies
<1>2. PermitsAddUp
  <2>1. Holding = {}
    BY DEF GatewayInit, Holding
  <2>2. QED
    BY <2>1, FS_EmptySet, GatewayAssumption DEF GatewayInit, PermitsAddUp
<1>3. Queue /\ CopyStages
  BY DEF GatewayInit, Queue, CopyStages
<1>4. QED
  BY <1>1, <1>2, <1>3 DEF GatewayIInv

LEMMA AcquireStep == GatewayIInv /\ Acquire => GatewayIInv'
<1> SUFFICES ASSUME GatewayIInv, Acquire PROVE GatewayIInv'
  OBVIOUS
<1> USE DEF GatewayIInv
<1>1. available \in Nat /\ MaxConnections \in Nat
  BY GatewayAssumption DEF GatewayTypeOK
<1>2. GatewayTypeOK'
  BY <1>1 DEF GatewayTypeOK, Acquire, ends
<1>3. PermitsAddUp'
  <2>1. Holding' = Holding
    BY DEF Acquire, Holding
  <2>2. QED
    BY <1>1, <2>1, HoldingFinite DEF PermitsAddUp, Acquire
<1>4. Queue' /\ CopyStages'
  BY DEF Queue, CopyStages, BothReturned, Acquire, ends
<1>5. QED
  BY <1>2, <1>3, <1>4

LEMMA AcceptStep == GatewayIInv /\ Accept => GatewayIInv'
<1> SUFFICES ASSUME GatewayIInv, Accept PROVE GatewayIInv'
  OBVIOUS
<1> USE DEF GatewayIInv
<1> DEFINE h == Head(backlog)
<1>1. /\ backlog \in Seq(Clients) /\ backlog # <<>>
      /\ conn \in [Clients -> Stages]
      /\ conn' = [conn EXCEPT ![h] = "connecting"]
      /\ backlog' = Tail(backlog)
      /\ loop = "accept" /\ loop' = "acquire"
      /\ UNCHANGED <<available, copy, passed, sent, finished, gone>>
  BY DEF Accept, ends, GatewayTypeOK
<1>2. Len(backlog) \in Nat \ {0} /\ h = backlog[1] /\ h \in Clients
  BY <1>1
<1>3. conn[h] = "queued"
  BY <1>2 DEF Queue
<1>4. backlog' \in Seq(Clients) /\ Len(backlog') = Len(backlog) - 1
  BY <1>1, <1>2
<1>5. \A i \in 1..Len(backlog') : backlog'[i] = backlog[i + 1] /\ i + 1 \in 1..Len(backlog)
  BY <1>1, <1>2, <1>4
<1> HIDE DEF h
<1>6. conn' \in [Clients -> Stages] /\ conn'[h] = "connecting"
      /\ \A c \in Clients \ {h} : conn'[c] = conn[c]
  BY <1>1, <1>2 DEF Stages
<1>7. GatewayTypeOK'
  BY <1>1, <1>4, <1>6 DEF GatewayTypeOK
<1>8. PermitsAddUp'
  <2>1. h \notin Holding
    BY <1>3 DEF Holding
  <2>2. Holding' = Holding \cup {h}
    BY <1>2, <1>6 DEF Holding
  <2>3. Cardinality(Holding') = Cardinality(Holding) + 1
    BY <1>2, <2>1, <2>2, HoldingGains
  <2>4. available \in Nat
    BY DEF GatewayTypeOK
  <2>5. QED
    BY <1>1, <2>3, <2>4, HoldingFinite, GatewayAssumption DEF PermitsAddUp
<1>9. Queue'
  <2>1. ASSUME NEW i \in 1..Len(backlog') PROVE conn'[backlog'[i]] = "queued"
    <3>1. i + 1 # 1 /\ i + 1 \in 1..Len(backlog) /\ 1 \in 1..Len(backlog)
      BY <1>2, <1>5
    <3>2. backlog[i + 1] # h /\ backlog[i + 1] \in Clients
      BY <1>1, <1>2, <3>1 DEF Queue
    <3>3. QED
      BY <1>5, <1>6, <3>1, <3>2 DEF Queue
  <2>2. ASSUME NEW i \in 1..Len(backlog'), NEW j \in 1..Len(backlog'),
               backlog'[i] = backlog'[j]
        PROVE  i = j
    <3>1. i + 1 = j + 1
      BY <1>5, <2>2 DEF Queue
    <3>2. i \in Nat /\ j \in Nat
      BY <1>2, <1>4
    <3>3. QED
      BY <3>1, <3>2
  <2>3. QED
    BY <2>1, <2>2 DEF Queue
<1>10. CopyStages'
  BY <1>1, <1>2, <1>3, <1>6 DEF CopyStages, BothReturned
<1>11. QED
  BY <1>7, <1>8, <1>9, <1>10

LEMMA AcceptFailsStep == GatewayIInv /\ AcceptFails => GatewayIInv'
<1> SUFFICES ASSUME GatewayIInv, AcceptFails PROVE GatewayIInv'
  OBVIOUS
<1> USE DEF GatewayIInv
<1>1. available \in Nat /\ MaxConnections \in Nat
  BY GatewayAssumption DEF GatewayTypeOK
<1>2. PermitsAddUp' /\ available' \in 0..MaxConnections
  <2>1. Holding' = Holding
    BY DEF AcceptFails, Holding
  <2>2. QED
    BY <1>1, <2>1, HoldingFinite DEF PermitsAddUp, AcceptFails
<1>3. GatewayTypeOK'
  BY <1>2 DEF GatewayTypeOK, AcceptFails, ends
<1>4. Queue' /\ CopyStages'
  BY DEF Queue, CopyStages, BothReturned, AcceptFails, ends
<1>5. QED
  BY <1>2, <1>3, <1>4

\* The backlog stays as it is, and a connection that is not in it moves on.
LEMMA QueueStays ==
  ASSUME GatewayIInv, NEW c \in Clients, conn[c] # "queued", backlog' = backlog,
         \A d \in Clients \ {c} : conn'[d] = conn[d]
  PROVE  Queue'
<1>1. \A i \in 1..Len(backlog) : backlog[i] \in Clients \ {c}
  BY DEF GatewayIInv, GatewayTypeOK, Queue
<1>2. QED
  BY <1>1 DEF GatewayIInv, Queue

LEMMA ConnectTargetStep ==
  ASSUME GatewayIInv, NEW c \in Clients, ConnectTarget(c)
  PROVE  GatewayIInv'
<1> USE DEF GatewayIInv
<1>1. /\ conn' \in [Clients -> Stages] /\ conn'[c] = "proxying" /\ conn[c] = "connecting"
      /\ \A d \in Clients \ {c} : conn'[d] = conn[d]
  BY DEF GatewayTypeOK, ConnectTarget, Stages
<1>2. /\ copy' \in [Clients -> [Ends -> Copies]]
      /\ \A e \in Ends : copy'[c][e] = "running"
      /\ \A d \in Clients \ {c} : copy'[d] = copy[d]
  <2>1. [e \in Ends |-> "running"] \in [Ends -> Copies]
    BY DEF Copies
  <2>2. QED
    BY <2>1 DEF GatewayTypeOK, ConnectTarget
<1>3. UNCHANGED <<available, loop, backlog, passed, sent, finished, gone>>
  BY DEF ConnectTarget, ends
<1>4. GatewayTypeOK'
  BY <1>1, <1>2, <1>3 DEF GatewayTypeOK
<1>5. PermitsAddUp'
  <2>1. Holding' = Holding
    BY <1>1 DEF Holding
  <2>2. QED
    BY <1>3, <2>1 DEF PermitsAddUp
<1>6. Queue'
  BY <1>1, <1>3, QueueStays
<1>7. CopyStages'
  BY <1>1, <1>2, <1>3 DEF CopyStages, BothReturned
<1>8. QED
  BY <1>4, <1>5, <1>6, <1>7

\* A connection that held a permit is closed and gives it back.
LEMMA ClosingFacts ==
  ASSUME GatewayIInv, NEW c \in Clients, conn[c] \in {"connecting", "proxying"},
         conn' = [conn EXCEPT ![c] = "closed"], available' = available + 1,
         UNCHANGED <<loop, backlog, copy, passed, ends>>
  PROVE  /\ GatewayTypeOK' /\ PermitsAddUp' /\ Queue'
         /\ conn'[c] = "closed" /\ \A d \in Clients \ {c} : conn'[d] = conn[d]
         /\ UNCHANGED <<copy, passed, sent, finished, gone>>
<1> USE DEF GatewayIInv
<1>1. /\ conn' \in [Clients -> Stages] /\ conn'[c] = "closed"
      /\ \A d \in Clients \ {c} : conn'[d] = conn[d]
  BY DEF GatewayTypeOK, Stages
<1>2. UNCHANGED <<loop, backlog, copy, passed, sent, finished, gone>>
  BY DEF ends
<1>3. PermitsAddUp' /\ available' \in 0..MaxConnections
  <2>1. c \in Holding /\ Holding' = Holding \ {c}
    BY <1>1 DEF Holding
  <2>2. Cardinality(Holding') = Cardinality(Holding) - 1 /\ Cardinality(Holding) >= 1
    BY <2>1, HoldingLoses
  <2>3. available \in Nat /\ MaxConnections \in Nat
    BY GatewayAssumption DEF GatewayTypeOK
  <2>4. QED
    BY <1>2, <2>2, <2>3, HoldingFinite DEF PermitsAddUp
<1>4. GatewayTypeOK'
  BY <1>1, <1>2, <1>3 DEF GatewayTypeOK
<1>5. Queue'
  BY <1>1, <1>2, QueueStays
<1>6. QED
  BY <1>1, <1>2, <1>3, <1>4, <1>5

LEMMA ConnectFailsStep ==
  ASSUME GatewayIInv, NEW c \in Clients, ConnectFails(c)
  PROVE  GatewayIInv'
<1>1. conn[c] = "connecting"
  BY DEF ConnectFails
<1>2. /\ GatewayTypeOK' /\ PermitsAddUp' /\ Queue'
      /\ conn'[c] = "closed" /\ \A d \in Clients \ {c} : conn'[d] = conn[d]
      /\ UNCHANGED <<copy, passed, sent, finished, gone>>
  BY ClosingFacts DEF ConnectFails
<1>3. CopyStages'
  BY <1>1, <1>2 DEF GatewayIInv, CopyStages, BothReturned
<1>4. QED
  BY <1>2, <1>3 DEF GatewayIInv

LEMMA CloseStep ==
  ASSUME GatewayIInv, NEW c \in Clients, Close(c)
  PROVE  GatewayIInv'
<1>1. conn[c] = "proxying" /\ BothReturned(c)
  BY DEF Close
<1>2. /\ GatewayTypeOK' /\ PermitsAddUp' /\ Queue'
      /\ conn'[c] = "closed" /\ \A d \in Clients \ {c} : conn'[d] = conn[d]
      /\ UNCHANGED <<copy, passed, sent, finished, gone>>
  BY ClosingFacts DEF Close
<1>3. CopyStages'
  BY <1>1, <1>2 DEF GatewayIInv, CopyStages, BothReturned
<1>4. QED
  BY <1>2, <1>3 DEF GatewayIInv

\* A copy task works on a connection that is proxied: no other stage has one running.
LEMMA RunningFacts ==
  ASSUME GatewayIInv, NEW c \in Clients, NEW e \in Ends, copy[c][e] = "running"
  PROVE  conn[c] = "proxying"
BY DEF GatewayIInv, GatewayTypeOK, Stages, CopyStages, BothReturned

LEMMA PassStep ==
  ASSUME GatewayIInv, NEW c \in Clients, NEW e \in Ends, Pass(c, e)
  PROVE  GatewayIInv'
<1> USE DEF GatewayIInv
<1>1. /\ passed' \in [Clients -> [Ends -> 0..MaxBytes]]
      /\ \A d \in Clients, f \in Ends : d # c \/ f # e => passed'[d][f] = passed[d][f]
  BY DEF GatewayTypeOK, Pass
<1>2. /\ UNCHANGED <<available, loop, backlog, conn, copy, sent, finished, gone>>
      /\ copy[c][e] = "running"
  BY DEF Pass, ends
<1>3. GatewayTypeOK'
  BY <1>1, <1>2 DEF GatewayTypeOK
<1>4. PermitsAddUp' /\ Queue'
  BY <1>2 DEF PermitsAddUp, Holding, Queue
<1>5. CopyStages'
  BY <1>1, <1>2 DEF CopyStages, BothReturned
<1>6. QED
  BY <1>3, <1>4, <1>5

\* A running copy returns, with what CopyStages says of it.
LEMMA ReturnFacts ==
  ASSUME GatewayIInv, NEW c \in Clients, NEW e \in Ends, copy[c][e] = "running",
         NEW v \in {"ended", "failed"},
         v = "ended" => e \in finished[c] /\ passed[c][e] = sent[c][e],
         v = "failed" => gone[c] # {},
         copy' = [copy EXCEPT ![c][e] = v],
         UNCHANGED <<available, loop, backlog, conn, passed, ends>>
  PROVE  GatewayIInv'
<1> USE DEF GatewayIInv
<1>1. /\ copy' \in [Clients -> [Ends -> Copies]] /\ copy'[c][e] = v
      /\ \A d \in Clients, f \in Ends : d # c \/ f # e => copy'[d][f] = copy[d][f]
  BY DEF GatewayTypeOK, Copies
<1>2. UNCHANGED <<available, loop, backlog, conn, passed, sent, finished, gone>>
  BY DEF ends
<1>3. conn[c] = "proxying"
  BY RunningFacts
<1>4. GatewayTypeOK'
  BY <1>1, <1>2 DEF GatewayTypeOK
<1>5. PermitsAddUp' /\ Queue'
  BY <1>2 DEF PermitsAddUp, Holding, Queue
<1>6. CopyStages'
  <2> SUFFICES ASSUME NEW d \in Clients PROVE
        (/\ conn[d] \in {"outside", "queued", "connecting"} => \A f \in Ends : copy[d][f] = "none"
         /\ conn[d] = "proxying" => \A f \in Ends : copy[d][f] # "none"
         /\ conn[d] = "closed" => BothReturned(d) \/ \A f \in Ends : copy[d][f] = "none"
         /\ \A f \in Ends :
              /\ copy[d][f] = "ended" => f \in finished[d] /\ passed[d][f] = sent[d][f]
              /\ copy[d][f] = "failed" => gone[d] # {})'
    BY DEF CopyStages
  <2>1. CASE d # c
    BY <1>1, <1>2, <2>1 DEF CopyStages, BothReturned
  <2>2. CASE d = c
    BY <1>1, <1>2, <1>3, <2>2 DEF CopyStages
  <2>3. QED
    BY <2>1, <2>2
<1>7. QED
  BY <1>4, <1>5, <1>6

LEMMA CopyEndsStep ==
  ASSUME GatewayIInv, NEW c \in Clients, NEW e \in Ends, CopyEnds(c, e)
  PROVE  GatewayIInv'
BY ReturnFacts DEF CopyEnds

LEMMA CopyFailsStep ==
  ASSUME GatewayIInv, NEW c \in Clients, NEW e \in Ends, CopyFails(c, e)
  PROVE  GatewayIInv'
BY ReturnFacts DEF CopyFails

LEMMA ArriveStep ==
  ASSUME GatewayIInv, NEW c \in Clients, Arrive(c)
  PROVE  GatewayIInv'
<1> USE DEF GatewayIInv
<1>1. /\ conn' \in [Clients -> Stages] /\ conn[c] = "outside" /\ conn'[c] = "queued"
      /\ \A d \in Clients \ {c} : conn'[d] = conn[d]
  BY DEF GatewayTypeOK, Arrive, Stages
<1>2. UNCHANGED <<available, loop, copy, passed, sent, finished, gone>>
  BY DEF Arrive, ends
<1>3. backlog \in Seq(Clients) /\ backlog' = Append(backlog, c)
  BY DEF GatewayTypeOK, Arrive
<1>4. /\ backlog' \in Seq(Clients) /\ Len(backlog) \in Nat /\ Len(backlog') = Len(backlog) + 1
      /\ \A i \in 1..Len(backlog) : backlog'[i] = backlog[i] /\ backlog[i] \in Clients
      /\ backlog'[Len(backlog) + 1] = c
  BY <1>3
<1>5. GatewayTypeOK'
  BY <1>1, <1>2, <1>4 DEF GatewayTypeOK
<1>6. PermitsAddUp'
  <2>1. Holding' = Holding
    BY <1>1 DEF Holding
  <2>2. QED
    BY <1>2, <2>1 DEF PermitsAddUp
<1>7. Queue'
  <2>1. \A i \in 1..Len(backlog) : backlog[i] # c
    BY <1>1 DEF Queue
  <2>2. \A i \in 1..Len(backlog') : i \in 1..Len(backlog) \/ i = Len(backlog) + 1
    BY <1>4
  <2>3. QED
    BY <1>1, <1>4, <2>1, <2>2 DEF Queue
<1>8. CopyStages'
  BY <1>1, <1>2 DEF CopyStages, BothReturned
<1>9. QED
  BY <1>5, <1>6, <1>7, <1>8

LEMMA EndStep ==
  ASSUME GatewayIInv, NEW c \in Clients, NEW e \in Ends, End(c, e)
  PROVE  GatewayIInv'
<1> USE DEF GatewayIInv
<1>1. UNCHANGED <<available, loop, backlog, conn, copy, passed>>
  BY DEF End, SendByte, Finish, Reset, proxy
<1>2. PermitsAddUp' /\ Queue'
  BY <1>1 DEF PermitsAddUp, Holding, Queue
<1>3. GatewayTypeOK' /\ CopyStages'
  <2>1. CASE SendByte(c, e)
    <3>1. /\ UNCHANGED <<finished, gone>> /\ e \notin finished[c]
          /\ sent' \in [Clients -> [Ends -> 0..MaxBytes]]
          /\ \A d \in Clients, f \in Ends : d # c \/ f # e => sent'[d][f] = sent[d][f]
      BY <2>1, GatewayAssumption DEF SendByte, GatewayTypeOK
    <3>2. GatewayTypeOK'
      BY <1>1, <3>1 DEF GatewayTypeOK
    <3>3. ASSUME NEW d \in Clients, NEW f \in Ends, copy[d][f] = "ended"
          PROVE  f \in finished[d] /\ passed[d][f] = sent'[d][f]
      <4>1. f \in finished[d] /\ passed[d][f] = sent[d][f]
        BY <3>3 DEF CopyStages
      <4>2. QED
        BY <3>1, <4>1
    <3>4. CopyStages'
      BY <1>1, <3>1, <3>3 DEF CopyStages, BothReturned
    <3>5. QED
      BY <3>2, <3>4
  <2>2. CASE Finish(c, e)
    <3>1. /\ UNCHANGED <<sent, gone>>
          /\ finished' \in [Clients -> SUBSET Ends]
          /\ \A d \in Clients : finished[d] \subseteq finished'[d]
      BY <2>2 DEF Finish, GatewayTypeOK
    <3>2. QED
      BY <1>1, <3>1 DEF GatewayTypeOK, CopyStages, BothReturned
  <2>3. CASE Reset(c, e)
    <3>1. /\ UNCHANGED <<sent, finished>>
          /\ gone' \in [Clients -> SUBSET Ends]
          /\ \A d \in Clients : gone[d] \subseteq gone'[d]
      BY <2>3 DEF Reset, GatewayTypeOK
    <3>2. QED
      BY <1>1, <3>1 DEF GatewayTypeOK, CopyStages, BothReturned
  <2>4. QED
    BY <2>1, <2>2, <2>3 DEF End
<1>4. QED
  BY <1>2, <1>3

LEMMA NextGatewayIInv == GatewayIInv /\ [GatewayNext]_gatewayVars => GatewayIInv'
<1> SUFFICES ASSUME GatewayIInv, [GatewayNext]_gatewayVars PROVE GatewayIInv'
  OBVIOUS
<1>1. CASE Acquire
  BY <1>1, AcquireStep
<1>2. CASE Accept
  BY <1>2, AcceptStep
<1>3. CASE AcceptFails
  BY <1>3, AcceptFailsStep
<1>4. ASSUME NEW c \in Clients, Task(c) PROVE GatewayIInv'
  BY <1>4, ConnectTargetStep, ConnectFailsStep, CloseStep DEF Task
<1>5. ASSUME NEW c \in Clients, Arrive(c) PROVE GatewayIInv'
  BY <1>5, ArriveStep
<1>6. ASSUME NEW c \in Clients, NEW e \in Ends, Copy(c, e) PROVE GatewayIInv'
  BY <1>6, PassStep, CopyEndsStep, CopyFailsStep DEF Copy
<1>7. ASSUME NEW c \in Clients, NEW e \in Ends, End(c, e) PROVE GatewayIInv'
  BY <1>7, EndStep
<1>8. CASE UNCHANGED gatewayVars
  <2>1. UNCHANGED <<available, loop, backlog, conn, copy, passed, sent, finished, gone>>
    BY <1>8 DEF gatewayVars, proxy, ends
  <2>2. GatewayTypeOK' /\ PermitsAddUp'
    BY <2>1 DEF GatewayIInv, GatewayTypeOK, PermitsAddUp, Holding
  <2>3. Queue' /\ CopyStages'
    BY <2>1 DEF GatewayIInv, Queue, CopyStages, BothReturned
  <2>4. QED
    BY <2>2, <2>3 DEF GatewayIInv
<1>9. QED
  BY <1>1, <1>2, <1>3, <1>4, <1>5, <1>6, <1>7, <1>8 DEF GatewayNext

LEMMA SpecGatewayIInv == GatewaySpec => []GatewayIInv
BY InitGatewayIInv, NextGatewayIInv, PTL DEF GatewaySpec

--------------------------------------------------------------------------------

\* The variables keep their types (Gateway.tla, GatewayTypeOK).
THEOREM GatewayTypeCorrect == GatewaySpec => []GatewayTypeOK
<1>1. GatewayIInv => GatewayTypeOK
  BY DEF GatewayIInv
<1>2. QED
  BY <1>1, SpecGatewayIInv, PTL

\* No permit is lost and none is given back twice, for any number of clients and
\* permits (main.rs: the permit is moved into the connection's task).
THEOREM PermitsAddUpHolds == GatewaySpec => []PermitsAddUp
<1>1. GatewayIInv => PermitsAddUp
  BY DEF GatewayIInv
<1>2. QED
  BY <1>1, SpecGatewayIInv, PTL

\* A connection that ended well passed everything on, in both directions, however
\* much the ends have sent (main.rs: join! waits for both copies).
THEOREM NothingCutOffHolds == GatewaySpec => []NothingCutOff
<1>1. GatewayIInv => NothingCutOff
  <2> SUFFICES ASSUME GatewayIInv, NEW c \in Clients, conn[c] = "closed", gone[c] = {},
                      copy[c]["client"] # "none"
               PROVE  passed[c] = sent[c]
    BY DEF NothingCutOff
  <2>1. BothReturned(c)
    BY EndsFacts DEF GatewayIInv, CopyStages
  <2>2. \A e \in Ends : copy[c][e] = "ended"
    BY <2>1 DEF GatewayIInv, CopyStages, BothReturned
  <2>3. \A e \in Ends : passed[c][e] = sent[c][e]
    BY <2>2 DEF GatewayIInv, CopyStages
  <2>4. passed[c] \in [Ends -> 0..MaxBytes] /\ sent[c] \in [Ends -> 0..MaxBytes]
    BY DEF GatewayIInv, GatewayTypeOK
  <2>5. QED
    BY <2>3, <2>4
<1>2. QED
  BY <1>1, SpecGatewayIInv, PTL

--------------------------------------------------------------------------------
(* The identity manager.                                                        *)

\* What the key file holds if it is not unreadable: what was loaded from it, or the
\* hash of what was generated.
Expected(id, gen) == IF gen THEN HashOf(id) ELSE id

\* Identities are drawn in order.
Draws ==
  /\ fresh # NoIdentity => fresh = [draw |-> drawn, hashed |-> 0] /\ drawn >= 1
  /\ identity # NoIdentity => identity.draw <= drawn
  /\ identity # NoIdentity /\ fresh # NoIdentity => identity.draw < drawn
  /\ stored # NoIdentity => stored.draw <= drawn
  /\ identity # NoIdentity /\ generated => identity.hashed = 0

\* The file names the identity in use, or, once it is written, the one rotate() is
\* about to use; while the process is down, what was saved or in use last; unless it
\* is unreadable. The identity in use is archived before the file is touched.
File ==
  kind = "file" =>
    /\ identity # NoIdentity =>
         /\ stored # NoIdentity /\ step # "rotated" => stored = Expected(identity, generated)
         /\ stored = NoIdentity => identity \in archived
    /\ step \in {"rotate_saving", "rotate_writing", "rotated"} => identity \in archived
    /\ step \in {"created", "rotated"} => stored = HashOf(fresh)
    /\ identity = NoIdentity /\ step # "created" /\ last # NoIdentity /\ stored # NoIdentity =>
         stored = Reloaded(last)
    /\ last # NoIdentity /\ last.saved # NoIdentity /\ last.identity # NoIdentity =>
         last.identity \in archived

\* Retired identities are older than the one the file names and the one in use.
Retired ==
  /\ retired \subseteq archived
  /\ step \in {"rotate_saving", "rotate_writing", "rotated"} => identity \in archived
  /\ \A r \in retired :
       /\ r.draw <= drawn
       /\ fresh # NoIdentity => r.draw < drawn
       /\ kind = "file" /\ identity # NoIdentity => r.draw < identity.draw
       /\ kind = "file" /\ stored # NoIdentity => r.draw < stored.draw

IInv == TypeOK /\ Draws /\ File /\ Retired

--------------------------------------------------------------------------------

\* A seed has its two fields, and the hash of a drawn identity is a seed with the
\* same draw.
LEMMA SeedFacts ==
  ASSUME NEW id \in Seed
  PROVE  /\ id # NoIdentity
         /\ id.draw \in Nat
         /\ id.hashed = 0 => HashOf(id) = [draw |-> id.draw, hashed |-> 1] /\ HashOf(id) \in Seed
<1>1. id \in [draw : 0..MaxDrawn, hashed : 0..1] /\ MaxDrawn \in Nat
  BY IdentityAssumption DEF Seed
<1>2. id # NoIdentity
  BY IdentityAssumption
<1>3. id.draw \in 0..MaxDrawn /\ id.hashed \in 0..1
  BY <1>1
<1>4. id.draw \in Nat
  BY <1>1, <1>3
<1>5. ASSUME id.hashed = 0
      PROVE  HashOf(id) = [draw |-> id.draw, hashed |-> 1] /\ HashOf(id) \in Seed
  BY <1>1, <1>3, <1>5 DEF HashOf, Seed
<1>6. QED
  BY <1>2, <1>4, <1>5

\* The next identity drawn is a seed.
LEMMA GenerateFacts ==
  ASSUME IInv, Generate
  PROVE  /\ drawn' \in 1..MaxDrawn /\ drawn' = drawn + 1
         /\ fresh' = [draw |-> drawn', hashed |-> 0]
         /\ fresh' \in Seed /\ fresh' # NoIdentity
         /\ drawn \in Nat
<1>1. drawn \in 0..MaxDrawn /\ MaxDrawn \in Nat
  BY IdentityAssumption DEF IInv, TypeOK
<1>2. drawn' = drawn + 1 /\ drawn' \in 1..MaxDrawn
  BY <1>1 DEF Generate
<1>3. fresh' = [draw |-> drawn', hashed |-> 0]
  BY <1>2 DEF Generate, Generated
<1>4. fresh' \in Seed
  BY <1>1, <1>2, <1>3 DEF Seed
<1>5. QED
  BY <1>1, <1>2, <1>3, <1>4, SeedFacts

LEMMA InitIInv == Init => IInv
<1> SUFFICES ASSUME Init PROVE IInv
  OBVIOUS
<1>1. Operators \in Seed
  BY IdentityAssumption DEF Operators, Seed
<1>2. TypeOK
  <2>1. 0 \in 0..MaxDrawn
    BY IdentityAssumption
  <2>2. stored \in Maybe(Seed)
    BY <1>1 DEF Init, Maybe
  <2>3. QED
    BY <2>1, <2>2 DEF Init, TypeOK, Maybe, Steps, Kinds
<1>3. Draws
  BY <1>1, IdentityAssumption DEF Init, Draws, Operators
<1>4. File /\ Retired
  BY <1>1 DEF Init, File, Retired
<1>5. QED
  BY <1>2, <1>3, <1>4 DEF IInv

LEMMA LoadStep == IInv /\ Load => IInv'
<1> SUFFICES ASSUME IInv, Load PROVE IInv'
  OBVIOUS
<1> USE DEF IInv
<1>1. stored \in Seed /\ identity' = stored /\ identity' # NoIdentity /\ identity = NoIdentity
  BY SeedFacts DEF TypeOK, Maybe, Load
<1>2. TypeOK'
  BY <1>1 DEF TypeOK, Load, Maybe, Steps, history
<1>3. Draws'
  BY <1>1 DEF TypeOK, Draws, Load, history
<1>4. File'
  BY <1>1 DEF File, Load, Expected, history
<1>5. Retired'
  BY <1>1 DEF Retired, Load, TypeOK, history
<1>6. QED
  BY <1>2, <1>3, <1>4, <1>5

LEMMA LoadFailsStep == IInv /\ LoadFails => IInv'
<1> SUFFICES ASSUME IInv, LoadFails PROVE IInv'
  OBVIOUS
<1>1. /\ drawn' \in 1..MaxDrawn /\ drawn' = drawn + 1
      /\ fresh' = [draw |-> drawn', hashed |-> 0]
      /\ fresh' \in Seed /\ fresh' # NoIdentity
      /\ drawn \in Nat
  BY GenerateFacts DEF LoadFails
<1> USE DEF IInv
<1>2. /\ UNCHANGED <<kind, stored, archived, identity, generated, last, retired>>
      /\ step = "down" /\ step' = "creating" /\ identity = NoIdentity
  BY DEF LoadFails, TypeOK, history
<1>3. TypeOK'
  BY <1>1, <1>2, IdentityAssumption DEF TypeOK, Maybe, Steps
<1>4. Draws'
  <2>1. stored # NoIdentity => stored.draw \in Nat
    BY SeedFacts DEF TypeOK, Maybe
  <2>2. QED
    BY <1>1, <1>2, <2>1 DEF Draws
<1>5. File'
  BY <1>2 DEF File
<1>6. Retired'
  <2>1. \A r \in retired : r.draw \in Nat
    BY SeedFacts DEF TypeOK
  <2>2. QED
    BY <1>1, <1>2, <2>1 DEF Retired
<1>7. QED
  BY <1>3, <1>4, <1>5, <1>6

LEMMA RotateStep == IInv /\ Rotate => IInv'
<1> SUFFICES ASSUME IInv, Rotate PROVE IInv'
  OBVIOUS
<1>1. /\ drawn' \in 1..MaxDrawn /\ drawn' = drawn + 1
      /\ fresh' = [draw |-> drawn', hashed |-> 0]
      /\ fresh' \in Seed /\ fresh' # NoIdentity
      /\ drawn \in Nat
  BY GenerateFacts DEF Rotate
<1> USE DEF IInv
<1>2. /\ UNCHANGED <<kind, stored, archived, identity, generated, last, retired>>
      /\ step = "up" /\ step' = "rotating" /\ identity \in Seed /\ identity # NoIdentity
  BY DEF Rotate, TypeOK, Maybe, history
<1>3. TypeOK'
  BY <1>1, <1>2, IdentityAssumption DEF TypeOK, Maybe, Steps
<1>4. Draws'
  <2>1. identity.draw \in Nat /\ (stored # NoIdentity => stored.draw \in Nat)
    BY SeedFacts, <1>2 DEF TypeOK, Maybe
  <2>2. QED
    BY <1>1, <1>2, <2>1 DEF Draws
<1>5. File'
  BY <1>2 DEF File
<1>6. Retired'
  <2>1. \A r \in retired : r.draw \in Nat
    BY SeedFacts DEF TypeOK
  <2>2. QED
    BY <1>1, <1>2, <2>1 DEF Retired
<1>7. QED
  BY <1>3, <1>4, <1>5, <1>6

\* An error leaves the identity in use and what was retired as they were.
LEMMA FailFacts ==
  ASSUME IInv, Fail, step \in {"rotating", "creating", "rotate_saving", "create_writing", "rotate_writing"}
  PROVE  /\ step' \in {"down", "up"} /\ fresh' = NoIdentity
         /\ step' = "up" <=> identity # NoIdentity
         /\ UNCHANGED <<identity, generated, drawn, last, retired>>
BY DEF Fail, history

LEMMA ArchiveStep == IInv /\ Archive => IInv'
<1> SUFFICES ASSUME IInv, Archive PROVE IInv'
  OBVIOUS
<1> USE DEF IInv
<1>1. step = "rotating" /\ identity \in Seed /\ identity # NoIdentity /\ UNCHANGED <<kind, stored>>
  BY DEF Archive, TypeOK, Maybe
<1>2. CASE /\ archived' = archived \cup {identity}
           /\ step' = "rotate_saving"
           /\ UNCHANGED <<identity, generated, fresh, drawn, last, retired>>
  <2>1. TypeOK'
    BY <1>1, <1>2 DEF TypeOK, Maybe, Steps
  <2>2. Draws'
    BY <1>1, <1>2 DEF Draws
  <2>3. File'
    BY <1>1, <1>2 DEF File, Expected, HashOf
  <2>4. Retired'
    BY <1>1, <1>2 DEF Retired
  <2>5. QED
    BY <2>1, <2>2, <2>3, <2>4
<1>3. CASE Fail /\ UNCHANGED archived
  <2>1. /\ step' = "up" /\ fresh' = NoIdentity
        /\ UNCHANGED <<kind, stored, archived, identity, generated, drawn, last, retired>>
    BY <1>1, <1>3, FailFacts
  <2>2. TypeOK'
    BY <1>1, <2>1 DEF TypeOK, Maybe, Steps
  <2>3. Draws'
    BY <1>1, <2>1 DEF Draws
  <2>4. File'
    BY <1>1, <2>1 DEF File, Expected, HashOf
  <2>5. Retired'
    BY <1>1, <2>1 DEF Retired
  <2>6. QED
    BY <2>2, <2>3, <2>4, <2>5
<1>4. QED
  BY <1>2, <1>3 DEF Archive, history

LEMMA OpenKeyFileStep == IInv /\ OpenKeyFile => IInv'
<1> SUFFICES ASSUME IInv, OpenKeyFile PROVE IInv'
  OBVIOUS
<1> USE DEF IInv
<1>1. step \in {"creating", "rotate_saving"} /\ kind = "file" /\ UNCHANGED <<kind, archived>>
  BY DEF OpenKeyFile, Saving
<1>2. CASE /\ stored' = NoIdentity
           /\ step' = IF step = "creating" THEN "create_writing" ELSE "rotate_writing"
           /\ UNCHANGED <<identity, generated, fresh, drawn, last, retired>>
  <2>1. TypeOK'
    BY <1>1, <1>2 DEF TypeOK, Maybe, Steps
  <2>2. Draws'
    BY <1>1, <1>2 DEF Draws
  <2>3. File'
    BY <1>1, <1>2 DEF File, TypeOK
  <2>4. Retired'
    BY <1>1, <1>2 DEF Retired, TypeOK
  <2>5. QED
    BY <2>1, <2>2, <2>3, <2>4
<1>3. CASE Fail /\ UNCHANGED stored
  <2>1. /\ step' \in {"down", "up"} /\ (step' = "up" <=> identity # NoIdentity) /\ fresh' = NoIdentity
        /\ UNCHANGED <<kind, stored, archived, identity, generated, drawn, last, retired>>
    BY <1>1, <1>3, FailFacts
  <2>2. TypeOK'
    BY <1>1, <2>1 DEF TypeOK, Maybe, Steps
  <2>3. Draws'
    BY <1>1, <2>1 DEF Draws
  <2>4. File'
    BY <1>1, <2>1 DEF File, Expected, HashOf
  <2>5. Retired'
    BY <1>1, <2>1 DEF Retired
  <2>6. QED
    BY <2>2, <2>3, <2>4, <2>5
<1>4. QED
  BY <1>2, <1>3 DEF OpenKeyFile, history

\* What is known of the identity that is being saved.
LEMMA FreshFacts ==
  ASSUME IInv, step \notin {"down", "up"}
  PROVE  /\ fresh \in Seed /\ fresh # NoIdentity
         /\ fresh = [draw |-> drawn, hashed |-> 0] /\ drawn \in Nat
         /\ HashOf(fresh) \in Seed /\ HashOf(fresh) # NoIdentity
         /\ HashOf(fresh) = [draw |-> drawn, hashed |-> 1]
<1>1. /\ fresh \in Seed /\ fresh # NoIdentity
      /\ fresh = [draw |-> drawn, hashed |-> 0] /\ drawn \in Nat
  BY IdentityAssumption DEF IInv, TypeOK, Maybe, Draws
<1>2. fresh.hashed = 0 /\ fresh.draw = drawn
  BY <1>1
<1>3. HashOf(fresh) = [draw |-> drawn, hashed |-> 1] /\ HashOf(fresh) \in Seed
  BY <1>1, <1>2, SeedFacts
<1>4. QED
  BY <1>1, <1>3, IdentityAssumption

\* save_identity has returned: the file vault has the new identity in its file.
LEMMA SavedStep ==
  ASSUME IInv, Saved, UNCHANGED <<kind, archived>>,
         step \in {"creating", "create_writing", "rotate_saving", "rotate_writing"},
         kind = "file" => stored' = HashOf(fresh),
         kind = "env" => UNCHANGED stored
  PROVE  IInv'
<1> USE DEF IInv
<1>1. /\ fresh \in Seed /\ fresh # NoIdentity
      /\ fresh = [draw |-> drawn, hashed |-> 0] /\ drawn \in Nat
      /\ HashOf(fresh) \in Seed /\ HashOf(fresh) # NoIdentity
      /\ HashOf(fresh) = [draw |-> drawn, hashed |-> 1]
  BY FreshFacts
<1>2. /\ step' \in {"created", "rotated"}
      /\ step' = "rotated" <=> identity # NoIdentity
      /\ step' = "rotated" <=> step \in {"rotate_saving", "rotate_writing"}
      /\ UNCHANGED <<kind, archived, identity, generated, fresh, drawn, last, retired>>
  BY DEF Saved, TypeOK, history
<1>3. TypeOK'
  <2>1. stored' \in Maybe(Seed)
    BY <1>1 DEF TypeOK, Kinds, Maybe
  <2>2. QED
    BY <1>1, <1>2, <2>1 DEF TypeOK, Maybe, Steps
<1>4. Draws'
  <2>1. stored' # NoIdentity => stored'.draw <= drawn
    BY <1>1 DEF TypeOK, Kinds, Draws
  <2>2. QED
    BY <1>2, <2>1 DEF Draws
<1>5. File'
  <2>1. kind = "file" => stored' = HashOf(fresh) /\ stored' # NoIdentity
    BY <1>1
  <2>2. HashOf(fresh)' = HashOf(fresh)
    BY <1>2 DEF HashOf
  <2>3. QED
    BY <1>2, <2>1, <2>2 DEF File
<1>6. Retired'
  <2>1. \A r \in retired : r.draw \in Nat /\ r.draw < drawn
    BY <1>1, SeedFacts DEF Retired, TypeOK
  <2>2. kind = "file" => stored'.draw = drawn
    BY <1>1
  <2>3. QED
    BY <1>1, <1>2, <2>1, <2>2 DEF Retired
<1>7. QED
  BY <1>3, <1>4, <1>5, <1>6

\* The new identity is in use, and for the file vault in the file already.
LEMMA UseStep == IInv /\ Use => IInv'
<1> SUFFICES ASSUME IInv, Use PROVE IInv'
  OBVIOUS
<1> USE DEF IInv
<1>1. /\ fresh \in Seed /\ fresh # NoIdentity
      /\ fresh = [draw |-> drawn, hashed |-> 0] /\ drawn \in Nat
      /\ HashOf(fresh) \in Seed /\ HashOf(fresh) # NoIdentity
      /\ HashOf(fresh) = [draw |-> drawn, hashed |-> 1]
  BY FreshFacts DEF Use
<1>2. /\ identity' = fresh /\ generated' = TRUE /\ fresh' = NoIdentity /\ step' = "up"
      /\ UNCHANGED <<stored, drawn, last, kind, archived>>
      /\ retired' = IF step = "created" THEN retired ELSE retired \cup {identity}
      /\ step \in {"created", "rotated"}
      /\ kind = "file" => stored = HashOf(fresh)
  BY DEF Use, File
<1>3. step = "rotated" =>
        /\ identity \in Seed /\ identity \in archived
        /\ identity.draw < drawn /\ identity.draw \in Nat
  BY <1>1, SeedFacts DEF TypeOK, Maybe, Retired, Draws
<1>4. TypeOK'
  <2>1. retired' \subseteq Seed
    BY <1>2, <1>3 DEF TypeOK
  <2>2. QED
    BY <1>1, <1>2, <2>1 DEF TypeOK, Maybe, Steps
<1>5. Draws'
  BY <1>1, <1>2 DEF Draws
<1>6. File'
  <2>1. identity' # NoIdentity /\ Expected(identity', generated') = HashOf(fresh)
    BY <1>1, <1>2 DEF Expected
  <2>2. kind = "file" => stored' = HashOf(fresh) /\ stored' # NoIdentity
    BY <1>1, <1>2
  <2>3. kind = "file" /\ last # NoIdentity /\ last.saved # NoIdentity
          /\ last.identity # NoIdentity => last.identity \in archived
    BY DEF File
  <2>4. QED
    BY <1>2, <2>1, <2>2, <2>3 DEF File
<1>7. Retired'
  <2>1. \A r \in retired : r.draw \in Nat /\ r.draw < drawn
    BY <1>1, SeedFacts DEF Retired, TypeOK
  <2>2. \A r \in retired' : r.draw < drawn /\ r.draw \in Nat
    BY <1>2, <1>3, <2>1
  <2>3. retired' \subseteq archived'
    BY <1>2, <1>3 DEF Retired
  <2>4. \A r \in retired' : r.draw <= drawn
    BY <1>1, <2>2
  <2>5. kind' = "file" => stored'.draw = drawn
    BY <1>1, <1>2
  <2>6. identity'.draw = drawn
    BY <1>1, <1>2
  <2>7. QED
    BY <1>2, <2>2, <2>3, <2>4, <2>5, <2>6 DEF Retired
<1>8. QED
  BY <1>4, <1>5, <1>6, <1>7

LEMMA WriteKeyStep == IInv /\ WriteKey /\ kind = "file" => IInv'
<1> SUFFICES ASSUME IInv, WriteKey, kind = "file" PROVE IInv'
  OBVIOUS
<1> USE DEF IInv
<1>1. step \in {"create_writing", "rotate_writing"} /\ UNCHANGED <<kind, archived>>
  BY DEF WriteKey, Writing
<1>2. CASE stored' = HashOf(fresh) /\ Saved
  BY <1>1, <1>2, SavedStep
<1>3. CASE Fail /\ UNCHANGED stored
  <2>1. /\ step' \in {"down", "up"} /\ (step' = "up" <=> identity # NoIdentity) /\ fresh' = NoIdentity
        /\ UNCHANGED <<kind, stored, archived, identity, generated, drawn, last, retired>>
    BY <1>1, <1>3, FailFacts
  <2>2. TypeOK'
    BY <1>1, <2>1 DEF TypeOK, Maybe, Steps
  <2>3. Draws'
    BY <1>1, <2>1 DEF Draws
  <2>4. File'
    BY <1>1, <2>1 DEF File, Expected, HashOf
  <2>5. Retired'
    BY <1>1, <2>1 DEF Retired
  <2>6. QED
    BY <2>2, <2>3, <2>4, <2>5
<1>4. QED
  BY <1>2, <1>3 DEF WriteKey

LEMMA SaveNothingStep == IInv /\ SaveNothing => IInv'
<1> SUFFICES ASSUME IInv, SaveNothing PROVE IInv'
  OBVIOUS
<1>1. /\ step \in {"creating", "rotate_saving"} /\ kind = "env" /\ Saved
      /\ UNCHANGED <<kind, stored, archived>>
  BY DEF SaveNothing, Saving
<1>2. QED
  BY <1>1, SavedStep

LEMMA ExitStep == IInv /\ Exit => IInv'
<1> SUFFICES ASSUME IInv, Exit PROVE IInv'
  OBVIOUS
<1> USE DEF IInv
<1>1. /\ step' = "down" /\ identity' = NoIdentity /\ fresh' = NoIdentity /\ generated' = FALSE
      /\ UNCHANGED <<kind, stored, archived, drawn, retired>>
      /\ last' = IF step \in {"creating", "create_writing"} THEN last
                 ELSE [identity |-> identity, generated |-> generated, saved |-> NotYetUsed]
      /\ step # "down"
  BY DEF Exit
<1>2. NotYetUsed \in Maybe(Seed)
  BY DEF NotYetUsed, TypeOK, Maybe
<1>3. TypeOK'
  <2>1. last' \in Maybe([identity : Maybe(Seed), generated : BOOLEAN, saved : Maybe(Seed)])
    BY <1>1, <1>2 DEF TypeOK, Maybe
  <2>2. QED
    BY <1>1, <2>1 DEF TypeOK, Maybe, Steps
<1>4. Draws'
  BY <1>1 DEF Draws
<1>5. File'
  <2>1. CASE step \in {"creating", "create_writing"}
    BY <1>1, <2>1 DEF File, TypeOK, Reloaded, HashOf
  <2>2. CASE step \in {"created", "rotated"}
    <3>1. fresh # NoIdentity /\ (step = "created" => identity = NoIdentity)
      BY <2>2 DEF TypeOK
    <3>2. last'.saved = fresh /\ last'.identity = identity
      BY <1>1, <2>2 DEF NotYetUsed
    <3>3. Reloaded(last') = HashOf(fresh)
      BY <3>1, <3>2 DEF Reloaded
    <3>4. QED
      BY <1>1, <2>2, <3>1, <3>2, <3>3 DEF File, Reloaded, HashOf
  <2>3. CASE step \notin {"creating", "create_writing", "created", "rotated"}
    <3>1. identity # NoIdentity
      BY <1>1, <2>3 DEF TypeOK, Steps
    <3>2. /\ last'.saved = NoIdentity /\ last'.identity = identity
          /\ last'.generated = generated
      BY <1>1, <2>3 DEF NotYetUsed
    <3>3. Reloaded(last') = Expected(identity, generated)
      BY <3>2 DEF Reloaded, Expected
    <3>4. QED
      BY <1>1, <2>3, <3>1, <3>2, <3>3 DEF File, Reloaded, HashOf
  <2>4. QED
    BY <2>1, <2>2, <2>3
<1>6. Retired'
  BY <1>1 DEF Retired
<1>7. QED
  BY <1>3, <1>4, <1>5, <1>6

\* Only the file vault has a file that is emptied and then written.
Writes == step \in {"create_writing", "rotate_writing"} => kind = "file"

LEMMA WritesStep == TypeOK /\ Writes /\ [Next]_vars => Writes'
<1> SUFFICES ASSUME TypeOK, Writes, [Next]_vars PROVE Writes'
  OBVIOUS
<1>1. kind' = kind
  BY DEF Next, vars, Load, LoadFails, Rotate, Archive, OpenKeyFile, WriteKey, SaveNothing, Use, Exit
<1>2. CASE OpenKeyFile
  BY <1>1, <1>2 DEF OpenKeyFile, Writes
<1>3. CASE Load \/ LoadFails \/ Rotate \/ Use \/ Exit
  BY <1>3 DEF Load, LoadFails, Rotate, Use, Exit, Writes
<1>4. CASE Archive
  BY <1>4 DEF Archive, Fail, Writes
<1>5. CASE WriteKey
  BY <1>5 DEF WriteKey, Fail, Saved, Writes
<1>6. CASE SaveNothing
  BY <1>6 DEF SaveNothing, Saved, Writes
<1>7. CASE UNCHANGED vars
  BY <1>7 DEF vars, process, Writes
<1>8. QED
  BY <1>2, <1>3, <1>4, <1>5, <1>6, <1>7 DEF Next

LEMMA IInvStep == IInv /\ Writes /\ [Next]_vars => IInv'
<1> SUFFICES ASSUME IInv, Writes, [Next]_vars PROVE IInv'
  OBVIOUS
<1>1. CASE Load
  BY <1>1, LoadStep
<1>2. CASE LoadFails
  BY <1>2, LoadFailsStep
<1>3. CASE Rotate
  BY <1>3, RotateStep
<1>4. CASE Archive
  BY <1>4, ArchiveStep
<1>5. CASE OpenKeyFile
  BY <1>5, OpenKeyFileStep
<1>6. CASE WriteKey
  <2>1. kind = "file"
    BY <1>6 DEF Writes, WriteKey, Writing
  <2>2. QED
    BY <1>6, <2>1, WriteKeyStep
<1>7. CASE SaveNothing
  BY <1>7, SaveNothingStep
<1>8. CASE Use
  BY <1>8, UseStep
<1>9. CASE Exit
  BY <1>9, ExitStep
<1>10. CASE UNCHANGED vars
  BY <1>10 DEF vars, process, history, IInv, TypeOK, Draws, File, Retired, HashOf
<1>11. QED
  BY <1>1, <1>2, <1>3, <1>4, <1>5, <1>6, <1>7, <1>8, <1>9, <1>10 DEF Next

LEMMA IInvHolds == Spec => [](IInv /\ Writes)
<1>1. Init => IInv /\ Writes
  BY InitIInv DEF Init, Writes
<1>2. IInv /\ Writes /\ [Next]_vars => (IInv /\ Writes)'
  BY IInvStep, WritesStep DEF IInv
<1>3. QED
  BY <1>1, <1>2, PTL DEF Spec

--------------------------------------------------------------------------------

\* Every variable keeps its type, and new() and rotate() hold the identities that
\* their progress says.
THEOREM TypeCorrect == Spec => []TypeOK
<1>1. IInv => TypeOK
  BY DEF IInv
<1>2. QED
  BY <1>1, IInvHolds, PTL

\* No failure and no crash loses the identity in use before it is archived.
THEOREM NamedOrArchivedHolds == Spec => []NamedOrArchived
<1>1. IInv => NamedOrArchived
  BY DEF IInv, File, Expected, NamedOrArchived
<1>2. QED
  BY <1>1, IInvHolds, PTL

\* An identity that was rotated away is archived and never comes back.
THEOREM RetiredForGoodHolds == Spec => []RetiredForGood
<1>1. ASSUME IInv PROVE RetiredForGood
  <2>1. retired \subseteq archived
    BY <1>1 DEF IInv, Retired
  <2>2. ASSUME kind = "file", identity \in retired PROVE FALSE
    <3>1. identity \in Seed /\ identity # NoIdentity /\ identity.draw \in Nat
      BY <1>1, <2>2, SeedFacts DEF IInv, TypeOK
    <3>2. identity.draw < identity.draw
      BY <1>1, <2>2, <3>1 DEF IInv, Retired
    <3>3. QED
      BY <3>1, <3>2
  <2>3. QED
    BY <2>1, <2>2 DEF RetiredForGood
<1>2. QED
  BY <1>1, IInvHolds, PTL

\* A restart loads what was saved last, by its hash, or what was in use; only a stop
\* between the write of the file and the swap makes a difference, and then the old
\* identity is archived.
THEOREM RestartKeepsOrHashesHolds == Spec => RestartKeepsOrHashes
<1>1. IInv /\ [Next]_vars =>
        (kind = "file" /\ step = "down" /\ step' = "up" /\ last # NoIdentity =>
           /\ identity' = Reloaded(last)
           /\ last.saved # NoIdentity /\ last.identity # NoIdentity =>
                last.identity \in archived)
  <2> SUFFICES ASSUME IInv, [Next]_vars, kind = "file", step = "down", step' = "up", last # NoIdentity
               PROVE  /\ identity' = Reloaded(last)
                      /\ last.saved # NoIdentity /\ last.identity # NoIdentity =>
                           last.identity \in archived
    OBVIOUS
  <2>1. Load
    BY DEF Next, vars, process, LoadFails, Rotate, Archive, OpenKeyFile, Saving, WriteKey, Writing,
           SaveNothing, Use, Exit
  <2>2. identity = NoIdentity
    BY DEF IInv, TypeOK
  <2>3. QED
    BY <2>1, <2>2 DEF IInv, File, Load
<1>2. QED
  BY <1>1, IInvHolds, PTL DEF Spec, RestartKeepsOrHashes

================================================================================
