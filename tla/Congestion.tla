----------------------------- MODULE Congestion ------------------------------
(***************************************************************************)
(* CongestionController (aether-core/src/congestion.rs): the window, the   *)
(* phase and the two estimates, changed by acks and losses a sender        *)
(* reports in any order and at any time.                                   *)
(*                                                                         *)
(* Products of f64 are truncated, as integer division does.  Acks are      *)
(* reported with the time they arrive, which does not run backwards.  The  *)
(* only product of the code that leaves 64 bits in practice, min_rtt * 3   *)
(* before the first ack, wraps as it does in a release build.              *)
(***************************************************************************)
EXTENDS Naturals, Sequences

CONSTANTS
    InitialCwnd,  \* initial_cwnd
    Second,       \* time units in a second: 1_000_000 in the code
    RttWindow,    \* seconds a sample stays in rtt_window: 10 in the code
    Word,         \* 2^64 in the code
    Bytes,        \* amounts one ack may acknowledge
    Rtts,         \* round trip times that are measured
    MaxAcks, MaxLosses, MaxTime  \* bounds on acks, losses and seconds

ASSUME RangeAssumption ==
    /\ InitialCwnd \in Nat /\ Second \in Nat \ {0} /\ Word \in Nat \ {0}
    /\ RttWindow \in Nat \ {0}
    /\ Bytes \subseteq Nat /\ Rtts \subseteq 0 .. Word - 1
    /\ MaxAcks \in Nat /\ MaxLosses \in Nat /\ MaxTime \in Nat

VARIABLES
    cwnd, min_rtt, max_bw,
    gain,        \* in hundredths
    state,
    rtt_window,  \* the samples that are kept
    now,         \* the clock, in seconds
    acks,        \* history: the acks reported so far
    losses       \* history: how many losses were reported

estimates == <<min_rtt, max_bw, rtt_window>>
vars == <<cwnd, min_rtt, max_bw, gain, state, rtt_window, now, acks, losses>>

States == {"Startup", "Probe", "Drain", "Steady"}

Init ==
    /\ cwnd       = InitialCwnd
    /\ min_rtt    = Word - 1
    /\ max_bw     = 0
    /\ gain       = 289
    /\ state      = "Startup"
    /\ rtt_window = {}
    /\ now        = 0
    /\ acks       = <<>>
    /\ losses     = 0

Sample(rtt, at) == [rtt |-> rtt, at |-> at]

\* Bytes per second; 0 for a round trip that took no measurable time, which
\* leaves max_bw as it is.
DeliveryRate(bytes, rtt) == IF rtt = 0 THEN 0 ELSE (bytes * Second) \div rtt

BandwidthDelay(bw, rtt) == (bw * rtt) \div Second

\* Faulty variant of Estimate: old samples are not dropped.
EstimateKeeping(bytes, rtt) ==
    /\ rtt_window' = rtt_window \cup {Sample(rtt, now)}
    /\ \E s \in rtt_window' : /\ \A t \in rtt_window' : s.rtt <= t.rtt
                              /\ min_rtt' = s.rtt
    /\ max_bw' = IF DeliveryRate(bytes, rtt) > max_bw
                 THEN DeliveryRate(bytes, rtt) ELSE max_bw

\* Faulty variant of Estimate: the bandwidth is the latest, not the best.
EstimateLatest(bytes, rtt) ==
    /\ rtt_window' = {s \in rtt_window : now - s.at < RttWindow} \cup {Sample(rtt, now)}
    /\ \E s \in rtt_window' : /\ \A t \in rtt_window' : s.rtt <= t.rtt
                              /\ min_rtt' = s.rtt
    /\ max_bw' = DeliveryRate(bytes, rtt)

\* The first half of on_ack(): the smallest round trip of the window, in which
\* the new sample always is, and the best delivery rate ever.
Estimate(bytes, rtt) ==
    /\ rtt_window' = {s \in rtt_window : now - s.at < RttWindow} \cup {Sample(rtt, now)}
    /\ \E s \in rtt_window' : /\ \A t \in rtt_window' : s.rtt <= t.rtt
                              /\ min_rtt' = s.rtt
    /\ max_bw' = IF DeliveryRate(bytes, rtt) > max_bw
                 THEN DeliveryRate(bytes, rtt) ELSE max_bw

\* The second half, one action for each phase.
AckInStartup ==
    /\ state = "Startup"
    /\ cwnd' = (cwnd * 11) \div 10
    /\ IF max_bw' > 0 /\ cwnd' >= BandwidthDelay(max_bw', min_rtt')
       THEN state' = "Drain" /\ gain' = 75
       ELSE UNCHANGED <<state, gain>>

\* Faulty variant of WindowFor: the gain is applied to the window itself.
WindowForGrowing(g) == gain' = g /\ cwnd' = (cwnd * g) \div 100

WindowFor(g) ==
    /\ gain' = g
    /\ cwnd' = (BandwidthDelay(max_bw', min_rtt') * g) \div 100

AckInProbe == state = "Probe" /\ WindowFor(125) /\ UNCHANGED state

AckInDrain == state = "Drain" /\ WindowFor(75) /\ state' = "Probe"

\* Faulty variant of AckInSteady: the window stays as the loss left it.
AckInSteadyFrozen == state = "Steady" /\ UNCHANGED <<cwnd, gain, state>>

AckInSteady ==
    /\ state = "Steady"
    /\ cwnd' = BandwidthDelay(max_bw', min_rtt')
    /\ UNCHANGED <<gain, state>>

OnAck(bytes, rtt) ==
    /\ Len(acks) < MaxAcks
    /\ Estimate(bytes, rtt)
    /\ AckInStartup \/ AckInProbe \/ AckInDrain \/ AckInSteady
    /\ acks' = Append(acks, [bytes |-> bytes, rtt |-> rtt, at |-> now])
    /\ UNCHANGED <<now, losses>>

\* Faulty variant of IsNoise: three times the round trip is enough.
IsNoiseFrom(rtt) == rtt >= (min_rtt * 3) % Word

IsNoise(rtt) == rtt > (min_rtt * 3) % Word

\* A loss at a round trip far above the smallest is taken for noise.
OnLoss(rtt) ==
    /\ losses < MaxLosses
    /\ losses' = losses + 1
    /\ \/ IsNoise(rtt) /\ UNCHANGED <<cwnd, state, gain>>
       \/ /\ ~IsNoise(rtt)
          /\ cwnd' = cwnd \div 2
          /\ state' = "Steady"
          /\ gain' = 100
    /\ UNCHANGED <<min_rtt, max_bw, rtt_window, now, acks>>

Tick ==
    /\ now < MaxTime
    /\ now' = now + 1
    /\ UNCHANGED <<cwnd, min_rtt, max_bw, gain, state, rtt_window, acks, losses>>

Next ==
    \/ \E bytes \in Bytes, rtt \in Rtts : OnAck(bytes, rtt)
    \/ \E rtt \in Rtts : OnLoss(rtt)
    \/ Tick

Spec == Init /\ [][Next]_vars

-----------------------------------------------------------------------------
(* Types. *)

\* Every variable keeps its type: no step leaves the natural numbers.
TypeOK ==
    /\ cwnd \in Nat /\ max_bw \in Nat /\ now \in Nat /\ losses \in Nat
    /\ min_rtt    \in 0 .. Word - 1
    /\ gain       \in {289, 125, 75, 100}
    /\ state      \in States
    /\ rtt_window \in SUBSET [rtt : Rtts, at : Nat]
    /\ acks       \in Seq([bytes : Bytes, rtt : Rtts, at : Nat])

-----------------------------------------------------------------------------
(* Safety. *)

\* The acks of the last RttWindow seconds before the latest one, it included.
Recent == {i \in DOMAIN acks : acks[Len(acks)].at - acks[i].at < RttWindow}

\* min_rtt is what the comments say: the smallest round trip among the acks of
\* the last ten seconds, counted from the latest ack; the maximum before any.
MinOfWindow ==
    IF acks = <<>> THEN min_rtt = Word - 1
    ELSE /\ \E i \in Recent : acks[i].rtt = min_rtt
         /\ \A i \in Recent : min_rtt <= acks[i].rtt

\* max_bw is the best delivery rate of all acks, and no larger than one.
BestBandwidth ==
    /\ \A i \in DOMAIN acks : DeliveryRate(acks[i].bytes, acks[i].rtt) <= max_bw
    /\ max_bw > 0 =>
          \E i \in DOMAIN acks : DeliveryRate(acks[i].bytes, acks[i].rtt) = max_bw

Measurable == \A i \in DOMAIN acks : acks[i].rtt > 0

\* An ack never closes the window: if every round trip took measurable time,
\* the window after an ack lets out three quarters of the smallest amount ever
\* acknowledged, up to the rounding of two divisions; whatever losses and
\* aging samples did before.  (With a round trip of 0 it becomes 0.)
AckKeepsWindowOpen ==
    [][acks' # acks /\ Measurable' /\ state # "Startup" =>
          \E i \in DOMAIN acks' :
             4 * (cwnd' + 1) * Second >= 3 * (acks'[i].bytes * Second - acks'[i].rtt - Second)
      ]_vars

\* Once Startup is left, an ack brings the window down to what the path holds:
\* it does not exceed 5/4 of the best bandwidth times the smallest recent
\* round trip, however far Startup went.
AckBoundsWindow ==
    [][acks' # acks /\ state # "Startup" =>
          4 * Second * cwnd' <= 5 * max_bw' * min_rtt']_vars

\* A loss at an ordinary round trip, no more than three times that of each ack
\* of the last ten seconds, is congestion: it halves the window and ends the
\* probing, in every phase; so does every loss before the first ack.  (Which
\* losses at a higher round trip are noise, the code and its documentation do
\* not agree upon: on_loss() does not look at the bandwidth.)
OrdinaryLossCuts ==
    [][\A rtt \in Rtts :
          /\ OnLoss(rtt)
          /\ \A i \in Recent : rtt <= 3 * acks[i].rtt
          => cwnd' = cwnd \div 2 /\ state' = "Steady" /\ gain' = 100]_vars
=============================================================================
