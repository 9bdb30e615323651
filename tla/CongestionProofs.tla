--------------------------- MODULE CongestionProofs ----------------------------
(***************************************************************************)
(* Proofs about Congestion, for any window, any unit of time, any amounts  *)
(* and round trip times, and any number of acks and losses.                *)
(***************************************************************************)
EXTENDS Congestion, Integers, TLAPS

\* No ack is in the future.
AcksPast == \A i \in DOMAIN acks : acks[i].at <= now

\* rtt_window holds the samples of the recent acks, and nothing else.
WindowIsRecent ==
    /\ acks = <<>> => rtt_window = {} /\ min_rtt = Word - 1 /\ max_bw = 0
    /\ acks # <<>> =>
          /\ \A i \in Recent : Sample(acks[i].rtt, acks[i].at) \in rtt_window
          /\ \A s \in rtt_window :
                \E i \in Recent : s = Sample(acks[i].rtt, acks[i].at)

\* min_rtt is the minimum of rtt_window.
MinOfSamples ==
    acks # <<>> => /\ \E s \in rtt_window : s.rtt = min_rtt
                   /\ \A s \in rtt_window : min_rtt <= s.rtt

IInv == TypeOK /\ AcksPast /\ WindowIsRecent /\ MinOfSamples /\ BestBandwidth

\* The round trips are so short that three of them fit into a u64.
ShortTrips == Word >= 3 /\ \A rtt \in Rtts : 3 * rtt < Word

-----------------------------------------------------------------------------
(* Arithmetic. *)

LEMMA DivFacts ==
    ASSUME NEW x \in Nat, NEW n \in Nat \ {0}
    PROVE  /\ x \div n \in Nat
           /\ n * (x \div n) <= x
           /\ x < n * (x \div n) + n
OBVIOUS

LEMMA ProductFacts ==
    ASSUME NEW x \in Nat, NEW y \in Nat
    PROVE  x * y \in Nat
OBVIOUS

LEMMA ProductOrder ==
    ASSUME NEW x \in Int, NEW y \in Int, NEW n \in Nat, x <= y
    PROVE  n * x <= n * y
OBVIOUS

LEMMA Slack ==
    ASSUME NEW w \in Int, NEW x \in Int, NEW y \in Int, 3 * y <= w, x < y
    PROVE  w >= 3 * x
OBVIOUS

LEMMA TripFacts == Rtts \subseteq Nat /\ Bytes \subseteq Nat
BY RangeAssumption

LEMMA RateFacts ==
    ASSUME NEW bytes \in Nat, NEW rtt \in Nat
    PROVE  /\ DeliveryRate(bytes, rtt) \in Nat
           /\ rtt > 0 => bytes * Second < rtt * DeliveryRate(bytes, rtt) + rtt
<1>1. Second \in Nat \ {0} /\ bytes * Second \in Nat
    BY RangeAssumption, ProductFacts
<1>2. CASE rtt = 0
    BY <1>2 DEF DeliveryRate
<1>3. CASE rtt # 0
    <2> DEFINE x == bytes * Second
    <2>1. DeliveryRate(bytes, rtt) = x \div rtt
        BY <1>3 DEF DeliveryRate
    <2>2. x \in Nat /\ rtt \in Nat \ {0}
        BY <1>1, <1>3
    <2> HIDE DEF x
    <2>3. x \div rtt \in Nat /\ x < rtt * (x \div rtt) + rtt
        BY <2>2, DivFacts
    <2>4. QED
        BY <2>1, <2>3 DEF x
<1>4. QED
    BY <1>2, <1>3

LEMMA DelayFacts ==
    ASSUME NEW bw \in Nat, NEW rtt \in Nat
    PROVE  /\ BandwidthDelay(bw, rtt) \in Nat
           /\ Second * BandwidthDelay(bw, rtt) <= bw * rtt
           /\ bw * rtt < Second * BandwidthDelay(bw, rtt) + Second
<1> DEFINE x == bw * rtt
<1>1. Second \in Nat \ {0} /\ x \in Nat
    BY RangeAssumption, ProductFacts
<1>2. BandwidthDelay(bw, rtt) = x \div Second
    BY DEF BandwidthDelay
<1> HIDE DEF x
<1>3. /\ x \div Second \in Nat /\ Second * (x \div Second) <= x
      /\ x < Second * (x \div Second) + Second
    BY <1>1, DivFacts
<1>4. QED
    BY <1>2, <1>3 DEF x

-----------------------------------------------------------------------------
(* Steps. *)

\* What on_ack() does with the estimates, for any phase.
LEMMA AckFacts ==
    ASSUME IInv, NEW bytes \in Bytes, NEW rtt \in Rtts, OnAck(bytes, rtt)
    PROVE  /\ bytes \in Nat /\ rtt \in 0 .. Word - 1 /\ rtt \in Nat
           /\ acks' = Append(acks, [bytes |-> bytes, rtt |-> rtt, at |-> now])
           /\ now' = now /\ losses' = losses
           /\ rtt_window' = {s \in rtt_window : now - s.at < RttWindow} \cup {Sample(rtt, now)}
           /\ rtt_window' \in SUBSET [rtt : Rtts, at : Nat]
           /\ min_rtt' \in Rtts /\ min_rtt' \in 0 .. Word - 1 /\ min_rtt' \in Nat
           /\ \E s \in rtt_window' : s.rtt = min_rtt'
           /\ \A s \in rtt_window' : min_rtt' <= s.rtt
           /\ max_bw' = IF DeliveryRate(bytes, rtt) > max_bw
                        THEN DeliveryRate(bytes, rtt) ELSE max_bw
           /\ DeliveryRate(bytes, rtt) \in Nat /\ max_bw \in Nat /\ max_bw' \in Nat
<1>1. bytes \in Nat /\ rtt \in 0 .. Word - 1 /\ rtt \in Nat /\ max_bw \in Nat /\ now \in Nat
    BY RangeAssumption DEF IInv, TypeOK
<1>2. /\ acks' = Append(acks, [bytes |-> bytes, rtt |-> rtt, at |-> now])
      /\ now' = now /\ losses' = losses
    BY DEF OnAck
<1>3. rtt_window' = {s \in rtt_window : now - s.at < RttWindow} \cup {Sample(rtt, now)}
    BY DEF OnAck, Estimate
<1>4. rtt_window' \in SUBSET [rtt : Rtts, at : Nat]
    BY <1>1, <1>3 DEF IInv, TypeOK, Sample
<1>5. PICK s \in rtt_window' : (\A t \in rtt_window' : s.rtt <= t.rtt) /\ min_rtt' = s.rtt
    BY DEF OnAck, Estimate
<1>6. min_rtt' \in Rtts
    BY <1>4, <1>5
<1>7. min_rtt' \in 0 .. Word - 1 /\ min_rtt' \in Nat
    BY <1>6, RangeAssumption
<1>8. max_bw' = IF DeliveryRate(bytes, rtt) > max_bw THEN DeliveryRate(bytes, rtt) ELSE max_bw
    BY DEF OnAck, Estimate
<1>9. DeliveryRate(bytes, rtt) \in Nat
    BY <1>1, RateFacts
<1>10. QED
    BY <1>1, <1>2, <1>3, <1>4, <1>5, <1>6, <1>7, <1>8, <1>9

\* What on_ack() does with the window: a product of the estimates, except in Startup.
LEMMA WindowFacts ==
    ASSUME IInv, NEW bytes \in Bytes, NEW rtt \in Rtts, OnAck(bytes, rtt)
    PROVE  /\ cwnd' \in Nat /\ gain' \in {289, 125, 75, 100} /\ state' \in States
           /\ BandwidthDelay(max_bw', min_rtt') \in Nat
           /\ state # "Startup" =>
                 /\ 4 * cwnd' <= 5 * BandwidthDelay(max_bw', min_rtt')
                 /\ 3 * BandwidthDelay(max_bw', min_rtt') <= 4 * (cwnd' + 1)
<1> DEFINE bdp == BandwidthDelay(max_bw', min_rtt')
<1>1. bdp \in Nat
    BY AckFacts, DelayFacts
<1>2. cwnd \in Nat /\ gain \in {289, 125, 75, 100} /\ state \in States
    BY DEF IInv, TypeOK
<1>3. CASE AckInStartup
    <2>1. cwnd' = (cwnd * 11) \div 10 /\ state = "Startup"
        BY <1>3 DEF AckInStartup
    <2>2. \/ state' = "Drain" /\ gain' = 75
          \/ state' = state /\ gain' = gain
        BY <1>3 DEF AckInStartup
    <2>3. cwnd' \in Nat
        BY <1>2, <2>1
    <2>4. QED
        BY <1>1, <1>2, <2>1, <2>2, <2>3 DEF States
<1>4. CASE AckInProbe
    <2>1. cwnd' = (bdp * 125) \div 100 /\ gain' = 125 /\ state' = "Probe"
        BY <1>4 DEF AckInProbe, WindowFor
    <2> HIDE DEF bdp
    <2>2. cwnd' \in Nat /\ 4 * cwnd' <= 5 * bdp /\ 3 * bdp <= 4 * (cwnd' + 1)
        BY <1>1, <2>1
    <2>3. QED
        BY <1>1, <2>1, <2>2 DEF States, bdp
<1>5. CASE AckInDrain
    <2>1. cwnd' = (bdp * 75) \div 100 /\ gain' = 75 /\ state' = "Probe"
        BY <1>5 DEF AckInDrain, WindowFor
    <2> HIDE DEF bdp
    <2>2. cwnd' \in Nat /\ 4 * cwnd' <= 5 * bdp /\ 3 * bdp <= 4 * (cwnd' + 1)
        BY <1>1, <2>1
    <2>3. QED
        BY <1>1, <2>1, <2>2 DEF States, bdp
<1>6. CASE AckInSteady
    <2>1. cwnd' = bdp /\ gain' = gain /\ state' = state
        BY <1>6 DEF AckInSteady
    <2> HIDE DEF bdp
    <2>2. cwnd' \in Nat /\ 4 * cwnd' <= 5 * bdp /\ 3 * bdp <= 4 * (cwnd' + 1)
        BY <1>1, <2>1
    <2>3. QED
        BY <1>1, <1>2, <2>1, <2>2 DEF bdp
<1>7. QED
    BY <1>3, <1>4, <1>5, <1>6 DEF OnAck

LEMMA RecordFacts ==
    ASSUME IInv
    PROVE  \A i \in DOMAIN acks : acks[i] \in [bytes : Bytes, rtt : Rtts, at : Nat]
<1> DEFINE R == [bytes : Bytes, rtt : Rtts, at : Nat]
<1>1. acks \in Seq(R)
    BY DEF IInv, TypeOK
<1> HIDE DEF R
<1>2. \A i \in DOMAIN acks : acks[i] \in R
    BY <1>1
<1>3. QED
    BY <1>2 DEF R

\* The acks after one more.
LEMMA AppendFacts ==
    ASSUME IInv, NEW bytes \in Bytes, NEW rtt \in Rtts,
           acks' = Append(acks, [bytes |-> bytes, rtt |-> rtt, at |-> now])
    PROVE  /\ acks' \in Seq([bytes : Bytes, rtt : Rtts, at : Nat])
           /\ acks' # acks /\ acks' # <<>>
           /\ Len(acks) \in Nat /\ Len(acks') = Len(acks) + 1
           /\ DOMAIN acks = 1 .. Len(acks)
           /\ DOMAIN acks' = DOMAIN acks \cup {Len(acks) + 1}
           /\ \A i \in DOMAIN acks : acks'[i] = acks[i]
           /\ acks'[Len(acks) + 1] = [bytes |-> bytes, rtt |-> rtt, at |-> now]
           /\ \A i \in DOMAIN acks : acks[i] \in [bytes : Bytes, rtt : Rtts, at : Nat]
<1> DEFINE R   == [bytes : Bytes, rtt : Rtts, at : Nat]
           ack == [bytes |-> bytes, rtt |-> rtt, at |-> now]
<1>1. acks \in Seq(R) /\ ack \in R /\ acks' = Append(acks, ack)
    BY DEF IInv, TypeOK
<1>2. \A i \in DOMAIN acks : acks[i] \in R
    BY RecordFacts
<1> HIDE DEF R, ack
<1>3. acks' \in Seq(R) /\ Len(acks) \in Nat /\ Len(acks') = Len(acks) + 1
    BY <1>1
<1>4. DOMAIN acks = 1 .. Len(acks) /\ DOMAIN acks' = 1 .. Len(acks) + 1
    BY <1>1, <1>3
<1>5. (\A i \in DOMAIN acks : acks'[i] = acks[i]) /\ acks'[Len(acks) + 1] = ack
    BY <1>1, <1>4
<1>6. acks' # acks /\ acks' # <<>>
    BY <1>3
<1>7. 1 .. Len(acks) + 1 = 1 .. Len(acks) \cup {Len(acks) + 1}
    BY <1>3
<1>8. QED
    BY <1>2, <1>3, <1>4, <1>5, <1>6, <1>7 DEF R, ack

LEMMA LaterRecordFacts ==
    ASSUME IInv'
    PROVE  \A i \in DOMAIN acks' : acks'[i] \in [bytes : Bytes, rtt : Rtts, at : Nat]
<1> DEFINE R == [bytes : Bytes, rtt : Rtts, at : Nat]
<1>1. acks' \in Seq(R)
    BY DEF IInv, TypeOK
<1> HIDE DEF R
<1>2. \A i \in DOMAIN acks' : acks'[i] \in R
    BY <1>1
<1>3. QED
    BY <1>2 DEF R

LEMMA InitIInv == Init => IInv
<1> SUFFICES ASSUME Init PROVE IInv
    OBVIOUS
<1>1. TypeOK
    BY RangeAssumption DEF Init, TypeOK, States
<1>2. DOMAIN acks = {}
    BY DEF Init
<1>3. QED
    BY <1>1, <1>2 DEF Init, IInv, AcksPast, WindowIsRecent, MinOfSamples, BestBandwidth

LEMMA AckStep ==
    ASSUME IInv, NEW bytes \in Bytes, NEW rtt \in Rtts, OnAck(bytes, rtt)
    PROVE  IInv'
<1> DEFINE n == Len(acks) + 1
           ack == [bytes |-> bytes, rtt |-> rtt, at |-> now]
<1>1. /\ acks' = Append(acks, ack) /\ now' = now /\ losses' = losses
      /\ rtt_window' = {s \in rtt_window : now - s.at < RttWindow} \cup {Sample(rtt, now)}
      /\ rtt_window' \in SUBSET [rtt : Rtts, at : Nat]
      /\ min_rtt' \in 0 .. Word - 1
      /\ \E s \in rtt_window' : s.rtt = min_rtt'
      /\ \A s \in rtt_window' : min_rtt' <= s.rtt
    BY AckFacts
<1>2. /\ max_bw' = IF DeliveryRate(bytes, rtt) > max_bw
                   THEN DeliveryRate(bytes, rtt) ELSE max_bw
      /\ DeliveryRate(bytes, rtt) \in Nat /\ max_bw \in Nat /\ max_bw' \in Nat
    BY AckFacts
<1>3. /\ acks' \in Seq([bytes : Bytes, rtt : Rtts, at : Nat])
      /\ acks' # <<>>
      /\ Len(acks) \in Nat /\ Len(acks') = n
      /\ DOMAIN acks = 1 .. Len(acks)
      /\ DOMAIN acks' = DOMAIN acks \cup {n}
      /\ \A i \in DOMAIN acks : acks'[i] = acks[i]
      /\ acks'[n] = ack
      /\ \A i \in DOMAIN acks : acks[i] \in [bytes : Bytes, rtt : Rtts, at : Nat]
    BY <1>1, AppendFacts
<1>4. ack.bytes = bytes /\ ack.rtt = rtt /\ ack.at = now
    OBVIOUS
<1> HIDE DEF n, ack
<1>5. now \in Nat /\ losses \in Nat
    BY DEF IInv, TypeOK
<1>6. TypeOK'
    <2>1. cwnd' \in Nat /\ gain' \in {289, 125, 75, 100} /\ state' \in States
        BY WindowFacts
    <2>2. QED
        BY <1>1, <1>2, <1>3, <1>5, <2>1 DEF TypeOK
<1>7. AcksPast'
    BY <1>1, <1>3, <1>4, <1>5 DEF IInv, AcksPast
<1>8. Recent' = {i \in DOMAIN acks : now - acks[i].at < RttWindow} \cup {n}
    <2>1. \A i \in DOMAIN acks' : i \in Recent' <=> now - acks'[i].at < RttWindow
        BY <1>3, <1>4 DEF Recent
    <2>2. now - acks'[n].at < RttWindow
        BY <1>3, <1>4, <1>5, RangeAssumption
    <2>3. Recent' \subseteq DOMAIN acks'
        BY DEF Recent
    <2>4. QED
        BY <1>3, <2>1, <2>2, <2>3
<1>9. \A i \in DOMAIN acks : now - acks[i].at < RttWindow => i \in Recent
    <2> SUFFICES ASSUME NEW i \in DOMAIN acks, now - acks[i].at < RttWindow
                 PROVE  acks[Len(acks)].at - acks[i].at < RttWindow
        BY DEF Recent
    <2>1. Len(acks) \in DOMAIN acks
        BY <1>3
    <2>2. acks[Len(acks)].at <= now
        BY <2>1 DEF IInv, AcksPast
    <2>3. acks[Len(acks)].at \in Nat /\ acks[i].at \in Nat
        BY <1>3, <2>1
    <2>4. QED
        BY <1>5, <2>2, <2>3, RangeAssumption
<1>10. WindowIsRecent'
    <2>1. ASSUME NEW i \in Recent'
          PROVE  Sample(acks'[i].rtt, acks'[i].at) \in rtt_window'
        <3>1. CASE i = n
            BY <1>1, <1>3, <1>4, <3>1
        <3>2. CASE i # n
            <4>1. i \in DOMAIN acks /\ now - acks[i].at < RttWindow
                BY <1>8, <2>1, <3>2
            <4>2. acks # <<>>
                BY <4>1
            <4>3. Sample(acks[i].rtt, acks[i].at) \in rtt_window
                BY <1>9, <4>1, <4>2 DEF IInv, WindowIsRecent
            <4>4. Sample(acks[i].rtt, acks[i].at).at = acks[i].at
                BY DEF Sample
            <4>5. QED
                BY <1>1, <1>3, <4>1, <4>3, <4>4
        <3>3. QED
            BY <3>1, <3>2
    <2>2. ASSUME NEW s \in rtt_window'
          PROVE  \E i \in Recent' : s = Sample(acks'[i].rtt, acks'[i].at)
        <3>1. CASE s = Sample(rtt, now)
            BY <1>3, <1>4, <1>8, <3>1
        <3>2. CASE s # Sample(rtt, now)
            <4>1. s \in rtt_window /\ now - s.at < RttWindow
                BY <1>1, <2>2, <3>2
            <4>2. acks # <<>>
                BY <4>1 DEF IInv, WindowIsRecent
            <4>3. PICK i \in Recent : s = Sample(acks[i].rtt, acks[i].at)
                BY <4>1, <4>2 DEF IInv, WindowIsRecent
            <4>4. i \in DOMAIN acks /\ s.at = acks[i].at
                BY <4>3 DEF Recent, Sample
            <4>5. i \in Recent' /\ acks'[i] = acks[i]
                BY <1>3, <1>8, <4>1, <4>4
            <4>6. QED
                BY <4>3, <4>5
        <3>3. QED
            BY <3>1, <3>2
    <2>3. QED
        BY <1>3, <2>1, <2>2 DEF WindowIsRecent
<1>11. MinOfSamples'
    BY <1>1 DEF MinOfSamples
<1>12. BestBandwidth'
    <2>1. ASSUME NEW i \in DOMAIN acks
          PROVE  /\ DeliveryRate(acks[i].bytes, acks[i].rtt) \in Nat
                 /\ DeliveryRate(acks[i].bytes, acks[i].rtt) <= max_bw
        <3>1. acks[i].bytes \in Nat /\ acks[i].rtt \in Nat
            BY <1>3, RangeAssumption
        <3>2. QED
            BY <3>1, RateFacts DEF IInv, BestBandwidth
    <2>2. DeliveryRate(acks'[n].bytes, acks'[n].rtt) = DeliveryRate(bytes, rtt)
        BY <1>3, <1>4
    <2>3. \A i \in DOMAIN acks' : DeliveryRate(acks'[i].bytes, acks'[i].rtt) <= max_bw'
        <3> SUFFICES ASSUME NEW i \in DOMAIN acks'
                     PROVE  DeliveryRate(acks'[i].bytes, acks'[i].rtt) <= max_bw'
            OBVIOUS
        <3>1. CASE i = n
            BY <1>2, <2>2, <3>1
        <3>2. CASE i # n
            <4>1. i \in DOMAIN acks /\ acks'[i] = acks[i]
                BY <1>3, <3>2
            <4>2. QED
                BY <1>2, <2>1, <4>1
        <3>3. QED
            BY <3>1, <3>2
    <2>4. max_bw' > 0 =>
              \E i \in DOMAIN acks' : DeliveryRate(acks'[i].bytes, acks'[i].rtt) = max_bw'
        <3>1. CASE max_bw' = DeliveryRate(bytes, rtt)
            BY <1>3, <2>2, <3>1
        <3>2. CASE max_bw' = max_bw
            BY <1>3, <3>2 DEF IInv, BestBandwidth
        <3>3. QED
            BY <1>2, <3>1, <3>2
    <2>5. QED
        BY <2>3, <2>4 DEF BestBandwidth
<1>13. QED
    BY <1>6, <1>7, <1>10, <1>11, <1>12 DEF IInv

LEMMA LossStep ==
    ASSUME IInv, NEW rtt \in Rtts, OnLoss(rtt)
    PROVE  IInv'
<1>1. UNCHANGED <<min_rtt, max_bw, rtt_window, now, acks>> /\ losses' = losses + 1
    BY DEF OnLoss
<1>2. cwnd \in Nat /\ losses \in Nat
    BY DEF IInv, TypeOK
<1>3. \/ cwnd' = cwnd /\ state' = state /\ gain' = gain
      \/ cwnd' = cwnd \div 2 /\ state' = "Steady" /\ gain' = 100
    BY DEF OnLoss
<1>4. cwnd' \in Nat
    BY <1>2, <1>3
<1>5. TypeOK'
    BY <1>1, <1>2, <1>3, <1>4 DEF IInv, TypeOK, States
<1>6. QED
    BY <1>1, <1>5 DEF IInv, AcksPast, WindowIsRecent, Recent, MinOfSamples, BestBandwidth

LEMMA TickStep ==
    ASSUME IInv, Tick
    PROVE  IInv'
<1>1. /\ UNCHANGED <<cwnd, min_rtt, max_bw, gain, state, rtt_window, acks, losses>>
      /\ now' = now + 1 /\ now \in Nat
    BY DEF Tick, IInv, TypeOK
<1>2. TypeOK'
    BY <1>1 DEF IInv, TypeOK
<1>3. AcksPast'
    <2>1. \A i \in DOMAIN acks : acks[i].at \in Nat
        <3>1. \A i \in DOMAIN acks : acks[i] \in [bytes : Bytes, rtt : Rtts, at : Nat]
            BY RecordFacts
        <3>2. QED
            BY <3>1
    <2>2. QED
        BY <1>1, <2>1 DEF IInv, AcksPast
<1>4. QED
    BY <1>1, <1>2, <1>3 DEF IInv, WindowIsRecent, Recent, MinOfSamples, BestBandwidth

LEMMA NextIInv == IInv /\ [Next]_vars => IInv'
<1> SUFFICES ASSUME IInv, [Next]_vars PROVE IInv'
    OBVIOUS
<1>1. CASE UNCHANGED vars
    BY <1>1 DEF vars, IInv, TypeOK, AcksPast, WindowIsRecent, Recent, MinOfSamples, BestBandwidth
<1>2. QED
    BY <1>1, AckStep, LossStep, TickStep DEF Next

LEMMA SpecIInv == Spec => []IInv
BY InitIInv, NextIInv, PTL DEF Spec

-----------------------------------------------------------------------------
(* The theorems. *)

\* The variables keep their types: no step leaves the naturals (Congestion.tla,
\* TypeOK).
THEOREM TypeCorrect == Spec => []TypeOK
<1>1. IInv => TypeOK
    BY DEF IInv
<1>2. QED
    BY <1>1, SpecIInv, PTL

\* min_rtt is the smallest round trip of the last ten seconds, for any sequence of
\* acks (congestion.rs: the window of samples in on_ack).
THEOREM MinOfWindowHolds == Spec => []MinOfWindow
<1>1. IInv => MinOfWindow
    <2> SUFFICES ASSUME IInv PROVE MinOfWindow
        OBVIOUS
    <2>1. CASE acks = <<>>
        BY <2>1 DEF IInv, WindowIsRecent, MinOfWindow
    <2>2. CASE acks # <<>>
        <3>1. \A i \in Recent : Sample(acks[i].rtt, acks[i].at).rtt = acks[i].rtt
            BY DEF Sample
        <3>2. \E i \in Recent : acks[i].rtt = min_rtt
            BY <2>2, <3>1 DEF IInv, WindowIsRecent, MinOfSamples
        <3>3. \A i \in Recent : min_rtt <= acks[i].rtt
            BY <2>2, <3>1 DEF IInv, WindowIsRecent, MinOfSamples
        <3>4. QED
            BY <2>2, <3>2, <3>3 DEF MinOfWindow
    <2>3. QED
        BY <2>1, <2>2
<1>2. QED
    BY <1>1, SpecIInv, PTL

\* max_bw is the best delivery rate of all acks (congestion.rs: on_ack).
THEOREM BestBandwidthHolds == Spec => []BestBandwidth
<1>1. IInv => BestBandwidth
    BY DEF IInv
<1>2. QED
    BY <1>1, SpecIInv, PTL

\* Acks are recorded by OnAck only.
LEMMA AckCase ==
    ASSUME Next, acks' # acks
    PROVE  \E bytes \in Bytes, rtt \in Rtts : OnAck(bytes, rtt)
BY DEF Next, OnLoss, Tick

\* Outside Startup the window never exceeds 5/4 of the bandwidth-delay product after
\* an ack (congestion.rs: on_ack).
THEOREM AckBoundsWindowHolds == Spec => AckBoundsWindow
<1> DEFINE A == acks' # acks /\ state # "Startup" =>
                    4 * Second * cwnd' <= 5 * max_bw' * min_rtt'
<1>1. ASSUME IInv, Next PROVE A
    <2> SUFFICES ASSUME acks' # acks, state # "Startup"
                 PROVE  4 * Second * cwnd' <= 5 * max_bw' * min_rtt'
        OBVIOUS
    <2> DEFINE bdp == BandwidthDelay(max_bw', min_rtt')
               held == max_bw' * min_rtt'
    <2>1. PICK bytes \in Bytes, rtt \in Rtts : OnAck(bytes, rtt)
        BY <1>1, AckCase
    <2>2. max_bw' \in Nat /\ min_rtt' \in Nat
        BY <1>1, <2>1, AckFacts
    <2>3. cwnd' \in Nat /\ bdp \in Nat /\ 4 * cwnd' <= 5 * bdp
        BY <1>1, <2>1, WindowFacts
    <2>4. held \in Nat /\ Second * bdp <= held
        BY <2>2, DelayFacts, ProductFacts
    <2>5. 5 * max_bw' * min_rtt' = 5 * held
        BY <2>2
    <2> HIDE DEF bdp, held
    <2>6. Second \in Nat
        BY RangeAssumption
    <2>7. Second * (4 * cwnd') <= Second * (5 * bdp)
        <3>1. 4 * cwnd' \in Int /\ 5 * bdp \in Int
            BY <2>3
        <3> DEFINE x == 4 * cwnd'
                   y == 5 * bdp
        <3>2. x \in Int /\ y \in Int /\ x <= y
            BY <2>3, <3>1
        <3> HIDE DEF x, y
        <3>3. Second * x <= Second * y
            BY <2>6, <3>2, ProductOrder
        <3>4. QED
            BY <3>3 DEF x, y
    <2>8. 4 * Second * cwnd' = Second * (4 * cwnd') /\ Second * (5 * bdp) = 5 * (Second * bdp)
        BY <2>3, <2>6
    <2>9. Second * bdp \in Nat /\ Second * (4 * cwnd') \in Nat
        BY <2>3, <2>6, ProductFacts
    <2>10. QED
        BY <2>4, <2>5, <2>7, <2>8, <2>9
<1>2. ASSUME IInv, [Next]_vars PROVE [A]_vars
    BY <1>1, <1>2
<1> HIDE DEF A
<1>3. IInv /\ [Next]_vars => [A]_vars
    BY <1>2
<1>4. Spec => [][A]_vars
    BY <1>3, SpecIInv, PTL DEF Spec
<1>5. QED
    BY <1>4 DEF A, AckBoundsWindow

\* An ack never closes the window, if every round trip took measurable time
\* (congestion.rs: on_ack).
THEOREM AckKeepsWindowOpenHolds == Spec => AckKeepsWindowOpen
<1> DEFINE Open(i) == 4 * (cwnd' + 1) * Second
                          >= 3 * (acks'[i].bytes * Second - acks'[i].rtt - Second)
           A == acks' # acks /\ Measurable' /\ state # "Startup" =>
                    \E i \in DOMAIN acks' : Open(i)
<1>1. ASSUME IInv, IInv', Next PROVE A
    <2> SUFFICES ASSUME acks' # acks, Measurable', state # "Startup"
                 PROVE  \E i \in DOMAIN acks' : Open(i)
        OBVIOUS
    <2>1. PICK bytes \in Bytes, rtt \in Rtts : OnAck(bytes, rtt)
        BY <1>1, AckCase
    <2> DEFINE bdp  == BandwidthDelay(max_bw', min_rtt')
               held == max_bw' * min_rtt'
    <2>2. max_bw' \in Nat /\ min_rtt' \in Nat /\ acks' # <<>>
        BY <1>1, <2>1, AckFacts, AppendFacts
    <2>3. cwnd' \in Nat /\ bdp \in Nat /\ 3 * bdp <= 4 * (cwnd' + 1)
        BY <1>1, <2>1, WindowFacts
    <2>4. held \in Nat /\ held < Second * bdp + Second
        BY <2>2, DelayFacts, ProductFacts
    <2>5. PICK i \in DOMAIN acks' : acks'[i].rtt = min_rtt'
        <3>1. PICK s \in rtt_window' : s.rtt = min_rtt'
            BY <1>1, <2>2 DEF IInv, MinOfSamples
        <3>2. PICK i \in Recent' : s = Sample(acks'[i].rtt, acks'[i].at)
            BY <1>1, <2>2, <3>1 DEF IInv, WindowIsRecent
        <3>3. QED
            BY <3>1, <3>2 DEF Sample, Recent
    <2> DEFINE b == acks'[i].bytes
               r == acks'[i].rtt
    <2>6. b \in Nat /\ r \in Nat /\ r > 0 /\ r = min_rtt'
        <3>1. \A j \in DOMAIN acks' : acks'[j] \in [bytes : Bytes, rtt : Rtts, at : Nat]
            BY <1>1, <2>1, AckFacts, LaterRecordFacts
        <3>2. b \in Bytes /\ r \in Rtts
            BY <3>1
        <3>3. \A j \in DOMAIN acks' : acks'[j].rtt > 0
            BY DEF Measurable
        <3>4. b \in Nat /\ r \in Nat
            BY <3>2, TripFacts
        <3>5. r > 0 /\ r = min_rtt'
            BY <2>5, <3>3
        <3>6. QED
            BY <3>4, <3>5
    <2>7. DeliveryRate(b, r) <= max_bw'
        BY <1>1 DEF IInv, BestBandwidth
    <2> HIDE DEF b, r, bdp, held
    <2>8. DeliveryRate(b, r) \in Nat /\ b * Second < r * DeliveryRate(b, r) + r
        BY <2>6, RateFacts
    <2>9. r * DeliveryRate(b, r) <= r * max_bw' /\ r * max_bw' = held
        <3>1. r * DeliveryRate(b, r) <= r * max_bw'
            BY <2>2, <2>6, <2>7, <2>8, ProductOrder
        <3>2. r * max_bw' = held
            BY <2>2, <2>6 DEF held
        <3>3. QED
            BY <3>1, <3>2
    <2>10. Second \in Nat /\ b * Second \in Nat /\ r * DeliveryRate(b, r) \in Nat
           /\ Second * bdp \in Nat
        BY <2>3, <2>6, <2>8, RangeAssumption, ProductFacts
    <2>11. b * Second - r - Second < Second * bdp
        BY <2>4, <2>6, <2>8, <2>9, <2>10
    <2>12. 3 * (Second * bdp) <= 4 * (cwnd' + 1) * Second
        <3> DEFINE x == 3 * bdp
                   y == 4 * (cwnd' + 1)
        <3>1. x \in Int /\ y \in Int /\ x <= y
            <4>1. x \in Int
                BY <2>3
            <4>2. y \in Int
                BY <2>3
            <4>3. x <= y
                BY <2>3
            <4>4. QED
                BY <4>1, <4>2, <4>3
        <3>2. Second * x = 3 * (Second * bdp) /\ Second * y = 4 * (cwnd' + 1) * Second
            BY <2>3, <2>10
        <3> HIDE DEF x, y
        <3>3. Second * x <= Second * y
            BY <2>10, <3>1, ProductOrder
        <3>4. QED
            BY <3>2, <3>3
    <2>13. 4 * (cwnd' + 1) * Second >= 3 * (b * Second - r - Second)
        <3> DEFINE w == 4 * (cwnd' + 1) * Second
                   x == b * Second - r - Second
                   y == Second * bdp
        <3>1. w \in Int
            BY <2>3, <2>10
        <3>2. x \in Int
            BY <2>6, <2>10
        <3>3. y \in Int
            BY <2>10
        <3>4. x < y /\ 3 * y <= w
            BY <2>11, <2>12
        <3> HIDE DEF w, x, y
        <3>5. w >= 3 * x
            BY <3>1, <3>2, <3>3, <3>4, Slack
        <3>6. QED
            BY <3>5 DEF w, x
    <2>14. Open(i)
        BY <2>13 DEF b, r
    <2>15. QED
        BY <2>14
<1>2. ASSUME IInv, IInv', [Next]_vars PROVE [A]_vars
    BY <1>1, <1>2
<1> HIDE DEF A
<1>3. IInv /\ IInv' /\ [Next]_vars => [A]_vars
    BY <1>2
<1>4. Spec => [][A]_vars
    BY <1>3, SpecIInv, PTL DEF Spec
<1>5. QED
    BY <1>4 DEF A, AckKeepsWindowOpen

\* A loss at an ordinary round trip, or before the first ack, halves the window
\* and ends the probing, if no product of the code wraps (congestion.rs: on_loss).
THEOREM OrdinaryLossCutsHolds ==
    ASSUME ShortTrips
    PROVE  Spec => OrdinaryLossCuts
<1> DEFINE A == \A rtt \in Rtts :
                    /\ OnLoss(rtt)
                    /\ \A i \in Recent : rtt <= 3 * acks[i].rtt
                    => cwnd' = cwnd \div 2 /\ state' = "Steady" /\ gain' = 100
<1>1. ASSUME IInv PROVE A
    <2> SUFFICES ASSUME NEW rtt \in Rtts, OnLoss(rtt),
                        \A i \in Recent : rtt <= 3 * acks[i].rtt
                 PROVE  cwnd' = cwnd \div 2 /\ state' = "Steady" /\ gain' = 100
        OBVIOUS
    <2>1. \A i \in Recent : acks[i].rtt \in Rtts /\ acks[i].rtt \in Nat
        <3>1. \A i \in Recent : acks[i] \in [bytes : Bytes, rtt : Rtts, at : Nat]
            BY <1>1, RecordFacts DEF Recent
        <3>2. \A i \in Recent : acks[i].rtt \in Rtts
            BY <3>1
        <3>3. QED
            BY <3>2, TripFacts
    <2>2. Word \in Nat /\ rtt \in Nat /\ 3 * rtt < Word
        BY RangeAssumption DEF ShortTrips
    <2>3. ~IsNoise(rtt)
        <3>1. CASE acks = <<>>
            <4>2. min_rtt = Word - 1
                BY <1>1, <3>1 DEF IInv, WindowIsRecent
            <4>3. ((Word - 1) * 3) % Word = Word - 3
                BY <2>2 DEF ShortTrips
            <4>4. QED
                BY <2>2, <4>2, <4>3 DEF IsNoise, ShortTrips
        <3>2. CASE acks # <<>>
            <4>1. \E s \in rtt_window : s.rtt = min_rtt
                BY <1>1, <3>2 DEF IInv, MinOfSamples
            <4>2. \A s \in rtt_window : \E i \in Recent : s = Sample(acks[i].rtt, acks[i].at)
                BY <1>1, <3>2 DEF IInv, WindowIsRecent
            <4>3. \A i \in Recent : Sample(acks[i].rtt, acks[i].at).rtt = acks[i].rtt
                BY DEF Sample
            <4>4. PICK k \in Recent : acks[k].rtt = min_rtt
                BY <4>1, <4>2, <4>3
            <4>5. min_rtt \in Nat /\ min_rtt * 3 < Word /\ min_rtt * 3 \in Nat
                BY <2>1, <4>4 DEF ShortTrips
            <4>6. (min_rtt * 3) % Word = min_rtt * 3
                <5>1. \A n \in Nat : n < Word => n % Word = n
                    BY <2>2
                <5>2. QED
                    BY <4>5, <5>1
            <4>7. rtt <= min_rtt * 3
                BY <2>1, <2>2, <4>4
            <4>8. QED
                BY <2>2, <4>5, <4>6, <4>7 DEF IsNoise
        <3>3. QED
            BY <3>1, <3>2
    <2>4. QED
        BY <2>3 DEF OnLoss
<1> HIDE DEF A
<1>2. IInv /\ [Next]_vars => [A]_vars
    BY <1>1
<1>3. Spec => [][A]_vars
    BY <1>2, SpecIInv, PTL DEF Spec
<1>4. QED
    BY <1>3 DEF A, OrdinaryLossCuts
=============================================================================
