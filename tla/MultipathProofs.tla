---------------------------- MODULE MultipathProofs ----------------------------
(***************************************************************************)
(* Proofs about Multipath, for any addresses and limits, if at most one    *)
(* side challenges: the documented use.  Nothing bounds max_paths: what    *)
(* needs it to be at most 256 says so.                                     *)
(***************************************************************************)
EXTENDS Multipath, FiniteSetTheorems, TLAPS

OneInitiator == \A s, t \in Initiators : s = t

IdsSuffice == \A s \in Initiators : MaxPaths[s] <= IdSpace

\* Ids may be drawn again: some side has more room than there are ids, and has
\* used them up.
Wrapping == \E s \in Initiators : MaxPaths[s] > IdSpace /\ Full(s)

\* A side has as much room as there are ids: it may draw the primary's id.
Overlaid == \E s \in Initiators : MaxPaths[s] = IdSpace /\ Full(s)

\* The ids a side has drawn are 1 .. n - 1, and all of them are in its table.
Numbered(s, n) ==
    /\ next_id[s] = n % IdSpace
    /\ 1 .. n - 1 \subseteq Ids(s)
    /\ Ids(s) \subseteq 0 .. n - 1
Numbering ==
    \A s \in Initiators : \/ \E n \in 1 .. IdSpace : Numbered(s, n)
                          \/ Ids(s) = PathIds

Primary ==
    Overlaid \/ \A s \in Sides : 0 \in Ids(s) =>
        paths[s][0].local = Home[s] /\ paths[s][0].remote = Home[Other(s)]

\* A challenge in flight names a path of its initiator and that path's ends.
ChallengesMatch ==
    \A m \in net : m.kind = "PathChallenge" =>
        /\ Other(m.to) \in Initiators
        /\ m.id \in Ids(Other(m.to))
        /\ m.id = 0 => Overlaid
        /\ m.from = paths[Other(m.to)][m.id].local
        /\ m.at = paths[Other(m.to)][m.id].remote

\* A response in flight was sent for a path of the peer's table.
ResponsesMatch ==
    \A m \in net : m.kind = "PathResponse" =>
        m.to \in Initiators /\ m.id \in Ids(Other(m.to))

\* What the peer of an initiator has in its table, the initiator has too.
Twins ==
    \A s \in Initiators : \A id \in Ids(Other(s)) \ {0} :
        /\ id \in Ids(s)
        /\ paths[Other(s)][id].remote = paths[s][id].local
        /\ paths[Other(s)][id].local = paths[s][id].remote

ActivesKnown ==
    \A s \in Initiators : \A id \in Ids(s) \ {0} :
        paths[s][id].active => id \in Ids(Other(s))

IInv == /\ TypeOK /\ Numbering /\ Primary /\ ChallengesMatch /\ ResponsesMatch
        /\ Twins /\ ActivesKnown

-----------------------------------------------------------------------------
(* Facts about the operators. *)

LEMMA SidesFacts ==
    /\ Sides = {"client", "server"}
    /\ \A s \in Sides : Other(s) \in Sides /\ Other(s) # s /\ Other(Other(s)) = s
    /\ \A s, r \in Sides : r = s \/ r = Other(s)
BY DEF Sides, Other

LEMMA InitiatorFacts ==
    ASSUME OneInitiator, NEW s \in Initiators
    PROVE  s \in Sides /\ Other(s) \notin Initiators /\ \A r \in Initiators : r = s
BY SidesFacts, SidesAssumption DEF OneInitiator

LEMMA HomeAddresses ==
    /\ \A s \in Sides : Home[s] \in Addresses
    /\ \A s \in Sides : \A a \in NewAddresses[s] : a \in Addresses
BY DEF Addresses

\* The table of a side never loses an entry, so neither condition passes.
LEMMA StaysWrapped ==
    ASSUME \A s \in Sides : Ids(s) \subseteq Ids(s)'
    PROVE  (Wrapping => Wrapping') /\ (Overlaid => Overlaid')
BY SidesAssumption DEF Wrapping, Overlaid, Full

\* A call that is not refused draws an id that is not in the table: the next
\* number, or that of the primary path when it is the only one left.
LEMMA NumberFacts ==
    ASSUME TypeOK, Numbering, ~Wrapping, NEW s \in Initiators, HasRoom(s)
    PROVE  \E n \in 1 .. IdSpace :
              /\ Numbered(s, n)
              /\ next_id[s] = n % IdSpace /\ next_id[s] \notin Ids(s)
              /\ n = IdSpace => Overlaid
<1>1. s \in Sides /\ IdSpace \in Nat /\ IdSpace >= 2 /\ MaxPaths[s] \in Nat
    BY IdAssumption, SidesAssumption
<1>2. IsFiniteSet(PathIds) /\ Cardinality(PathIds) = IdSpace
    <2>1. Cardinality(0 .. IdSpace - 1) = IF 0 > IdSpace - 1 THEN 0 ELSE IdSpace - 1 - 0 + 1
        BY <1>1, FS_Interval
    <2>2. QED
        BY <1>1, <2>1, FS_Interval DEF PathIds
<1>3. Ids(s) \subseteq PathIds /\ IsFiniteSet(Ids(s)) /\ Cardinality(Ids(s)) \in Nat
    BY <1>1, <1>2, FS_Subset, FS_CardinalityType DEF TypeOK
<1>4. Full(s) => MaxPaths[s] <= IdSpace
    BY <1>1 DEF Wrapping
<1>5. Ids(s) # PathIds
    <2>1. ASSUME Ids(s) = PathIds PROVE FALSE
        <3>1. Full(s)
            BY <1>1, <2>1 DEF Full, PathIds
        <3>2. QED
            BY <1>1, <1>2, <1>4, <2>1, <3>1 DEF HasRoom
    <2>2. QED
        BY <2>1
<1>6. PICK n \in 1 .. IdSpace : Numbered(s, n)
    BY <1>5 DEF Numbering
<1>7. n \in Nat /\ n % IdSpace = IF n = IdSpace THEN 0 ELSE n
    <2>1. \A i \in 0 .. IdSpace - 1 : i % IdSpace = i
        BY <1>1
    <2>2. IdSpace % IdSpace = 0
        BY <1>1
    <2>3. QED
        BY <1>1, <2>1, <2>2
<1>8. CASE n # IdSpace
    BY <1>1, <1>6, <1>7, <1>8 DEF Numbered
<1>9. CASE n = IdSpace
    <2>1. Full(s)
        BY <1>6, <1>9 DEF Numbered, Full
    <2>2. Cardinality(1 .. IdSpace - 1) = IdSpace - 1
        <3>1. Cardinality(1 .. IdSpace - 1) =
                 IF 1 > IdSpace - 1 THEN 0 ELSE IdSpace - 1 - 1 + 1
            BY <1>1, FS_Interval
        <3>2. QED
            BY <1>1, <3>1
    <2>3. IdSpace - 1 <= Cardinality(Ids(s))
        BY <1>3, <2>1, <2>2, FS_Subset DEF Full
    <2>4. MaxPaths[s] = IdSpace
        BY <1>1, <1>3, <1>4, <2>1, <2>3 DEF HasRoom
    <2>5. 0 \notin Ids(s)
        <3>1. ASSUME 0 \in Ids(s) PROVE FALSE
            <4>1. \A i \in PathIds : i = 0 \/ i \in 1 .. IdSpace - 1
                BY <1>1 DEF PathIds
            <4>2. Ids(s) = PathIds
                BY <1>3, <2>1, <3>1, <4>1 DEF Full
            <4>3. QED
                BY <1>5, <4>2
        <3>2. QED
            BY <3>1
    <2>6. Overlaid
        BY <2>1, <2>4 DEF Overlaid
    <2>7. QED
        BY <1>6, <1>7, <1>9, <2>5, <2>6 DEF Numbered
<1>10. QED
    BY <1>8, <1>9

-----------------------------------------------------------------------------
(* The steps. *)

LEMMA InitIInv == Init => IInv
<1> SUFFICES ASSUME Init PROVE IInv
    OBVIOUS
<1>1. \A s \in Sides : Ids(s) = {}
    BY DEF Init, Ids
<1>2. IdSpace \in Nat /\ IdSpace >= 2
    BY IdAssumption, SidesFacts
<1>3. TypeOK
    BY <1>1, <1>2 DEF Init, TypeOK, PathIds
<1>4. Numbering
    <2> SUFFICES ASSUME NEW s \in Initiators PROVE Numbered(s, 1)
        BY <1>2 DEF Numbering
    <2>1. s \in Sides
        BY SidesAssumption
    <2>2. 1 % IdSpace = 1
        BY <1>2
    <2>3. QED
        BY <1>1, <2>1, <2>2 DEF Init, Numbered
<1>5. Primary /\ ChallengesMatch /\ ResponsesMatch
    BY <1>1 DEF Init, Primary, ChallengesMatch, ResponsesMatch
<1>6. Twins /\ ActivesKnown
    BY <1>1, SidesFacts, SidesAssumption DEF Twins, ActivesKnown
<1>7. QED
    BY <1>3, <1>4, <1>5, <1>6 DEF IInv

\* A step that changes an entry, or none, but neither its ends nor who knows it,
\* and sends nothing.
Quiet ==
    /\ DOMAIN paths' = Sides
    /\ \A s \in Sides :
          /\ DOMAIN paths'[s] = DOMAIN paths[s]
          /\ \A id \in DOMAIN paths[s] :
                /\ paths'[s][id] \in PathStates
                /\ paths'[s][id].local = paths[s][id].local
                /\ paths'[s][id].remote = paths[s][id].remote
    /\ \A s \in Initiators : \A id \in Ids(s) \ {0} :
          paths'[s][id].active => paths[s][id].active \/ id \in Ids(Other(s))
    /\ next_id' = next_id /\ challenges' = challenges
    /\ \A m \in net' : m \in net
    /\ repeats' \in Nat

LEMMA QuietStep ==
    ASSUME IInv, Quiet
    PROVE  IInv'
<1> USE DEF IInv
<1>1. \A s \in Sides : DOMAIN paths'[s] = DOMAIN paths[s]
    BY DEF Quiet
<1>2. \A s \in Sides : \A id \in DOMAIN paths[s] :
          paths'[s][id].local = paths[s][id].local /\ paths'[s][id].remote = paths[s][id].remote
    BY DEF Quiet
<1>3. Initiators \subseteq Sides /\ \A s \in Sides : Other(s) \in Sides
    BY SidesFacts, SidesAssumption
<1>4. \A m \in net' : m \in net
    BY DEF Quiet
<1>5. TypeOK'
    BY <1>1, <1>4 DEF Quiet, TypeOK, Ids
<1>6. Numbering'
    BY <1>1, <1>3 DEF Quiet, Numbering, Numbered, Ids
<1>0. Overlaid => Overlaid'
    BY <1>1, StaysWrapped DEF Ids
<1>7. Primary'
    BY <1>0, <1>1, <1>2 DEF Primary, Ids
<1>8. ChallengesMatch'
    BY <1>0, <1>1, <1>2, <1>3, <1>4 DEF ChallengesMatch, Ids
<1>9. ResponsesMatch'
    BY <1>1, <1>3, <1>4 DEF ResponsesMatch, Ids
<1>10. Twins'
    BY <1>1, <1>2, <1>3 DEF Twins, Ids
<1>11. ActivesKnown'
    BY <1>1, <1>3 DEF Quiet, ActivesKnown, Ids
<1>12. QED
    BY <1>5, <1>6, <1>7, <1>8, <1>9, <1>10, <1>11

LEMMA RegisterStep ==
    ASSUME OneInitiator, IInv, NEW s \in Sides, RegisterPrimary(s)
    PROVE  /\ IInv'
           /\ DOMAIN paths'[s] = {0} /\ Ids(s) \subseteq {0}
           /\ paths'[s][0].local = Home[s] /\ paths'[s][0].remote = Home[Other(s)]
           /\ \A r \in Sides \ {s} : paths'[r] = paths[r]
<1> USE DEF IInv
<1> DEFINE p == Path(Home[s], Home[Other(s)], TRUE, None)
<1>1. /\ Ids(s) \subseteq {0}
      /\ paths' = [paths EXCEPT ![s] = Insert(@, 0, p)]
      /\ next_id' = next_id /\ challenges' = challenges /\ net' = net /\ repeats' = repeats
    BY DEF RegisterPrimary
<1>2. p \in PathStates /\ p.local = Home[s] /\ p.remote = Home[Other(s)]
    BY HomeAddresses, SidesFacts DEF Path, PathStates
<1> HIDE DEF p
<1>3. /\ DOMAIN paths' = Sides
      /\ paths'[s] = Insert(paths[s], 0, p)
      /\ \A r \in Sides \ {s} : paths'[r] = paths[r]
    BY <1>1 DEF TypeOK
<1>4. DOMAIN paths'[s] = {0} /\ paths'[s][0] = p
    BY <1>1, <1>3 DEF Insert, Ids
<1>5. \A r \in Sides : DOMAIN paths'[r] \ {0} = DOMAIN paths[r] \ {0}
    BY <1>1, <1>3, <1>4 DEF Ids
<1>6. \A r \in Sides : \A id \in DOMAIN paths[r] \ {0} : paths'[r][id] = paths[r][id]
    BY <1>1, <1>3 DEF Ids
<1>7. Initiators \subseteq Sides /\ \A r \in Sides : Other(r) \in Sides
    BY SidesFacts, SidesAssumption
<1>8. TypeOK'
    <2>1. 0 \in PathIds
        BY IdAssumption, SidesFacts DEF PathIds
    <2>2. QED
        BY <1>1, <1>2, <1>3, <1>4, <2>1 DEF TypeOK, Ids
<1>9. Numbering'
    <2> SUFFICES ASSUME NEW r \in Initiators
                 PROVE  (\E n \in 1 .. IdSpace : Numbered(r, n)') \/ Ids(r)' = PathIds
        BY DEF Numbering
    <2>1. DOMAIN paths'[r] \subseteq DOMAIN paths[r] \cup {0}
        BY <1>5, <1>7
    <2>2. CASE \E n \in 1 .. IdSpace : Numbered(r, n)
        <3>1. PICK n \in 1 .. IdSpace : Numbered(r, n)
            BY <2>2
        <3>2. 0 \notin 1 .. n - 1 /\ 0 \in 0 .. n - 1
            BY IdAssumption
        <3>3. Numbered(r, n)'
            BY <1>1, <1>5, <1>7, <2>1, <3>1, <3>2 DEF Numbered, Ids
        <3>4. QED
            BY <3>3
    <2>3. CASE Ids(r) = PathIds
        <3>1. 0 \in PathIds /\ 1 \in PathIds
            BY IdAssumption DEF PathIds
        <3>0. r # s
            BY <1>1, <2>3, <3>1
        <3>2. QED
            BY <1>3, <1>7, <2>3, <3>0 DEF Ids
    <2>4. QED
        BY <2>2, <2>3 DEF Numbering
<1>20. \A r \in Sides : DOMAIN paths[r] \subseteq DOMAIN paths'[r]
    BY <1>1, <1>3, <1>4 DEF Ids
<1>21. Overlaid => Overlaid'
    BY <1>20, StaysWrapped DEF Ids
<1>22. \A r \in Initiators : Full(r) => r # s
    BY <1>1, IdAssumption DEF Full
<1>10. Primary'
    BY <1>2, <1>3, <1>4, <1>21 DEF Primary, Ids
<1>11. ChallengesMatch'
    <2> SUFFICES ASSUME NEW m \in net, m.kind = "PathChallenge"
                 PROVE  /\ Other(m.to) \in Initiators
                        /\ m.id \in DOMAIN paths'[Other(m.to)]
                        /\ m.id = 0 => Overlaid'
                        /\ m.from = paths'[Other(m.to)][m.id].local
                        /\ m.at = paths'[Other(m.to)][m.id].remote
        BY <1>1 DEF ChallengesMatch, Ids
    <2> DEFINE t == Other(m.to)
    <2>1. /\ t \in Initiators /\ m.id \in DOMAIN paths[t]
          /\ m.id = 0 => Overlaid
          /\ m.from = paths[t][m.id].local /\ m.at = paths[t][m.id].remote
        BY DEF ChallengesMatch, Ids
    <2> HIDE DEF t
    <2>2. paths'[t][m.id] = paths[t][m.id]
        <3>1. CASE m.id = 0
            BY <1>3, <1>7, <1>22, <2>1, <3>1, InitiatorFacts DEF Overlaid
        <3>2. CASE m.id # 0
            BY <1>6, <1>7, <2>1, <3>2
        <3>3. QED
            BY <3>1, <3>2
    <2>3. QED
        BY <1>7, <1>20, <1>21, <2>1, <2>2 DEF t
<1>12. ResponsesMatch'
    BY <1>1, <1>7, <1>20 DEF ResponsesMatch, Ids
<1>13. Twins'
    BY <1>5, <1>6, <1>7 DEF Twins, Ids
<1>14. ActivesKnown'
    BY <1>5, <1>6, <1>7 DEF ActivesKnown, Ids
<1>15. QED
    BY <1>1, <1>2, <1>3, <1>4, <1>8, <1>9, <1>10, <1>11, <1>12, <1>13, <1>14

\* What a call of create_path_challenge does, and that its id is a new one.
LEMMA CreateStep ==
    ASSUME OneInitiator, IInv, ~Wrapping, NEW s \in Initiators, NEW a \in NewAddresses[s],
           CreatePathChallenge(s, a)
    PROVE  /\ IInv'
           /\ next_id[s] \notin Ids(s)
           /\ \A id \in Ids(s) : paths'[s][id] = paths[s][id]
           /\ \A r \in Sides \ {s} : paths'[r] = paths[r]
<1> USE DEF IInv
<1> DEFINE nonce == challenges + 1
           remote == Home[Other(s)]
           p == Path(a, remote, FALSE, nonce)
           m == Challenge(Other(s), next_id[s], nonce, a, remote)
<1>1. s \in Sides /\ Other(s) \notin Initiators /\ \A r \in Initiators : r = s
    BY InitiatorFacts
<1>2. PICK n \in 1 .. IdSpace :
          /\ Numbered(s, n)
          /\ next_id[s] = n % IdSpace /\ next_id[s] \notin Ids(s)
          /\ n = IdSpace => Overlaid
    BY NumberFacts DEF CreatePathChallenge
<1> DEFINE k == next_id[s]
<1>3. /\ IdSpace \in Nat /\ IdSpace >= 2 /\ n \in Nat /\ k \in PathIds /\ k \notin DOMAIN paths[s]
      /\ n # IdSpace => k = n /\ k # 0
      /\ n = IdSpace => k = 0
    <2>1. \A i \in 0 .. IdSpace - 1 : i % IdSpace = i
        BY IdAssumption
    <2>2. IdSpace % IdSpace = 0
        BY IdAssumption
    <2>3. QED
        BY <1>1, <1>2, <2>1, <2>2, IdAssumption DEF TypeOK, Ids
<1>4. /\ paths' = [paths EXCEPT ![s] = Insert(@, next_id[s], p)]
      /\ net' = net \cup {m}
      /\ challenges' = nonce
      /\ next_id' = [next_id EXCEPT ![s] = (@ + 1) % IdSpace]
      /\ repeats' = repeats
    BY DEF CreatePathChallenge
<1>5. nonce \in Nat /\ remote \in Addresses /\ a \in Addresses /\ Other(s) \in Sides
    BY <1>1, SidesFacts, HomeAddresses DEF TypeOK
<1>6. k = 0 => Overlaid
    BY <1>2, <1>3
<1>7. p \in PathStates /\ p.local = a /\ p.remote = remote /\ p.active = FALSE
    BY <1>5 DEF Path, PathStates
<1>8. /\ m \in Frames /\ m.kind = "PathChallenge" /\ m.to = Other(s) /\ m.id = k
      /\ m.from = a /\ m.at = remote
    BY <1>1, <1>3, <1>5 DEF Challenge, Frames
<1> HIDE DEF p, m, nonce, remote
<1>9. /\ DOMAIN paths' = Sides
      /\ paths'[s] = Insert(paths[s], k, p)
      /\ \A r \in Sides \ {s} : paths'[r] = paths[r]
    BY <1>1, <1>3, <1>4 DEF TypeOK
<1>10. /\ DOMAIN paths'[s] = DOMAIN paths[s] \cup {k}
       /\ paths'[s][k] = p
       /\ \A id \in DOMAIN paths[s] : paths'[s][id] = paths[s][id]
    BY <1>3, <1>9 DEF Insert
<1>19. Overlaid => Overlaid'
    <2>1. \A r \in Sides : DOMAIN paths[r] \subseteq DOMAIN paths'[r]
        BY <1>9, <1>10
    <2>2. QED
        BY <2>1, StaysWrapped DEF Ids
<1> HIDE DEF k
<1>11. TypeOK'
    <2>1. (k + 1) % IdSpace \in PathIds
        BY <1>3 DEF PathIds
    <2>2. next_id' \in [Sides -> PathIds]
        BY <1>1, <1>4, <2>1 DEF TypeOK, k
    <2>3. QED
        BY <1>1, <1>3, <1>4, <1>5, <1>7, <1>8, <1>9, <1>10, <2>2 DEF TypeOK, Ids
<1>12. Numbering'
    <2>1. CASE n # IdSpace
        <3>1. n + 1 \in 1 .. IdSpace /\ next_id'[s] = (n + 1) % IdSpace
            BY <1>1, <1>2, <1>3, <1>4, <2>1 DEF TypeOK, k
        <3>2. 1 .. (n + 1) - 1 \subseteq DOMAIN paths'[s]
            <4>1. \A i \in 1 .. (n + 1) - 1 : i \in 1 .. n - 1 \/ i = n
                BY <1>3
            <4>2. QED
                BY <1>2, <1>3, <1>10, <2>1, <4>1 DEF Numbered, Ids
        <3>3. DOMAIN paths'[s] \subseteq 0 .. (n + 1) - 1
            <4>1. 0 .. n - 1 \subseteq 0 .. (n + 1) - 1 /\ n \in 0 .. (n + 1) - 1
                BY <1>3
            <4>2. QED
                BY <1>2, <1>3, <1>10, <2>1, <4>1 DEF Numbered, Ids
        <3>4. Numbered(s, n + 1)'
            BY <3>1, <3>2, <3>3 DEF Numbered, Ids
        <3>5. QED
            BY <1>1, <3>1, <3>4 DEF Numbering
    <2>2. CASE n = IdSpace
        <3>1. DOMAIN paths'[s] \subseteq PathIds
            BY <1>1, <1>11 DEF TypeOK, Ids, PathIds
        <3>2. \A i \in PathIds : i = 0 \/ i \in 1 .. n - 1
            BY <1>3, <2>2 DEF PathIds
        <3>3. PathIds \subseteq DOMAIN paths'[s]
            BY <1>2, <1>3, <1>10, <2>2, <3>2 DEF Numbered, Ids
        <3>4. Ids(s)' = PathIds
            BY <3>1, <3>3 DEF Ids
        <3>5. QED
            BY <1>1, <3>4 DEF Numbering
    <2>3. QED
        BY <2>1, <2>2
<1>13. Primary'
    BY <1>3, <1>6, <1>9, <1>10, <1>19 DEF Primary, Ids
<1>14. ChallengesMatch'
    <2>1. ASSUME NEW f \in net, f.kind = "PathChallenge"
          PROVE  /\ Other(f.to) = s
                 /\ f.id \in DOMAIN paths[s] /\ (f.id = 0 => Overlaid')
                 /\ f.from = paths[s][f.id].local /\ f.at = paths[s][f.id].remote
        BY <1>1, <1>19, <2>1 DEF ChallengesMatch, Ids
    <2>2. Other(m.to) = s
        BY <1>1, <1>8, SidesFacts
    <2>3. ASSUME NEW f \in net', f.kind = "PathChallenge"
          PROVE  /\ Other(f.to) = s
                 /\ f.id \in DOMAIN paths'[s] /\ (f.id = 0 => Overlaid')
                 /\ f.from = paths'[s][f.id].local /\ f.at = paths'[s][f.id].remote
        <3>1. CASE f \in net
            BY <1>10, <2>1, <2>3, <3>1
        <3>2. CASE f = m
            BY <1>6, <1>7, <1>8, <1>10, <1>19, <2>2, <3>2
        <3>3. QED
            BY <1>4, <3>1, <3>2
    <2>4. QED
        BY <2>3 DEF ChallengesMatch, Ids
<1>15. ResponsesMatch'
    <2>1. \A f \in net' : f.kind = "PathResponse" => f \in net
        BY <1>4, <1>8
    <2>2. QED
        BY <1>1, <1>5, <1>9, <2>1 DEF ResponsesMatch, Ids
<1>16. Twins'
    <2>1. paths'[Other(s)] = paths[Other(s)]
        BY <1>1, <1>5, <1>9, SidesFacts
    <2>2. QED
        BY <1>1, <1>10, <2>1 DEF Twins, Ids
<1>17. ActivesKnown'
    <2>1. paths'[Other(s)] = paths[Other(s)]
        BY <1>1, <1>5, <1>9, SidesFacts
    <2>2. QED
        BY <1>1, <1>7, <1>10, <2>1 DEF ActivesKnown, Ids
<1>18. QED
    BY <1>2, <1>9, <1>10, <1>11, <1>12, <1>13, <1>14, <1>15, <1>16, <1>17 DEF Ids

LEMMA DeactivateStep ==
    ASSUME IInv, NEW s \in Sides, NEW id \in Ids(s), DeactivatePath(s, id)
    PROVE  Quiet /\ paths'[s][id].active = FALSE
           /\ \A r \in Sides : \A i \in Ids(r) : r # s \/ i # id => paths'[r][i] = paths[r][i]
<1>1. paths[s][id] \in PathStates /\ DOMAIN paths = Sides
    BY DEF IInv, TypeOK
<1>2. [paths[s][id] EXCEPT !.active = FALSE] \in PathStates
    BY <1>1 DEF PathStates
<1>3. /\ DOMAIN paths' = Sides
      /\ \A r \in Sides : DOMAIN paths'[r] = DOMAIN paths[r]
      /\ \A r \in Sides : \A i \in Ids(r) : r # s \/ i # id => paths'[r][i] = paths[r][i]
      /\ paths'[s][id] = [paths[s][id] EXCEPT !.active = FALSE]
    BY <1>1 DEF DeactivatePath, Ids
<1>4. /\ paths'[s][id].local = paths[s][id].local
      /\ paths'[s][id].remote = paths[s][id].remote
      /\ paths'[s][id].active = FALSE
    BY <1>1, <1>3 DEF PathStates
<1>5. \A r \in Sides : \A i \in DOMAIN paths[r] :
          /\ paths'[r][i] \in PathStates
          /\ paths'[r][i].local = paths[r][i].local
          /\ paths'[r][i].remote = paths[r][i].remote
          /\ paths'[r][i].active => paths[r][i].active
    BY <1>2, <1>3, <1>4 DEF IInv, TypeOK, Ids
<1>6. /\ next_id' = next_id /\ challenges' = challenges /\ net' = net
      /\ repeats' = repeats /\ repeats \in Nat
    BY DEF DeactivatePath, IInv, TypeOK
<1>7. Initiators \subseteq Sides
    BY SidesAssumption
<1>8. QED
    BY <1>3, <1>4, <1>5, <1>6, <1>7 DEF Quiet, Ids

\* The answer to the path's own challenge, at the initiator.
LEMMA ResponseStep ==
    ASSUME IInv, NEW m \in net, NEW others \in SUBSET net, HandlePathResponse(m, others),
           next_id' = next_id, challenges' = challenges, repeats' \in Nat
    PROVE  /\ Quiet
           /\ \A r \in Sides : \A id \in Ids(r) :
                 \/ paths'[r][id] = paths[r][id]
                 \/ paths[r][id].nonce # None /\ paths'[r][id].nonce = None
<1> USE DEF IInv
<1>1. m.kind = "PathResponse" /\ net' = others
    BY DEF HandlePathResponse
<1>2. m \in Frames /\ m.to \in Sides /\ m.nonce \in Nat
    BY DEF TypeOK, Frames
<1>3. DOMAIN paths = Sides
    BY DEF TypeOK
<1>4. CASE ~Expected(m)
    <2>1. paths' = paths
        BY <1>4 DEF HandlePathResponse
    <2>2. QED
        BY <1>1, <1>3, <2>1, SidesAssumption DEF Quiet, TypeOK, Ids
<1>5. CASE Expected(m)
    <2> DEFINE p == paths[m.to][m.id]
               q == [p EXCEPT !.active = TRUE, !.nonce = None]
    <2>1. m.id \in Ids(m.to) /\ p.nonce = m.nonce /\ p \in PathStates
        BY <1>2, <1>5 DEF Expected, TypeOK
    <2>2. /\ q \in PathStates /\ q.local = p.local /\ q.remote = p.remote
          /\ q.nonce = None
        BY <2>1 DEF PathStates
    <2>3. p.nonce # None
        BY <1>2, <2>1, IdAssumption
    <2>4. paths' = [paths EXCEPT ![m.to][m.id].active = TRUE, ![m.to][m.id].nonce = None]
        BY <1>5 DEF HandlePathResponse
    <2>5. /\ DOMAIN paths' = Sides
          /\ \A r \in Sides : DOMAIN paths'[r] = DOMAIN paths[r]
          /\ \A r \in Sides : \A i \in Ids(r) :
                r # m.to \/ i # m.id => paths'[r][i] = paths[r][i]
          /\ paths'[m.to][m.id] = q
        BY <1>2, <1>3, <2>1, <2>4 DEF Ids
    <2> HIDE DEF p, q
    <2>6. \A r \in Sides : \A i \in DOMAIN paths[r] :
              /\ paths'[r][i] \in PathStates
              /\ paths'[r][i].local = paths[r][i].local
              /\ paths'[r][i].remote = paths[r][i].remote
        BY <2>2, <2>5 DEF TypeOK, Ids, p
    <2>7. \A s \in Initiators : \A id \in Ids(s) \ {0} :
              paths'[s][id].active => paths[s][id].active \/ id \in Ids(Other(s))
        <3>1. m.id \in Ids(Other(m.to))
            BY <1>1 DEF ResponsesMatch
        <3>2. QED
            BY <2>5, <3>1, SidesAssumption
    <2>8. Quiet
        BY <1>1, <2>5, <2>6, <2>7 DEF Quiet
    <2>9. QED
        BY <2>2, <2>3, <2>5, <2>8 DEF p
<1>6. QED
    BY <1>4, <1>5

\* A challenge at the peer of its initiator: the entry it leaves has the same
\* two ends as the initiator's.
LEMMA ChallengeStep ==
    ASSUME OneInitiator, IInv, NEW m \in net, NEW others \in SUBSET net,
           HandlePathChallenge(m, others),
           next_id' = next_id, challenges' = challenges, repeats' \in Nat
    PROVE  /\ IInv'
           /\ \A s \in Initiators : paths'[s] = paths[s]
           /\ \A r \in Sides : \A id \in Ids(r) :
                 id # 0 \/ ~Overlaid =>
                    /\ paths'[r][id].local = paths[r][id].local
                    /\ paths'[r][id].remote = paths[r][id].remote
<1> USE DEF IInv
<1> DEFINE r == m.to
           s == Other(m.to)
           id == m.id
           known == IF m.id \in Ids(m.to) THEN paths[m.to][m.id]
                    ELSE Path(m.at, m.from, FALSE, None)
           p == [known EXCEPT !.remote = m.from, !.active = TRUE]
           answer == Response(Other(m.to), m.id, m.nonce)
<1>1. /\ m.kind = "PathChallenge"
      /\ paths' = [paths EXCEPT ![r] = Insert(@, id, p)]
      /\ net' = others \cup {answer}
    BY DEF HandlePathChallenge
<1>2. /\ r \in Sides /\ s \in Initiators /\ Other(s) = r /\ s # r
      /\ \A t \in Initiators : t = s
    BY <1>1, InitiatorFacts, SidesFacts DEF TypeOK, Frames, ChallengesMatch
<1>3. s \in Sides
    BY <1>2, SidesAssumption
<1>4. /\ id \in DOMAIN paths[s] /\ (id = 0 => Overlaid) /\ id \in PathIds /\ m.nonce \in Nat
      /\ m.from = paths[s][id].local /\ m.at = paths[s][id].remote
      /\ m.from \in Addresses /\ m.at \in Addresses
    BY <1>1 DEF TypeOK, Frames, ChallengesMatch, Ids
<1>5. known \in PathStates /\ (id # 0 => known.local = paths[s][id].remote)
    <2>1. CASE id \in Ids(r)
        BY <1>2, <1>4, <2>1 DEF TypeOK, Twins
    <2>2. CASE id \notin Ids(r)
        BY <1>4, <2>2 DEF Path, PathStates
    <2>3. QED
        BY <2>1, <2>2
<1> HIDE DEF known
<1>6. /\ p \in PathStates /\ p.remote = paths[s][id].local
      /\ id # 0 => p.local = paths[s][id].remote
    BY <1>4, <1>5 DEF PathStates
<1>7. answer \in Frames /\ answer.kind = "PathResponse" /\ answer.to = s /\ answer.id = id
    BY <1>3, <1>4 DEF Response, Frames
<1> HIDE DEF p, answer, r, s, id
<1>8. /\ DOMAIN paths' = Sides
      /\ paths'[r] = Insert(paths[r], id, p)
      /\ paths'[s] = paths[s]
    BY <1>1, <1>2, <1>3 DEF TypeOK
<1>9. /\ DOMAIN paths'[r] = DOMAIN paths[r] \cup {id}
      /\ paths'[r][id] = p
      /\ \A i \in DOMAIN paths[r] \ {id} : paths'[r][i] = paths[r][i]
    BY <1>8 DEF Insert
<1>10. \A t \in Sides : t = r \/ t = s
    BY <1>2, <1>3, SidesFacts
<1>20. Overlaid => Overlaid'
    <2>1. \A t \in Sides : DOMAIN paths[t] \subseteq DOMAIN paths'[t]
        BY <1>8, <1>9, <1>10
    <2>2. QED
        BY <2>1, StaysWrapped DEF Ids
<1>11. \A t \in Sides : \A i \in Ids(t) : i # 0 \/ ~Overlaid =>
          paths'[t][i].local = paths[t][i].local /\ paths'[t][i].remote = paths[t][i].remote
    <2>1. ASSUME id \in Ids(r), id # 0
          PROVE  p.local = paths[r][id].local /\ p.remote = paths[r][id].remote
        BY <1>2, <1>4, <1>6, <2>1 DEF Twins
    <2>2. QED
        BY <1>4, <1>8, <1>9, <1>10, <2>1 DEF Ids
<1>12. TypeOK'
    <2>1. net' \subseteq Frames
        BY <1>1, <1>7 DEF TypeOK
    <2>2. QED
        BY <1>4, <1>6, <1>8, <1>9, <1>10, <2>1 DEF TypeOK, Ids
<1>13. Numbering'
    BY <1>2, <1>8 DEF Numbering, Numbered, Ids
<1>14. Primary'
    BY <1>4, <1>8, <1>9, <1>10, <1>20 DEF Primary, Ids
<1>15. ChallengesMatch'
    <2>1. \A f \in net' : f.kind = "PathChallenge" => f \in net
        BY <1>1, <1>7
    <2>2. \A f \in net : f.kind = "PathChallenge" => Other(f.to) = s
        BY <1>2 DEF ChallengesMatch
    <2>3. QED
        BY <1>8, <1>20, <2>1, <2>2 DEF ChallengesMatch, Ids
<1>16. ResponsesMatch'
    <2>1. \A f \in net' : f.kind = "PathResponse" => f \in net \/ f = answer
        BY <1>1
    <2>2. \A f \in net : f.kind = "PathResponse" => f.to = s
        BY <1>2 DEF ResponsesMatch
    <2>3. \A f \in net : f.kind = "PathResponse" => f.id \in DOMAIN paths[r]
        BY <1>2, <2>2 DEF ResponsesMatch, Ids
    <2>4. QED
        BY <1>2, <1>4, <1>7, <1>9, <2>1, <2>2, <2>3 DEF ResponsesMatch, Ids
<1>17. Twins'
    <2>1. \A i \in DOMAIN paths[r] \ {0} :
              /\ i \in DOMAIN paths[s]
              /\ paths[r][i].remote = paths[s][i].local
              /\ paths[r][i].local = paths[s][i].remote
        BY <1>2 DEF Twins, Ids
    <2>2. \A i \in DOMAIN paths'[r] \ {0} :
              /\ i \in DOMAIN paths'[s]
              /\ paths'[r][i].remote = paths'[s][i].local
              /\ paths'[r][i].local = paths'[s][i].remote
        BY <1>4, <1>6, <1>8, <1>9, <2>1
    <2>3. QED
        BY <1>2, <2>2 DEF Twins, Ids
<1>18. ActivesKnown'
    BY <1>2, <1>8, <1>9 DEF ActivesKnown, Ids
<1>19. QED
    BY <1>2, <1>8, <1>11, <1>12, <1>13, <1>14, <1>15, <1>16, <1>17, <1>18

\* Deliver, case by case.
LEMMA DeliverCases ==
    ASSUME TypeOK, NEW m \in net, Deliver(m)
    PROVE  /\ next_id' = next_id /\ challenges' = challenges /\ repeats' \in Nat
           /\ \E others \in SUBSET net :
                 HandlePathChallenge(m, others) \/ HandlePathResponse(m, others)
<1>1. next_id' = next_id /\ challenges' = challenges
    BY DEF Deliver
<1>2. PICK again \in BOOLEAN :
          /\ repeats' = IF again THEN repeats + 1 ELSE repeats
          /\ LET others == IF again THEN net ELSE net \ {m}
             IN  HandlePathChallenge(m, others) \/ HandlePathResponse(m, others)
    BY DEF Deliver
<1>3. repeats' \in Nat
    BY <1>2 DEF TypeOK
<1> DEFINE others == IF again THEN net ELSE net \ {m}
<1>4. others \in SUBSET net
    OBVIOUS
<1>5. HandlePathChallenge(m, others) \/ HandlePathResponse(m, others)
    BY <1>2
<1> HIDE DEF others
<1>6. QED
    BY <1>1, <1>3, <1>4, <1>5

-----------------------------------------------------------------------------
(* Types, which hold however often the ids are drawn. *)

LEMMA InsertType ==
    ASSUME TypeOK, NEW s \in Sides, NEW id \in PathIds, NEW p \in PathStates,
           paths' = [paths EXCEPT ![s] = Insert(@, id, p)]
    PROVE  /\ DOMAIN paths' = Sides
           /\ \A r \in Sides : /\ Ids(r)' \subseteq PathIds /\ Ids(r) \subseteq Ids(r)'
                               /\ \A i \in Ids(r)' : paths'[r][i] \in PathStates
<1>1. /\ DOMAIN paths' = Sides
      /\ paths'[s] = Insert(paths[s], id, p)
      /\ \A r \in Sides \ {s} : paths'[r] = paths[r]
    BY DEF TypeOK
<1>2. /\ DOMAIN paths'[s] = DOMAIN paths[s] \cup {id}
      /\ \A i \in DOMAIN paths'[s] : paths'[s][i] = IF i = id THEN p ELSE paths[s][i]
    BY <1>1 DEF Insert
<1>3. QED
    BY <1>1, <1>2 DEF TypeOK, Ids

LEMMA ChangeType ==
    ASSUME TypeOK, NEW s \in Sides, NEW id \in Ids(s), NEW p \in PathStates,
           paths' = [paths EXCEPT ![s][id] = p]
    PROVE  /\ DOMAIN paths' = Sides
           /\ \A r \in Sides : /\ Ids(r)' \subseteq PathIds /\ Ids(r) \subseteq Ids(r)'
                               /\ \A i \in Ids(r)' : paths'[r][i] \in PathStates
<1>1. /\ DOMAIN paths' = Sides
      /\ paths'[s] = [paths[s] EXCEPT ![id] = p]
      /\ \A r \in Sides \ {s} : paths'[r] = paths[r]
    BY DEF TypeOK
<1>2. QED
    BY <1>1 DEF TypeOK, Ids

LEMMA TypeNext ==
    ASSUME TypeOK, [Next]_vars
    PROVE  TypeOK' /\ \A s \in Sides : Ids(s) \subseteq Ids(s)'
<1>1. ASSUME NEW s \in Sides, RegisterPrimary(s) PROVE TypeOK' /\ \A r \in Sides : Ids(r) \subseteq Ids(r)'
    <2> DEFINE p == Path(Home[s], Home[Other(s)], TRUE, None)
    <2>1. p \in PathStates /\ 0 \in PathIds
        BY IdAssumption, HomeAddresses, SidesFacts DEF Path, PathStates, PathIds
    <2>2. paths' = [paths EXCEPT ![s] = Insert(@, 0, p)]
        BY <1>1 DEF RegisterPrimary
    <2> HIDE DEF p
    <2>3. /\ DOMAIN paths' = Sides
          /\ \A r \in Sides : /\ Ids(r)' \subseteq PathIds /\ Ids(r) \subseteq Ids(r)'
                              /\ \A i \in Ids(r)' : paths'[r][i] \in PathStates
        BY <2>1, <2>2, InsertType
    <2>4. QED
        BY <1>1, <2>3 DEF RegisterPrimary, TypeOK
<1>2. ASSUME NEW s \in Sides, NEW id \in Ids(s), DeactivatePath(s, id)
      PROVE  TypeOK' /\ \A r \in Sides : Ids(r) \subseteq Ids(r)'
    <2> DEFINE p == [paths[s][id] EXCEPT !.active = FALSE]
    <2>1. p \in PathStates
        BY DEF TypeOK, PathStates
    <2>2. paths' = [paths EXCEPT ![s][id] = p]
        BY <1>2 DEF DeactivatePath
    <2> HIDE DEF p
    <2>3. /\ DOMAIN paths' = Sides
          /\ \A r \in Sides : /\ Ids(r)' \subseteq PathIds /\ Ids(r) \subseteq Ids(r)'
                              /\ \A i \in Ids(r)' : paths'[r][i] \in PathStates
        BY <2>1, <2>2, ChangeType
    <2>4. QED
        BY <1>2, <2>3 DEF DeactivatePath, TypeOK
<1>3. ASSUME NEW s \in Initiators, NEW a \in NewAddresses[s], CreatePathChallenge(s, a)
      PROVE  TypeOK' /\ \A r \in Sides : Ids(r) \subseteq Ids(r)'
    <2> DEFINE nonce == challenges + 1
               p == Path(a, Home[Other(s)], FALSE, nonce)
               m == Challenge(Other(s), next_id[s], nonce, a, Home[Other(s)])
    <2>1. /\ s \in Sides /\ Other(s) \in Sides /\ a \in Addresses
          /\ Home[Other(s)] \in Addresses /\ nonce \in Nat /\ next_id[s] \in PathIds
        BY SidesFacts, SidesAssumption, HomeAddresses DEF TypeOK
    <2>2. p \in PathStates /\ m \in Frames
        BY <2>1 DEF Path, PathStates, Challenge, Frames
    <2>3. /\ paths' = [paths EXCEPT ![s] = Insert(@, next_id[s], p)]
          /\ net' = net \cup {m} /\ challenges' = nonce /\ repeats' = repeats
          /\ next_id' = [next_id EXCEPT ![s] = (@ + 1) % IdSpace]
        BY <1>3 DEF CreatePathChallenge
    <2> HIDE DEF p, m, nonce
    <2>4. /\ DOMAIN paths' = Sides
          /\ \A r \in Sides : /\ Ids(r)' \subseteq PathIds /\ Ids(r) \subseteq Ids(r)'
                              /\ \A i \in Ids(r)' : paths'[r][i] \in PathStates
        BY <2>1, <2>2, <2>3, InsertType
    <2>5. (next_id[s] + 1) % IdSpace \in PathIds
        BY <2>1, IdAssumption DEF PathIds
    <2>6. next_id' \in [Sides -> PathIds]
        BY <2>3, <2>5 DEF TypeOK
    <2>7. QED
        BY <2>1, <2>2, <2>3, <2>4, <2>6 DEF TypeOK
<1>4. ASSUME NEW m \in net, Deliver(m)
      PROVE  TypeOK' /\ \A r \in Sides : Ids(r) \subseteq Ids(r)'
    <2>1. PICK others \in SUBSET net :
              HandlePathChallenge(m, others) \/ HandlePathResponse(m, others)
        BY <1>4, DeliverCases
    <2>2. next_id' = next_id /\ challenges' = challenges /\ repeats' \in Nat
        BY <1>4, DeliverCases
    <2>3. m \in Frames /\ m.to \in Sides /\ m.id \in PathIds /\ m.nonce \in Nat
        BY DEF TypeOK, Frames
    <2>4. CASE HandlePathChallenge(m, others)
        <3> DEFINE known == IF m.id \in Ids(m.to) THEN paths[m.to][m.id]
                            ELSE Path(m.at, m.from, FALSE, None)
                   p == [known EXCEPT !.remote = m.from, !.active = TRUE]
        <3>1. m.kind = "PathChallenge" /\ m.from \in Addresses /\ m.at \in Addresses
            BY <2>3, <2>4 DEF HandlePathChallenge, Frames
        <3>2. known \in PathStates
            BY <2>3, <3>1 DEF TypeOK, Path, PathStates
        <3>3. /\ paths' = [paths EXCEPT ![m.to] = Insert(@, m.id, p)]
              /\ net' = others \cup {Response(Other(m.to), m.id, m.nonce)}
            BY <2>4 DEF HandlePathChallenge
        <3> HIDE DEF known
        <3>4. p \in PathStates
            BY <3>1, <3>2 DEF PathStates
        <3>5. Response(Other(m.to), m.id, m.nonce) \in Frames
            BY <2>3, SidesFacts DEF Response, Frames
        <3> HIDE DEF p
        <3>6. /\ DOMAIN paths' = Sides
              /\ \A r \in Sides : /\ Ids(r)' \subseteq PathIds /\ Ids(r) \subseteq Ids(r)'
                                  /\ \A i \in Ids(r)' : paths'[r][i] \in PathStates
            BY <2>3, <3>3, <3>4, InsertType
        <3>7. QED
            BY <2>2, <3>3, <3>5, <3>6 DEF TypeOK
    <2>5. CASE HandlePathResponse(m, others)
        <3>1. net' \subseteq Frames
            BY <2>5 DEF HandlePathResponse, TypeOK
        <3>2. CASE paths' = paths
            BY <2>2, <3>1, <3>2 DEF TypeOK, Ids
        <3>3. CASE Expected(m) /\ paths' # paths
            <4> DEFINE p == [paths[m.to][m.id] EXCEPT !.active = TRUE, !.nonce = None]
            <4>1. m.id \in Ids(m.to) /\ paths[m.to][m.id] \in PathStates
                BY <2>3, <3>3 DEF Expected, TypeOK
            <4>2. p \in PathStates
                BY <4>1 DEF PathStates
            <4>3. paths' = [paths EXCEPT ![m.to][m.id].active = TRUE, ![m.to][m.id].nonce = None]
                BY <2>5, <3>3 DEF HandlePathResponse
            <4>4. paths' = [paths EXCEPT ![m.to][m.id] = p]
                BY <2>3, <4>1, <4>3 DEF TypeOK, PathStates, Ids
            <4> HIDE DEF p
            <4>5. /\ DOMAIN paths' = Sides
                  /\ \A r \in Sides : /\ Ids(r)' \subseteq PathIds /\ Ids(r) \subseteq Ids(r)'
                                      /\ \A i \in Ids(r)' : paths'[r][i] \in PathStates
                BY <2>3, <4>1, <4>2, <4>4, ChangeType
            <4>6. QED
                BY <2>2, <3>1, <4>5 DEF TypeOK
        <3>4. QED
            BY <2>5, <3>2, <3>3 DEF HandlePathResponse
    <2>6. QED
        BY <2>1, <2>4, <2>5
<1>5. CASE UNCHANGED vars
    BY <1>5 DEF vars, TypeOK, Ids
<1>6. QED
    BY <1>1, <1>2, <1>3, <1>4, <1>5 DEF Next

-----------------------------------------------------------------------------
(* The invariant, as long as no id is drawn twice. *)

LEMMA StutterQuiet ==
    ASSUME IInv, UNCHANGED vars
    PROVE  Quiet
BY SidesAssumption DEF vars, IInv, TypeOK, Quiet, Ids

LEMMA NextIInv ==
    ASSUME OneInitiator, IInv, ~Wrapping, [Next]_vars
    PROVE  IInv'
<1>0. TypeOK
    BY DEF IInv
<1>1. ASSUME NEW s \in Sides, RegisterPrimary(s) PROVE IInv'
    BY <1>1, RegisterStep
<1>2. ASSUME NEW s \in Sides, NEW id \in Ids(s), DeactivatePath(s, id) PROVE IInv'
    BY <1>2, DeactivateStep, QuietStep
<1>3. ASSUME NEW s \in Initiators, NEW a \in NewAddresses[s], CreatePathChallenge(s, a)
      PROVE  IInv'
    BY <1>3, CreateStep
<1>4. ASSUME NEW m \in net, Deliver(m) PROVE IInv'
    BY <1>0, <1>4, DeliverCases, ChallengeStep, ResponseStep, QuietStep
<1>5. CASE UNCHANGED vars
    BY <1>5, StutterQuiet, QuietStep
<1>6. QED
    BY <1>1, <1>2, <1>3, <1>4, <1>5 DEF Next

\* The inductive invariant: IInv until the ids are drawn again, if ever.
Inv == TypeOK /\ (Wrapping \/ IInv)

LEMMA SpecInv ==
    ASSUME OneInitiator
    PROVE  Spec => []Inv
<1>1. Init => Inv
    BY InitIInv DEF IInv, Inv
<1>2. Inv /\ [Next]_vars => Inv'
    <2> SUFFICES ASSUME Inv, [Next]_vars PROVE Inv'
        OBVIOUS
    <2>1. TypeOK' /\ (Wrapping => Wrapping')
        BY TypeNext, StaysWrapped DEF Inv
    <2>2. ~Wrapping => IInv'
        BY NextIInv DEF Inv
    <2>3. QED
        BY <2>1, <2>2 DEF Inv
<1>3. QED
    BY <1>1, <1>2, PTL DEF Spec

LEMMA NeverWraps ==
    ASSUME IdsSuffice
    PROVE  ~Wrapping
BY IdAssumption, SidesAssumption DEF IdsSuffice, Wrapping

-----------------------------------------------------------------------------
(* The theorems. *)

\* The variables keep their types (Multipath.tla, TypeOK).
THEOREM TypeCorrect == Spec => []TypeOK
<1>1. Init => TypeOK
    BY InitIInv DEF IInv
<1>2. TypeOK /\ [Next]_vars => TypeOK'
    BY TypeNext
<1>3. QED
    BY <1>1, <1>2, PTL DEF Spec

\* A path active at its initiator is in the peer's table with the same two ends
\* (multipath.rs: handle_path_challenge and handle_path_response).
THEOREM EndsAgreeHolds ==
    ASSUME OneInitiator, IdsSuffice
    PROVE  Spec => []EndsAgree
<1>1. Inv => EndsAgree
    BY NeverWraps DEF Inv, IInv, EndsAgree, Twins, ActivesKnown
<1>2. QED
    BY <1>1, SpecInv, PTL

\* At its initiator a path becomes active only by the answer to its own
\* challenge, which is used up (multipath.rs: handle_path_response).
THEOREM ActivationUsesNonceHolds ==
    ASSUME OneInitiator, IdsSuffice
    PROVE  Spec => ActivationUsesNonce
<1> DEFINE A == \A s \in Initiators : \A id \in Ids(s) \ {0} :
                   ~paths[s][id].active /\ paths'[s][id].active =>
                       paths[s][id].nonce # None /\ paths'[s][id].nonce = None
<1>0. Inv => IInv /\ TypeOK /\ ~Wrapping
    BY NeverWraps DEF Inv
<1>1. ASSUME IInv, TypeOK, ~Wrapping, Next PROVE A
    <2> SUFFICES ASSUME NEW s \in Initiators, NEW id \in Ids(s) \ {0},
                        ~paths[s][id].active, paths'[s][id].active
                 PROVE  paths[s][id].nonce # None /\ paths'[s][id].nonce = None
        OBVIOUS
    <2>1. s \in Sides
        BY SidesAssumption
    <2>2. paths'[s][id] # paths[s][id]
        OBVIOUS
    <2>3. ASSUME NEW t \in Sides, RegisterPrimary(t) PROVE FALSE
        BY <1>1, <2>1, <2>2, <2>3, RegisterStep
    <2>4. ASSUME NEW t \in Sides, NEW i \in Ids(t), DeactivatePath(t, i) PROVE FALSE
        BY <1>1, <2>1, <2>2, <2>4, DeactivateStep
    <2>5. ASSUME NEW t \in Initiators, NEW a \in NewAddresses[t], CreatePathChallenge(t, a)
          PROVE  FALSE
        BY <1>1, <2>1, <2>2, <2>5, CreateStep
    <2>6. ASSUME NEW m \in net, Deliver(m)
          PROVE  paths[s][id].nonce # None /\ paths'[s][id].nonce = None
        <3>1. PICK others \in SUBSET net :
                  HandlePathChallenge(m, others) \/ HandlePathResponse(m, others)
            BY <1>1, <2>6, DeliverCases
        <3>2. next_id' = next_id /\ challenges' = challenges /\ repeats' \in Nat
            BY <1>1, <2>6, DeliverCases
        <3>3. CASE HandlePathChallenge(m, others)
            BY <1>1, <2>2, <3>2, <3>3, ChallengeStep
        <3>4. CASE HandlePathResponse(m, others)
            BY <1>1, <2>1, <2>2, <3>2, <3>4, ResponseStep
        <3>5. QED
            BY <3>1, <3>3, <3>4
    <2>7. QED
        BY <1>1, <2>3, <2>4, <2>5, <2>6 DEF Next
<1>2. ASSUME Inv, [Next]_vars PROVE [A]_vars
    BY <1>0, <1>1, <1>2
<1> HIDE DEF A
<1>3. Inv /\ [Next]_vars => [A]_vars
    BY <1>2
<1>4. Spec => [][A]_vars
    BY <1>3, SpecInv, PTL DEF Spec
<1>5. QED
    BY <1>4 DEF A, ActivationUsesNonce

\* An entry changes its addresses only when its id is drawn again: never below
\* 256 paths, at 256 only that of the primary path, above only when every id but
\* that one is in use (multipath.rs: create_path_challenge, handle_path_challenge).
THEOREM EntriesKeepAddressesHolds ==
    ASSUME OneInitiator
    PROVE  Spec => EntriesKeepAddresses
<1> DEFINE Kept(s, id) == /\ paths'[s][id].local = paths[s][id].local
                          /\ paths'[s][id].remote = paths[s][id].remote
           A == \A s \in Sides : \A id \in Ids(s) :
                   \/ Kept(s, id)
                   \/ \E t \in Initiators :
                         /\ Full(t)
                         /\ \/ MaxPaths[t] > IdSpace
                            \/ MaxPaths[t] = IdSpace /\ id = 0
<1>0. ASSUME \A s \in Sides : \A id \in Ids(s) : id # 0 \/ ~Overlaid => Kept(s, id)
      PROVE  A
    BY <1>0 DEF Overlaid
<1> HIDE DEF A
<1>1. ASSUME IInv, TypeOK, ~Wrapping, Next PROVE A
    <2>1. ASSUME NEW t \in Sides, RegisterPrimary(t) PROVE A
        <3>1. \A s \in Sides \ {t} : paths'[s] = paths[s]
            BY <1>1, <2>1, RegisterStep
        <3>2. \A id \in Ids(t) : id = 0
            BY <1>1, <2>1, RegisterStep
        <3>3. ~Overlaid => \A id \in Ids(t) : Kept(t, id)
            BY <1>1, <2>1, <3>2, RegisterStep DEF IInv, Primary
        <3>4. QED
            BY <1>0, <3>1, <3>2, <3>3
    <2>2. ASSUME NEW t \in Sides, NEW i \in Ids(t), DeactivatePath(t, i) PROVE A
        BY <1>0, <1>1, <2>2, DeactivateStep DEF Quiet, Ids
    <2>3. ASSUME NEW t \in Initiators, NEW a \in NewAddresses[t], CreatePathChallenge(t, a)
          PROVE  A
        BY <1>0, <1>1, <2>3, CreateStep
    <2>4. ASSUME NEW m \in net, Deliver(m) PROVE A
        <3>1. PICK others \in SUBSET net :
                  HandlePathChallenge(m, others) \/ HandlePathResponse(m, others)
            BY <1>1, <2>4, DeliverCases
        <3>2. next_id' = next_id /\ challenges' = challenges /\ repeats' \in Nat
            BY <1>1, <2>4, DeliverCases
        <3>3. CASE HandlePathChallenge(m, others)
            BY <1>0, <1>1, <3>2, <3>3, ChallengeStep
        <3>4. CASE HandlePathResponse(m, others)
            BY <1>0, <1>1, <3>2, <3>4, ResponseStep DEF Quiet, Ids
        <3>5. QED
            BY <3>1, <3>3, <3>4
    <2>5. QED
        BY <1>1, <2>1, <2>2, <2>3, <2>4 DEF Next
<1>2. ASSUME Inv, [Next]_vars PROVE [A]_vars
    <2>1. Wrapping => A
        BY DEF Wrapping, A
    <2>2. QED
        BY <1>1, <1>2, <2>1 DEF Inv
<1>3. Inv /\ [Next]_vars => [A]_vars
    BY <1>2
<1>4. Spec => [][A]_vars
    BY <1>3, SpecInv, PTL DEF Spec
<1>5. QED
    BY <1>4 DEF A, EntriesKeepAddresses
=============================================================================
