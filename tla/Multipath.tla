----------------------------- MODULE Multipath -------------------------------
(***************************************************************************)
(* The path tables of the two sides of a connection (PathManager in        *)
(* aether-core/src/multipath.rs) and the PathChallenge and PathResponse    *)
(* frames between them.                                                    *)
(*                                                                         *)
(* The program that uses the library carries the frames and calls the      *)
(* handlers, with the addresses a frame came from and arrived at.  A frame *)
(* in flight may be delivered next, several times, or never.  A challenge  *)
(* nonce is random: it is identified with the call that drew it.           *)
(***************************************************************************)
EXTENDS Naturals, FiniteSets

CONSTANTS
    None,            \* no challenge_nonce
    Home,            \* [Sides -> the address of the primary path]
    NewAddresses,    \* [Sides -> addresses a side finds later]
    Initiators,      \* the sides that challenge new paths
    MaxPaths,        \* [Sides -> max_paths]
    IdSpace,         \* path ids: 2^8 in the code
    MaxChallenges,   \* bound on the challenges created
    MaxRepeats       \* bound on the number of repeated deliveries

Sides == {"client", "server"}
Other(s) == IF s = "client" THEN "server" ELSE "client"

ASSUME SidesAssumption == Initiators \subseteq Sides /\ MaxRepeats \in Nat
ASSUME IdAssumption    == /\ IdSpace \in Nat /\ IdSpace >= 2
                          /\ MaxPaths \in [Sides -> Nat]
                          /\ MaxChallenges \in Nat /\ None \notin Nat

VARIABLES
    paths,       \* [Sides -> a function from the ids in the table to PathStates]
    next_id,     \* [Sides -> next_path_id]
    challenges,  \* challenges created so far: source of fresh nonces
    net,         \* frames in flight
    repeats      \* repeated deliveries so far

vars == <<paths, next_id, challenges, net, repeats>>

Ids(s) == DOMAIN paths[s]

Path(local, remote, active, nonce) ==
    [local |-> local, remote |-> remote, active |-> active, nonce |-> nonce]

Challenge(to, id, nonce, from, at) ==
    [kind |-> "PathChallenge", to |-> to, id |-> id, nonce |-> nonce,
     from |-> from, at |-> at]
Response(to, id, nonce) ==
    [kind |-> "PathResponse", to |-> to, id |-> id, nonce |-> nonce]

Insert(table, id, path) ==
    [i \in DOMAIN table \cup {id} |-> IF i = id THEN path ELSE table[i]]

Init ==
    /\ paths      = [s \in Sides |-> <<>>]
    /\ next_id    = [s \in Sides |-> 1]
    /\ challenges = 0
    /\ net        = {}
    /\ repeats    = 0

-----------------------------------------------------------------------------
(* Calls of the program. *)

\* The path of the handshake, known before there is any other.
RegisterPrimary(s) ==
    /\ Ids(s) \subseteq {0}
    /\ paths' = [paths EXCEPT
                    ![s] = Insert(@, 0, Path(Home[s], Home[Other(s)], TRUE, None))]
    /\ UNCHANGED <<next_id, challenges, net, repeats>>

\* Faulty variant of HasRoom: one path too many.
HasRoomForOneMore(s) == Cardinality(Ids(s)) <= MaxPaths[s]

\* At max_paths the call is refused; inactive paths count.
HasRoom(s) == Cardinality(Ids(s)) < MaxPaths[s]

\* The id is not looked up in the table: next_path_id wraps after 255, to the
\* id of the primary path and on to those already drawn.
CreatePathChallenge(s, local) ==
    /\ challenges < MaxChallenges
    /\ HasRoom(s)
    /\ LET nonce  == challenges + 1
           remote == Home[Other(s)]
       IN  /\ paths' = [paths EXCEPT
                          ![s] = Insert(@, next_id[s], Path(local, remote, FALSE, nonce))]
           /\ net' = net \cup {Challenge(Other(s), next_id[s], nonce, local, remote)}
    /\ challenges' = challenges + 1
    /\ next_id' = [next_id EXCEPT ![s] = (@ + 1) % IdSpace]
    /\ UNCHANGED repeats

\* deactivate_path, or check_timeouts for a path that has been silent.
DeactivatePath(s, id) ==
    /\ paths[s][id].active
    /\ paths' = [paths EXCEPT ![s][id].active = FALSE]
    /\ UNCHANGED <<next_id, challenges, net, repeats>>

-----------------------------------------------------------------------------
(* Frames of the peer. *)

\* Faulty variant of HandlePathChallenge: a new path has its ends swapped.
HandleChallengeSwapped(m, others) ==
    LET s == m.to
    IN  /\ m.kind = "PathChallenge"
        /\ paths' = [paths EXCEPT ![s] = Insert(@, m.id, Path(m.from, m.at, TRUE, None))]
        /\ net' = others \cup {Response(Other(s), m.id, m.nonce)}

\* entry().or_insert_with(): a known id keeps its local address and its own
\* pending nonce.  There is no check of max_paths.
HandlePathChallenge(m, others) ==
    LET s == m.to
        known == IF m.id \in Ids(s) THEN paths[s][m.id]
                 ELSE Path(m.at, m.from, FALSE, None)
    IN  /\ m.kind = "PathChallenge"
        /\ paths' = [paths EXCEPT
              ![s] = Insert(@, m.id, [known EXCEPT !.remote = m.from, !.active = TRUE])]
        /\ net' = others \cup {Response(Other(s), m.id, m.nonce)}

\* Faulty variant of Expected: the nonce is not compared.
ExpectedById(m) == m.id \in Ids(m.to)

\* The response is for the challenge the path is waiting for.
Expected(m) ==
    m.id \in Ids(m.to) /\ paths[m.to][m.id].nonce = m.nonce

\* Faulty variant of HandlePathResponse: the nonce stays after the answer.
HandleResponseKeeps(m, others) ==
    /\ m.kind = "PathResponse"
    /\ net' = others
    /\ IF Expected(m) THEN paths' = [paths EXCEPT ![m.to][m.id].active = TRUE]
                      ELSE UNCHANGED paths

HandlePathResponse(m, others) ==
    /\ m.kind = "PathResponse"
    /\ net' = others
    /\ \/ /\ Expected(m)
          /\ paths' = [paths EXCEPT ![m.to][m.id].active = TRUE,
                                    ![m.to][m.id].nonce = None]
       \/ /\ ~Expected(m)
          /\ UNCHANGED paths

\* The network delivers m and forgets it, or keeps it to deliver it again.
Deliver(m) ==
    /\ \E again \in BOOLEAN :
          LET others == IF again THEN net ELSE net \ {m}
          IN  /\ again => repeats < MaxRepeats
              /\ repeats' = IF again THEN repeats + 1 ELSE repeats
              /\ HandlePathChallenge(m, others) \/ HandlePathResponse(m, others)
    /\ UNCHANGED <<next_id, challenges>>

Next ==
    \/ \E s \in Sides : \/ RegisterPrimary(s)
                        \/ \E id \in Ids(s) : DeactivatePath(s, id)
    \/ \E s \in Initiators : \E a \in NewAddresses[s] : CreatePathChallenge(s, a)
    \/ \E m \in net : Deliver(m)

Spec == Init /\ [][Next]_vars

\* A frame in flight is delivered in the end.
FairSpec == Spec /\ WF_vars(\E m \in net : Deliver(m))

-----------------------------------------------------------------------------
(* Types. *)

Addresses == {Home[s] : s \in Sides} \cup UNION {NewAddresses[s] : s \in Sides}
PathIds   == 0 .. IdSpace - 1
PathStates == [local : Addresses, remote : Addresses, active : BOOLEAN,
               nonce : Nat \cup {None}]
Frames == [kind : {"PathChallenge"}, to : Sides, id : PathIds, nonce : Nat,
           from : Addresses, at : Addresses]
            \cup [kind : {"PathResponse"}, to : Sides, id : PathIds, nonce : Nat]

\* Every variable keeps its type.
TypeOK ==
    /\ DOMAIN paths = Sides
    /\ \A s \in Sides : /\ Ids(s) \subseteq PathIds
                        /\ \A id \in Ids(s) : paths[s][id] \in PathStates
    /\ next_id    \in [Sides -> PathIds]
    /\ challenges \in Nat
    /\ net        \subseteq Frames
    /\ repeats    \in Nat

-----------------------------------------------------------------------------
(* Safety and liveness, for the documented use: one side challenges. *)

\* A path that has become active at its initiator is in the peer's table,
\* with the same two addresses.
EndsAgree ==
    \A s \in Initiators : \A id \in Ids(s) \ {0} :
        paths[s][id].active =>
            /\ id \in Ids(Other(s))
            /\ paths[Other(s)][id].remote = paths[s][id].local
            /\ paths[Other(s)][id].local = paths[s][id].remote

\* At its initiator a path becomes active only by the answer to its own
\* challenge, which is used up: a path given up does not come back because an
\* answer arrives again.
ActivationUsesNonce ==
    [][\A s \in Initiators : \A id \in Ids(s) \ {0} :
          ~paths[s][id].active /\ paths'[s][id].active =>
              paths[s][id].nonce # None /\ paths'[s][id].nonce = None]_vars

\* All the ids the counter gives before it wraps are in use at s.
Full(s) == 1 .. IdSpace - 1 \subseteq Ids(s)

\* An entry, active or not, changes its pair of addresses only when its id is
\* drawn again.  That takes a side whose table holds every other id and a
\* max_paths of more than 256, which nothing forbids; at 256 the primary path
\* is the only victim, at the peer of a side that has not registered it; below
\* 256 the limit is reached before the counter wraps.
EntriesKeepAddresses ==
    [][\A s \in Sides : \A id \in Ids(s) :
          \/ /\ paths'[s][id].local = paths[s][id].local
             /\ paths'[s][id].remote = paths[s][id].remote
          \/ \E t \in Initiators :
                /\ Full(t)
                /\ \/ MaxPaths[t] > IdSpace
                   \/ MaxPaths[t] = IdSpace /\ id = 0]_vars

Pending(s, id) == id \in Ids(s) /\ paths[s][id].nonce # None

\* If no frame is lost, every challenge is answered.
ChallengeAnswered ==
    \A s \in Initiators, id \in PathIds : Pending(s, id) ~> ~Pending(s, id)
=============================================================================
