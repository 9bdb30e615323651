---------------------------- MODULE MCConnection ----------------------------
(***************************************************************************)
(* Small instances of Connection for TLC.                                  *)
(***************************************************************************)
EXTENDS Connection, TLC

CONSTANTS c1, c2

\* c1 can do more than the server, c2 less: every branch of the negotiation
\* is taken.
MCClientCaps ==
    [c \in Clients |->
        IF c = c1
        THEN [multipath |-> TRUE, max_streams |-> 4, ack_frequency |-> 2]
        ELSE [multipath |-> FALSE, max_streams |-> 1, ack_frequency |-> 5]]
MCServerCaps == [multipath |-> TRUE, max_streams |-> 2, ack_frequency |-> 3]

MCSupports == [c \in Clients |-> {0, 1}]

NoFaults  == {}
AllFaults == {"lose", "duplicate", "swap"}
=============================================================================
