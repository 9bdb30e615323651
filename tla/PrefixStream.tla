----------------------------- MODULE PrefixStream -----------------------------
(***************************************************************************)
(* What one direction of a stream promises its reader: nothing is skipped. *)
(* What the reader has been given at any time, all reads together, is a    *)
(* prefix of what the writer wrote.  A read may give bytes again that an   *)
(* earlier one gave: UDP repeats datagrams, and the code does not drop the *)
(* copies.                                                                 *)
(***************************************************************************)
EXTENDS Naturals, Sequences

VARIABLES
    written,     \* bytes written so far
    delivered    \* the fragments handed to the reader so far, in order

\* Each fragment starts where the one before it ended.
Consecutive(frags) ==
    \A i \in 2 .. Len(frags) : frags[i].from = frags[i - 1].from + frags[i - 1].len

Within(frags, n) == \A i \in DOMAIN frags : frags[i].from + frags[i].len <= n

\* All bytes before the n-th were handed over, if nothing was skipped so far.
Reaches(frags, n) == n = 0 \/ \E i \in DOMAIN frags : frags[i].from + frags[i].len >= n

Init == written = 0 /\ delivered = <<>>

Write ==
    /\ written' > written
    /\ UNCHANGED delivered

\* One read: a run without a hole, from a byte that is the next one or earlier.
Deliver ==
    LET run == SubSeq(delivered', Len(delivered) + 1, Len(delivered'))
    IN  /\ run # <<>>
        /\ delivered' = delivered \o run
        /\ Consecutive(run)
        /\ Within(run, written)
        /\ Reaches(delivered, run[1].from)
        /\ UNCHANGED written

Next == Write \/ Deliver

Spec == Init /\ [][Next]_<<written, delivered>>
===============================================================================
