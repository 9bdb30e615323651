----------------------------- MODULE MCFraming -------------------------------
(***************************************************************************)
(* A small instance of Framing for TLC.                                    *)
(***************************************************************************)
EXTENDS Framing, TLC

\* The smallest and the largest id, and one with a bit in each of its octets.
MCStreamIds == {0, 65537 + 256, MAX_STREAM_ID}
MCOffsets   == {0, 16909060}
MCPayloads  == {<<>>, <<32, 7>>}
MCConnectionId == <<202, 254, 186, 190>>
MCSourceId  == <<1, 2, 3, 4, 5, 6, 7, 8>>
MCNonce     == <<0, 1, 0, 1, 0, 1, 0, 1>>
MCAdditions == {Extension(ExtType.Priority, <<128>>), Extension(ExtType.Padding, <<>>)}
\* An empty octet, a type and a length that fit, H with a bit of the stream
\* id, E.
MCDamages   == {0, 1, 33, 80}
=============================================================================
