---------------------------- MODULE MCStreamLink -----------------------------
(***************************************************************************)
(* Small instances of StreamLink for TLC.                                  *)
(***************************************************************************)
EXTENDS StreamLink, TLC

OneWriter   == {"opener"}

NoKinds   == {}
\* All that may be repeated without opening the stream again.
LiveKinds == {"data", "fin", "window"}
=============================================================================
