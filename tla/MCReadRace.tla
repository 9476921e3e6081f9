----------------------------- MODULE MCReadRace -----------------------------
(* MCRead's instances, for ReadRace.                                       *)
EXTENDS ReadRace, MCRead
=============================================================================
