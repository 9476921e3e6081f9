----------------------------- MODULE MCPreview ------------------------------
(* MCReplace's instances, for Preview.                                     *)
EXTENDS MCReplace, Preview

\* Besides the failing operation a bad download or a kill, not both.
FewTroubles == netFaults + kills <= 1
=============================================================================
