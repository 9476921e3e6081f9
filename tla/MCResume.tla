------------------------------ MODULE MCResume ------------------------------
(* A small instance of Resume for TLC.                                     *)
EXTENDS ResumeInv

CONSTANTS a, b, e1, e2

MCWant == <<a, b>>

\* The content; another of its size; a longer one, without an ETag.
MCObjects ==
    { [body |-> <<a, b>>, tag |-> e1],
      [body |-> <<b, b>>, tag |-> e2],
      [body |-> <<a, b, a, b>>, tag |-> Nil] }
=============================================================================
