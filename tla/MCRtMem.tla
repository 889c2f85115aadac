------------------------------- MODULE MCRtMem -------------------------------
(* Small instances of RtMem: three blocks of one to three units in chunks of *)
(* four.                                                                     *)
EXTENDS RtMem

CONSTANTS b1, b2, b3
MCBlock == {b1, b2, b3}
=============================================================================
