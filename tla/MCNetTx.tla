------------------------------ MODULE MCNetTx -------------------------------
(* Small instances of NetTx: payloads of one and two bytes behind a two-byte *)
(* header, in a ring that holds two small events but not two large ones.     *)
EXTENDS NetTx, TLC

CONSTANTS small, large

MCEvent == {small, large}
MCSize == (small :> 1) @@ (large :> 2)
=============================================================================
