------------------------------- MODULE MCPipe -------------------------------
(* Small instances of Pipe: a one-byte and a two-byte payload behind a      *)
(* two-byte header, in a ring that holds two small events but not two large *)
(* ones.                                                                    *)
EXTENDS Pipe, TLC

CONSTANTS small, large

MCEvent == {small, large}
MCSize == (small :> 1) @@ (large :> 2)
=============================================================================
