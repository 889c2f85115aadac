------------------------------ MODULE MCUplink -------------------------------
(* Uplink with two ports and the connection from one to the other.            *)
EXTENDS Uplink, TLC

CONSTANTS out, in

MCPorts == {out, in}
MCWires == {<<out, in>>}
=============================================================================
