------------------------------- MODULE MCHost -------------------------------
(* Small instances of Host: an input with a port, one with a pipe, an output *)
(* port, a loopback and an uplink, wired so that every kind of event reaches *)
(* the port.                                                                 *)
EXTENDS Host

CONSTANTS osc, net, all, out, loop, up

MCOutputs == <<loop, out>>
MCUplinks == <<up>>
MCLuaDelays == {-1, 1}
MCChildren == [s \in {osc, net, loop, up} |-> IF s = net THEN {out, loop} ELSE {out}]
=============================================================================
