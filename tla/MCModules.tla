------------------------------ MODULE MCModules ------------------------------
(* Small instances of Modules: an input, a loopback and uplinks. *)
EXTENDS Modules, TLC

CONSTANTS in, loopback, up, up2
MCKind == [m \in Module |-> (in :> "input" @@ loopback :> "loopback" @@ up :> "uplink"
                             @@ up2 :> "uplink")[m]]
=============================================================================
