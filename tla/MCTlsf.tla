------------------------------- MODULE MCTlsf --------------------------------
(* A small instance of Tlsf: two pools, the larger one large enough for      *)
(* classes that hold more than one size.                                     *)
EXTENDS Tlsf, TLC

CONSTANTS o1, o2, o3, large, small
MCPoolAt == large :> 5 @@ small :> 20
MCPoolWords == large :> 14 @@ small :> 5
MCOwners == Permutations({o1, o2, o3})
=============================================================================
