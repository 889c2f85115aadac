----------------------------- MODULE MCBundles ------------------------------
(* A small instance of Bundles.                                            *)
EXTENDS Bundles
=============================================================================
