---------------------------- MODULE MCLifecycle ------------------------------
(* Lifecycle with every step that may fail, a session and a net module.       *)
EXTENDS Lifecycle

MCMayFail == ToSet(Steps) \ {"asio", "arr"}
=============================================================================
