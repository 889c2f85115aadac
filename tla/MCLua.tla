-------------------------------- MODULE MCLua --------------------------------
(* Modules and Bundles, the two halves of tjost_lua.c: a behavior is one of   *)
(* the one or one of the other.  A script of Modules makes an input, a        *)
(* loopback and an uplink, or two uplinks.                                    *)
EXTENDS MCModules, Bundles

Scripts == {{in, loopback, up}, {up, up2}}
ModulesNext == /\ calls = 0 /\ Next
               /\ \E S \in Scripts : \A m \in Module \ S : status'[m] = "new"
               /\ UNCHANGED bundleVars

BundlesNext == /\ phase = "load" /\ made = << >> /\ dat = {}
               /\ BundleNext /\ UNCHANGED vars

LuaInit == Init /\ BundleInit
LuaNext == ModulesNext \/ BundlesNext
LuaSpec == LuaInit /\ [][LuaNext]_<<vars, bundleVars>>
=============================================================================
