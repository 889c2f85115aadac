----------------------------- MODULE MCDevices -------------------------------
(* Ports and Files, which have nothing in common: a behavior is one of the    *)
(* ports, from any of their initial states, or one of the files.              *)
EXTENDS Ports, Files

PortsIdle == last = 0 /\ delay = 0
FilesIdle == periods = 0 /\ fpc = "record" /\ now = Max(Starts)

DevicesInit == Init /\ FilesInit
DevicesNext == \/ /\ FilesIdle /\ Next
                  /\ UNCHANGED filesVars
               \/ /\ PortsIdle /\ FilesNext
                  /\ UNCHANGED vars
DevicesSpec == DevicesInit /\ [][DevicesNext]_<<vars, filesVars>>
=============================================================================
