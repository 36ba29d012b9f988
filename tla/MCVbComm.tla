------------------------------ MODULE MCVbComm ------------------------------
(* The two ways to a host in one model: each behaviour is about VirtualBox *)
(* or about VMware, which are not there together, and the other rests.     *)
EXTENDS VbComm, VmwareMouse

VARIABLE host

NoVirtualBox == Init /\ buf = Req("Report", FALSE)
NoVmware == Installed /\ ~vmwavail

MCInit ==
  \/ host = "VirtualBox" /\ Init /\ NoVmware
  \/ host = "VMware" /\ NoVirtualBox /\ Installed

MCNext ==
  /\ UNCHANGED host
  /\ \/ host = "VirtualBox" /\ Next /\ UNCHANGED vmvars
     \/ host = "VMware" /\ Works /\ UNCHANGED vars

MCSpec == MCInit /\ [][MCNext]_<<vars, vmvars, host>>
=============================================================================
