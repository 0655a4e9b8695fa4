---------------------------- MODULE MCMemMgrIpc ----------------------------
(* A native service with the uid of foundation and of the window manager,  *)
(* and the camera service, whose calls the first one's checks refuse.      *)
EXTENDS MemMgrIpc
MCClients ==
  {[pid |-> 7, uid |-> 2, native |-> TRUE, calls |-> Codes \ {"GetBundlePriorityList"}],
   [pid |-> 8, uid |-> 1, native |-> FALSE,
    calls |-> {"GetBundlePriorityList", "GetReclaimPriorityByPid", "NotifyProcessStatus",
               "OnWindowVisibilityChanged"}]}
=============================================================================
