------------------------------ MODULE Accounts ------------------------------
(***************************************************************************)
(* What the account manager and the memory cgroups of the accounts share.  *)
(***************************************************************************)
CONSTANTS
  Account,      \* os account ids
  Pid           \* process ids
=============================================================================
