----------------------------- MODULE MCNandLife -----------------------------
(* Instances of NandLife for TLC.                                          *)
EXTENDS NandLife

\* No limit; both quotas; a total quota only.
McQuotas == {[daily |-> 0, total |-> 0], [daily |-> 2, total |-> 4], [daily |-> 0, total |-> 3]}
=============================================================================
