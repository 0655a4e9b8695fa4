----------------------- MODULE MCPurgeableSubscribers -----------------------
(* Instances of PurgeableSubscribers for TLC.                              *)
EXTENDS PurgeableSubscribers

CONSTANTS s1, p1, u1, u2

\* The app comes and goes; its state is also reported with a uid it does not have.
McAppCalls == {<<"register", p1, u1>>, <<"deregister", p1, u1>>, <<"deregister", p1, u2>>, <<"change", p1, u1>>}
=============================================================================
