-------------------------- MODULE MCEndpointLedger --------------------------
(***************************************************************************)
(* Instances of EndpointLedger: two requests every three ticks, so that    *)
(* the wait for a token has to be rounded up.                              *)
(***************************************************************************)
EXTENDS EndpointLedger, TLC

CONSTANTS p1, p2, p3
=============================================================================
