------------------------------ MODULE MCSetup ------------------------------
(***************************************************************************)
(* Ten tunnels and five UEs: both kinds of id run out, in either order.  A *)
(* request asks for up to two sessions, with up to two DRBs each.          *)
(***************************************************************************)
EXTENDS Setup

MCRequests == UNION {[1 .. n -> 0 .. 2] : n \in 0 .. 2}
=============================================================================
