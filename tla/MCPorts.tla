------------------------------- MODULE MCPorts -------------------------------
EXTENDS Ports

(* The two links of cuup.c, and two KNI ports on the first of them.        *)
TwoLinks == <<"0000:00:09.0", "0000:00:0a.0">>
KnisOnOne == <<0, 0>>
=============================================================================
