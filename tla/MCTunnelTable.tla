--------------------------- MODULE MCTunnelTable ---------------------------
(***************************************************************************)
(* A table of three rows and three tunnel ids.  MCTunnelTable.cfg takes    *)
(* one local address and two distinguishable contents, MCTunnelReuse.cfg   *)
(* the N3 and the F1-U address and one content.                            *)
(***************************************************************************)
EXTENDS TunnelTable
=============================================================================
