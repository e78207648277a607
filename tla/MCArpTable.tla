----------------------------- MODULE MCArpTable -----------------------------
(***************************************************************************)
(* Two rows for three addresses, so that the table fills up and positions  *)
(* are reused, and one worker.                                             *)
(***************************************************************************)
EXTENDS ArpTable
=============================================================================
