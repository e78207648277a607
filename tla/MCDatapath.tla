----------------------------- MODULE MCDatapath -----------------------------
(***************************************************************************)
(* Two buffers for packets of one flow, and two workers that may get them. *)
(* A worker's queue holds one packet, as many as a batch, and the transmit *)
(* loop takes one at a time, so that everything but the receive ring runs  *)
(* full: a packet can be in a queue or on its way back while the next one  *)
(* of its flow is with the other worker, and every change of order can be  *)
(* seen on the transmit ring.                                              *)
(***************************************************************************)
EXTENDS Datapath

OneFlow == [b \in Bufs |-> 1]
=============================================================================
