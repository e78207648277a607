----------------------------- MODULE CyclicScan -----------------------------
(***************************************************************************)
(* The circular search tunnel.c and ue_ctx.c allocate rows and ids with:   *)
(* it starts one past the last hit, wraps round at n, and stops before it  *)
(* reaches the last hit again, which is therefore never a candidate.       *)
(***************************************************************************)
EXTENDS Integers

Ahead(n, from, to) == (to - from + n) % n

Candidates(last, S) == S \ {last}

NextInScan(n, last, S) ==
  CHOOSE i \in Candidates(last, S) :
    \A j \in Candidates(last, S) : Ahead(n, last, i) <= Ahead(n, last, j)
=============================================================================
