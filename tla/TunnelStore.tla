---------------------------- MODULE TunnelStore ----------------------------
(***************************************************************************)
(* What the tunnel table promises its users while they keep to its         *)
(* protocol: a map from keys to tunnel descriptions that only a commit     *)
(* changes.  A handler stages changes in workspaces of its own, some of    *)
(* which may be applied early; then either every workspace is applied,     *)
(* each one replacing the value of one key at once, or every one is        *)
(* discarded and the map has not moved.                                    *)
(*                                                                         *)
(* A reader does not find every key: whether it will is settled when the   *)
(* key gets its first value, and stays so until the key has none.  What it *)
(* finds is the last committed value, never a half-written one, and there  *)
(* is no gap while one value replaces another.                             *)
(***************************************************************************)
CONSTANTS Keys, Values, Absent, Workspaces

VARIABLES
  store,   \* the committed value of every key
  seen,    \* the keys a reader finds
  work,    \* what each workspace is to do to which key
  mode,    \* "open", then "commit" or "rollback" until no workspace is left
  broken   \* the users have left the protocol; nothing is promised any more

storeVars == <<store, seen, work, mode, broken>>

Staged == [key : Keys, val : Values \union {Absent}]
Idle == [key |-> Absent, val |-> Absent]

StoreInit ==
  /\ store = [k \in Keys |-> Absent]
  /\ seen = {}
  /\ work = [w \in Workspaces |-> Idle]
  /\ mode = "open"
  /\ broken = FALSE

Stage(w) ==
  /\ mode = "open" /\ work[w] = Idle
  /\ work'[w] \in Staged
  /\ work' = [work EXCEPT ![w] = work'[w]]
  /\ UNCHANGED <<store, seen, mode, broken>>

Decide(m) ==
  /\ mode = "open"
  /\ mode' = m
  /\ UNCHANGED <<store, seen, work, broken>>

Finish(w) ==
  /\ work[w] # Idle
  /\ work' = [work EXCEPT ![w] = Idle]
  /\ UNCHANGED <<mode, broken>>

Apply(w) ==
  LET k == work[w].key
      v == work[w].val
  IN  /\ mode # "rollback" /\ Finish(w)
      /\ store' = [store EXCEPT ![k] = v]
      /\ \/ v = Absent /\ seen' = seen \ {k}
         \/ v # Absent /\ store[k] = Absent /\ seen' \in {seen, seen \union {k}}
         \/ v # Absent /\ store[k] # Absent /\ UNCHANGED seen

Discard(w) ==
  /\ mode = "rollback" /\ Finish(w)
  /\ UNCHANGED <<store, seen>>

Close ==
  /\ mode # "open"
  /\ \A w \in Workspaces : work[w] = Idle
  /\ mode' = "open"
  /\ UNCHANGED <<store, seen, work, broken>>

Break == broken' = TRUE

StoreNext ==
  \/ \E w \in Workspaces : Apply(w) \/ Discard(w) \/ Stage(w)
  \/ \E m \in {"commit", "rollback"} : Decide(m)
  \/ Close
  \/ Break

StoreSpec == StoreInit /\ [][StoreNext]_storeVars
=============================================================================
