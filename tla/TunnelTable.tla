---------------------------- MODULE TunnelTable ----------------------------
(***************************************************************************)
(* The tunnel table of the CU-UP (tunnel.c) and its callers (pdus.c,       *)
(* drb.c, ue_ctx.c): an E1AP handler sets up, modifies and removes tunnels *)
(* one after the other, keeping the pointer to every row in the lists of   *)
(* its UE context, and then commits or rolls back what is on the lists.    *)
(* Handlers run to completion one at a time; what runs beside them is the  *)
(* workers' look-ups, which read the hash and the row it points to between *)
(* any two steps.                                                          *)
(*                                                                         *)
(* Commit and rollback find out from the hash what was done to a row.      *)
(* That takes a protocol which no code enforces, and which the callers do  *)
(* not always keep, nor does the search for a free row:                    *)
(*   - a tunnel is changed and removed through the row the hash has for    *)
(*     it, and within one handler either removed or changed once.          *)
(*     drb_modify (drb.c:117-146), pdus_modify (pdus.c:196-251) and        *)
(*     e1ap_bearer_ctx_modify (e1ap_bearer_modify.c:76-136) do what the    *)
(*     request says, in its order, also to one tunnel twice, and the lists *)
(*     may hold rows that have been given back;                            *)
(*   - a row that has been given back is not committed.  ue_ctx_commit     *)
(*     puts DRBs on both lists of a context (ue_ctx.c:291), and so commits *)
(*     a removed one twice;                                                *)
(*   - tunnel_alloc does not come round to a row removed in the same       *)
(*     handler.                                                            *)
(* The actions have no such guards.  The history variable slips records    *)
(* what of this has happened, and the properties say what holds before     *)
(* anything has.                                                           *)
(***************************************************************************)
EXTENDS TunnelOps

CONSTANT
  Absent   \* the abstract value of a key without a committed tunnel, and the
           \* key at position 0 of the hash when there is none

ASSUME AbsentInfoAssumption == Absent \notin Info \union TunnelKey

VARIABLES
  tbl,   \* the table (see TunnelOps)
  zero,  \* the key at position 0 of the hash
  tx,    \* the rows the running handler changed, with what it did to them
  mode,  \* "open": the handler is still changing tunnels; then "commit" or
         \* "rollback" until it has been through its lists
  slips  \* history: which rules of the protocol have been broken so far

vars == <<tbl, zero, tx, mode, slips>>

Ops == {"add", "modify", "remove"}
Handle == [row : Rows, key : TunnelKey, op : Ops]
Slip == {"protocol", "reuse"}

Holds(r) == \E h \in tx : h.row = r
Held(k) == \E h \in tx : h.key = k
Renewed(k) == \E h \in tx : h.key = k /\ h.op # "remove"
RemovalPending(r) == \E h \in tx : h.row = r /\ h.op = "remove"

(* slips' when the handler does what the protocol forbids if broken, and   *)
(* when it is given row r.                                                 *)
Note(broken) == slips' = slips \union (IF broken THEN {"protocol"} ELSE {})
NoteTaken(r, broken) ==
  slips' = slips \union (IF RemovalPending(r) THEN {"reuse"} ELSE {})
                 \union (IF broken THEN {"protocol"} ELSE {})

Init ==
  /\ tbl = EmptyTable(CHOOSE k \in TunnelKey : TRUE, CHOOSE i \in Info : TRUE)
  /\ zero = Absent
  /\ tx = {}
  /\ mode = "open"
  /\ slips = {}

(* A new handle, which takes the place of those in gone on the lists.      *)
Join(h, gone) ==
  /\ tx' = (tx \ gone) \union {h}
  /\ UNCHANGED <<zero, mode>>

Take(t, r, k, op, gone, broken) ==
  /\ tbl' = t
  /\ Join([row |-> r, key |-> k, op |-> op], gone)
  /\ NoteTaken(r, broken)

-----------------------------------------------------------------------------
(* drb_setup and pdus_setup: get a key, get a row, fill it in.             *)
SetupTunnel(ip, v) ==
  LET a == tunnel_key_alloc(tbl, ip)
      b == tunnel_add(a.tbl, a.key)
  IN  /\ mode = "open"
      /\ KeyAvailable(tbl, ip)
      /\ b.row # NoRow
      /\ Take(Fill(b.tbl, b.row, v), b.row, a.key, "add", {}, FALSE)

(* The table is full: the key that was picked is dropped, its id skipped.  *)
SetupFails(ip) ==
  LET a == tunnel_key_alloc(tbl, ip)
      b == tunnel_add(a.tbl, a.key)
  IN  /\ mode = "open"
      /\ KeyAvailable(tbl, ip)
      /\ b.row = NoRow
      /\ tbl' = b.tbl
      /\ UNCHANGED <<zero, tx, mode, slips>>

(* The caller has a row, old, on a list and modifies the tunnel whose key  *)
(* is in it.  The new version takes the place of old there.                *)
OldHandles(old) == {h \in tx : h.row = old}
OffProtocol(old) == tbl.hash[tbl.key[old]] # old \/ Held(tbl.key[old])

(* pdus_modify copies the fields of the old version it means to keep.      *)
ModifyTunnel(old, v) ==
  LET k == tbl.key[old]
      b == tunnel_modify(tbl, k)
  IN  /\ mode = "open"
      /\ b.row # NoRow
      /\ Take(Fill(b.tbl, b.row, v), b.row, k, "modify",
              OldHandles(old), OffProtocol(old))

(* drb_modify copies the whole of the old row, is_row_used included.       *)
CopyTunnel(old) ==
  LET k == tbl.key[old]
      b == tunnel_modify(tbl, k)
      t == Fill(b.tbl, b.row, b.tbl.info[old])
  IN  /\ mode = "open"
      /\ b.row # NoRow
      /\ Take(SetUsed(t, b.row, b.tbl.used[old]), b.row, k, "modify",
              OldHandles(old), OffProtocol(old))

(* tunnel_remove gets the key that is in a row of a list.  Removing once   *)
(* more what has been removed changes nothing.                             *)
RemoveTunnel(old) ==
  LET k == tbl.key[old]
      h == [row |-> old, key |-> k, op |-> "remove"]
  IN  /\ mode = "open"
      /\ tbl.hash[k] # NoRow
      /\ tbl' = tunnel_remove(tbl, k)
      /\ Note(tbl.hash[k] # old \/ Renewed(k))
      /\ tx' = IF tbl.hash[k] = old THEN tx \union {h} ELSE tx
      /\ UNCHANGED <<zero, mode>>

(* rte_hash gives position 0 to some key that enters while it is free, and *)
(* the key keeps it until it leaves.                                       *)
PlaceKeys(t) ==
  LET stays == zero # Absent /\ t.hash[zero] # NoRow
      new   == {k \in TunnelKey : tbl.hash[k] = NoRow /\ t.hash[k] # NoRow}
  IN  IF stays THEN zero' = zero ELSE zero' \in new \union {Absent}

(* A session none of whose DRBs could be set up is removed, which does not *)
(* find its key, and committed in the middle of the handler.               *)
GiveUp(h) ==
  LET t == tunnel_commit(tunnel_remove(tbl, h.key), h.row)
  IN  /\ mode = "open" /\ h.op = "add"
      /\ tbl' = t
      /\ PlaceKeys(t)
      /\ tx' = tx \ {h}
      /\ UNCHANGED <<mode, slips>>

Decide(m) ==
  /\ mode = "open"
  /\ mode' = m
  /\ UNCHANGED <<tbl, zero, tx, slips>>

CommitTunnel(h) ==
  LET t == tunnel_commit(tbl, h.row)
  IN  /\ mode = "commit"
      /\ tbl' = t
      /\ PlaceKeys(t)
      /\ tx' = tx \ {h}
      /\ UNCHANGED <<mode, slips>>

RollbackTunnel(h) ==
  /\ mode = "rollback"
  /\ tbl' = tunnel_rollback(tbl, h.row)
  /\ tx' = tx \ {h}
  /\ UNCHANGED <<zero, mode, slips>>

(* The other rows on the lists: tunnels that were left alone, those that   *)
(* come a second time, and what the lists have kept of rows given back.    *)
CommitOther(r) ==
  LET t == tunnel_commit(tbl, r)
  IN  /\ mode = "commit" /\ ~Holds(r)
      /\ tbl' = t
      /\ PlaceKeys(t)
      /\ Note(~tbl.used[r])
      /\ UNCHANGED <<tx, mode>>

RollbackOther(r) ==
  /\ mode = "rollback" /\ ~Holds(r)
  /\ tbl' = tunnel_rollback(tbl, r)
  /\ UNCHANGED <<zero, tx, mode, slips>>

(* The handler is through with its lists.                                  *)
Close ==
  /\ mode # "open" /\ tx = {}
  /\ mode' = "open"
  /\ UNCHANGED <<tbl, zero, tx, slips>>

Next ==
  \/ \E ip \in LocalIps : \/ \E v \in Info : SetupTunnel(ip, v)
                          \/ SetupFails(ip)
  \/ \E r \in Rows : \/ \E v \in Info : ModifyTunnel(r, v)
                     \/ CopyTunnel(r)
                     \/ RemoveTunnel(r)
                     \/ CommitOther(r)
                     \/ RollbackOther(r)
  \/ \E m \in {"commit", "rollback"} : Decide(m)
  \/ \E h \in tx : GiveUp(h) \/ CommitTunnel(h) \/ RollbackTunnel(h)
  \/ Close

Spec == Init /\ [][Next]_vars

(* What a worker's look-up returns: a hit counts only at position 0.       *)
tunnel_get(k) == IF zero = k THEN tbl.hash[k] ELSE NoRow

-----------------------------------------------------------------------------

TypeOK ==
  /\ tbl \in Table
  /\ zero \in TunnelKey \union {Absent}
  /\ tx \subseteq Handle
  /\ mode \in {"open", "commit", "rollback"}
  /\ slips \subseteq Slip

(* Nobody has left the protocol, and no removed row was given out again.   *)
Kept == slips = {}

(* A key the hash knows leads to a row that carries that very key: no      *)
(* look-up of one tunnel ever returns another one's row, and therefore no  *)
(* row is reachable under two keys (tunnel_get, tunnel_commit).            *)
KeyMatchesRow ==
  Kept => \A k \in TunnelKey : tbl.hash[k] # NoRow => tbl.key[tbl.hash[k]] = k

(* A committed tunnel keeps its row marked used, so tunnel_alloc cannot    *)
(* hand it out, unless the running handler has itself removed it.          *)
CommittedRowInUse ==
  Kept => \A k \in TunnelKey : tbl.hash[k] # NoRow =>
    tbl.used[tbl.hash[k]] = ~RemovalPending(tbl.hash[k])

(* Every used row is committed or held by the running handler: as long as  *)
(* the protocol is kept, commit and rollback give back exactly the rows    *)
(* that are no longer needed, also when a set-up was given up half-way.    *)
NoRowLeak ==
  Kept => \A r \in Rows : tbl.used[r] => tbl.hash[tbl.key[r]] = r \/ Holds(r)

(* What a handler may rely on about the rows it holds: no two of them are  *)
(* the same row, a row it removed is still the one its key leads to, and a *)
(* row it added or changed is in use and not reachable yet.  It is from    *)
(* these facts that commit and rollback can tell the three cases apart.    *)
HandlesSound ==
  Kept => \A h \in tx :
    /\ tbl.key[h.row] = h.key
    /\ h.op = "remove" => tbl.hash[h.key] = h.row
    /\ h.op # "remove" => tbl.used[h.row] /\ tbl.hash[h.key] # h.row
    /\ \A g \in tx : (g.row = h.row \/ (h.op = "remove" /\ g.key = h.key))
                     => g = h

(* The inductive invariant.                                                *)
TableInv == TypeOK /\ KeyMatchesRow /\ CommittedRowInUse /\ NoRowLeak /\ HandlesSound

(* tunnel_key_alloc reserves nothing, yet two new tunnels of one handler   *)
(* do not get the same key as long as the protocol is kept: the id only    *)
(* comes round again after the search has passed every other id, and by    *)
(* then every row is taken.                                                *)
UniqueNewKeys ==
  Kept => \A h, g \in tx : h.op = "add" /\ g.key = h.key => g = h

(* As long as the protocol is kept, a row that the hash points to is never *)
(* written: new versions go to rows no reader can reach, so a worker that  *)
(* holds a pointer it looked up sees stable contents at least until a      *)
(* commit withdraws the row.                                               *)
CommittedRowsFrozen ==
  [][slips' = {} => \A k \in TunnelKey : tbl.hash[k] # NoRow =>
       LET r == tbl.hash[k]
       IN  tbl'.key[r] = tbl.key[r] /\ tbl'.info[r] = tbl.info[r]]_vars

(* Callers that keep their side of the protocol free a key for             *)
(* tunnel_key_alloc by committing its removal: "tunnel key freeing is now  *)
(* done in tunnel remove" (tunnel.c:139).                                  *)
RemovalFreesKey ==
  [][\A h \in tx : mode = "commit" /\ h \notin tx' /\ h.op = "remove"
       => "protocol" \in slips \/ tbl'.hash[h.key] = NoRow]_vars

(***************************************************************************)
(* The table implements the store of TunnelStore: the value of a key is    *)
(* the contents of the row the hash points to, a reader finds the keys     *)
(* tunnel_get returns a row for, and a row the handler holds is a          *)
(* workspace.                                                              *)
(***************************************************************************)
StoreValue == [k \in TunnelKey |->
  IF tbl.hash[k] = NoRow THEN Absent ELSE tbl.info[tbl.hash[k]]]

StoreSeen == {k \in TunnelKey : tunnel_get(k) # NoRow}

StagedAt(info, held, r) ==
  IF \E h \in held : h.row = r
  THEN LET h == CHOOSE h \in held : h.row = r
       IN  [key |-> h.key, val |-> IF h.op = "remove" THEN Absent ELSE info[r]]
  ELSE [key |-> Absent, val |-> Absent]

StoreWork == [r \in Rows |-> StagedAt(tbl.info, tx, r)]

Store == INSTANCE TunnelStore
           WITH Keys <- TunnelKey, Values <- Info, Absent <- Absent,
                Workspaces <- Rows,
                store <- StoreValue, seen <- StoreSeen, work <- StoreWork,
                mode <- mode, broken <- ~Kept

(* Until the protocol is left, readers see every transaction as            *)
(* TunnelStore says: one key at a time, old value to new value, and        *)
(* nothing at all when it is rolled back.                                  *)
ImplementsStore == Store!StoreSpec
=============================================================================
