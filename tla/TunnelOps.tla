----------------------------- MODULE TunnelOps -----------------------------
(***************************************************************************)
(* The operations of the tunnel table (tunnel.c) as functions on a table   *)
(* value, so that the table's own specification (TunnelTable) and the E1AP *)
(* handlers that string several of them together (Bearer) share one        *)
(* translation of the code.                                                *)
(*                                                                         *)
(* A table is a record                                                     *)
(*   used      is_row_used of every row of tunnel_table_g                  *)
(*   key       the (ip_addr, te_id) pair stored in the row                 *)
(*   info      the rest of the row, which tunnel.c never looks at          *)
(*   hash      tunnel_hashtable_g: the row every committed key points to   *)
(*   lastSlot  last_allocated_slot_g                                       *)
(*   lastId    last_assigned_id_g                                          *)
(*                                                                         *)
(* An operation returns a record with the new table in field "tbl" and the *)
(* row (or NoRow for a NULL pointer) or the return value beside it.        *)
(***************************************************************************)
EXTENDS CyclicScan

CONSTANTS
  MAX_TUNNEL_COUNT,   \* rows of the table, and also the number of tunnel ids
  LocalIps,           \* the local addresses a tunnel can be terminated on
  Info,               \* what a caller writes into a row
  NoRow               \* the NULL tunnel_t pointer

ASSUME TunnelCountAssumption == MAX_TUNNEL_COUNT \in Nat \ {0}
ASSUME NonEmptyAssumption == LocalIps # {} /\ Info # {}
ASSUME NoRowAssumption == NoRow \notin 0 .. MAX_TUNNEL_COUNT - 1

Rows == 0 .. MAX_TUNNEL_COUNT - 1
TunnelKey == [ip_addr : LocalIps, te_id : Rows]

Table == [used : [Rows -> BOOLEAN], key : [Rows -> TunnelKey],
          info : [Rows -> Info], hash : [TunnelKey -> Rows \union {NoRow}],
          lastSlot : Rows, lastId : Rows]

(* The table tunnel_table_init leaves: an empty hash and no row in use.    *)
EmptyTable(key0, info0) ==
  [used |-> [r \in Rows |-> FALSE], key |-> [r \in Rows |-> key0],
   info |-> [r \in Rows |-> info0], hash |-> [k \in TunnelKey |-> NoRow],
   lastSlot |-> 0, lastId |-> 0]

(* The writes the code makes to a table: the flag of a row, what the       *)
(* caller fills in, the hash, and the row and the id a search ends on.     *)
SetUsed(t, r, b) == [t EXCEPT !.used = [@ EXCEPT ![r] = b]]
Fill(t, r, v) == [t EXCEPT !.info = [@ EXCEPT ![r] = v]]
SetHash(t, k, r) == [t EXCEPT !.hash = [@ EXCEPT ![k] = r]]
SetLastId(t, i) == [t EXCEPT !.lastId = i]
TakeRow(t, r, k) ==
  [t EXCEPT !.used = [@ EXCEPT ![r] = TRUE], !.key = [@ EXCEPT ![r] = k],
            !.lastSlot = r]

-----------------------------------------------------------------------------

FreeIds(t, ip) == {i \in Rows : t.hash[[ip_addr |-> ip, te_id |-> i]] = NoRow}
KeyAvailable(t, ip) == Candidates(t.lastId, FreeIds(t, ip)) # {}

(* Mutant: last_assigned_id_g is not advanced.                              *)
tunnel_key_alloc_Stuck(t, ip) ==
  [tbl |-> t, key |-> [ip_addr |-> ip,
                       te_id |-> NextInScan(MAX_TUNNEL_COUNT, t.lastId, FreeIds(t, ip))]]

(* The id is only looked up, not reserved: it stays free in the hash until *)
(* a row with this key is committed.                                       *)
tunnel_key_alloc(t, ip) ==
  LET id == NextInScan(MAX_TUNNEL_COUNT, t.lastId, FreeIds(t, ip))
  IN  [tbl |-> SetLastId(t, id), key |-> [ip_addr |-> ip, te_id |-> id]]

(* Mutant: is_row_used is not tested.                                      *)
FreeRows_Any(t) == Rows

FreeRows(t) == {r \in Rows : ~t.used[r]}
RowAvailable(t) == Candidates(t.lastSlot, FreeRows(t)) # {}

(* Mutant: the slot after the allocated one is remembered, without wrap.   *)
tunnel_alloc_NoWrap(t, k) ==
  LET r == NextInScan(MAX_TUNNEL_COUNT, t.lastSlot, FreeRows(t))
  IN  IF RowAvailable(t)
      THEN [tbl |-> [TakeRow(t, r, k) EXCEPT !.lastSlot = r + 1], row |-> r]
      ELSE [tbl |-> t, row |-> NoRow]

tunnel_alloc(t, k) ==
  LET r == NextInScan(MAX_TUNNEL_COUNT, t.lastSlot, FreeRows(t))
  IN  IF RowAvailable(t)
      THEN [tbl |-> TakeRow(t, r, k), row |-> r]
      ELSE [tbl |-> t, row |-> NoRow]

tunnel_add(t, k) ==
  IF t.hash[k] # NoRow THEN [tbl |-> t, row |-> NoRow] ELSE tunnel_alloc(t, k)

(* Mutant: the committed row itself is handed out to be changed.           *)
tunnel_modify_InPlace(t, k) == [tbl |-> t, row |-> t.hash[k]]

tunnel_modify(t, k) ==
  IF t.hash[k] = NoRow THEN [tbl |-> t, row |-> NoRow] ELSE tunnel_alloc(t, k)

(* Mutant: the key is deleted at once instead of by the commit.            *)
tunnel_remove_Early(t, k) ==
  IF t.hash[k] = NoRow THEN t
  ELSE SetHash(SetUsed(t, t.hash[k], FALSE), k, NoRow)

(* The key keeps its entry in the hash until the removal is committed.     *)
tunnel_remove(t, k) ==
  IF t.hash[k] = NoRow THEN t ELSE SetUsed(t, t.hash[k], FALSE)

(* Mutant: the row of the old version is not given back.                   *)
tunnel_commit_KeepsOld(t, nt) ==
  LET k == t.key[nt]
  IN  IF t.hash[k] # nt THEN SetHash(t, k, nt)
      ELSE IF t.used[nt] THEN t ELSE SetHash(t, k, NoRow)

(***************************************************************************)
(* tunnel_commit(nt) works out from the hash what nt is: a new tunnel (no  *)
(* entry under its key), a removed one (the entry is nt itself, unused),   *)
(* one that did not change, or the new version of the entry.               *)
(***************************************************************************)
tunnel_commit(t, nt) ==
  LET k     == t.key[nt]
      entry == t.hash[k]
  IN  IF entry = NoRow THEN SetHash(t, k, nt)
      ELSE IF entry # nt
           THEN SetHash(SetUsed(t, entry, FALSE), k, nt)
           ELSE IF t.used[nt] THEN t ELSE SetHash(t, k, NoRow)

(* tunnel_rollback(nt) makes the same distinction, and keeps the hash.     *)
tunnel_rollback(t, nt) ==
  LET entry == t.hash[t.key[nt]]
  IN  IF entry = nt THEN SetUsed(t, nt, TRUE)
      ELSE IF entry = NoRow \/ t.used[entry] THEN SetUsed(t, nt, FALSE)
      ELSE t
=============================================================================
