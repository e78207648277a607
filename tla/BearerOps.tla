----------------------------- MODULE BearerOps -----------------------------
(***************************************************************************)
(* UE contexts (ue_ctx.c) and what the E1AP handlers do to the tunnels of  *)
(* one context (drb.c, pdus.c), as functions on a tunnel table (TunnelOps) *)
(* and on a UE table.  A UE table is a record                              *)
(*   ctx       the rows of ue_ctx_table_g                                  *)
(*   hash      ue_ctx_hashtable_g: the row every committed UE id points to *)
(*   lastSlot  last_allocated_slot_g                                       *)
(*   lastId    last_assigned_id_g                                          *)
(*   zero      which id rte_hash stores at position 0 (see UeHashAdd)      *)
(* A context keeps two arrays of tunnel pointers with a count each; what   *)
(* lies beyond the count is left over from earlier use, and is read by the *)
(* code in places, so it is part of the state.                             *)
(***************************************************************************)
EXTENDS TunnelOps, SequencesExt

CONSTANTS
  MAX_UE_COUNT, MAX_PDUS_PER_UE, MAX_DRB_PER_UE,
  CucpIds,    \* the ids the CU-CP gives its UEs; 0 is in a row never used
  Ids,        \* what the byte of a row that keeps its id can hold
  DrbIds,     \* the DRB ids a request can carry
  F1uIp       \* the local address every DRB tunnel gets

ASSUME UeCountAssumption ==
  /\ MAX_UE_COUNT \in Nat \ {0}
  /\ NoRow \notin 0 .. MAX_UE_COUNT - 1
  /\ MAX_PDUS_PER_UE \in Nat \ {0} /\ MAX_DRB_PER_UE \in Nat \ {0}
  /\ MAX_PDUS_PER_UE <= MAX_DRB_PER_UE
ASSUME IdAssumption == 0 \in CucpIds /\ F1uIp \in LocalIps
ASSUME ContentAssumption == Info = [kind : {"pdus", "drb"}, id : Ids]

(* A row keeps its id in one byte of a union: a PDU session's id is the    *)
(* whole byte (pdus_id:8), a DRB's its five low bits (drb_id:5), and the   *)
(* three others stay when a DRB's id is written.  The kind is the one the  *)
(* row was last written as.  What an answer says of a row has the id as it *)
(* is read back, so that a DRB with id 32 is announced as DRB 0.           *)
DrbId(byte) == byte % 32
WithDrbId(byte, id) == 32 * (byte \div 32) + DrbId(id)
Told(v) == IF v.kind = "drb" THEN [v EXCEPT !.id = DrbId(@)] ELSE v

ASSUME ByteAssumption ==
  /\ 0 \in Ids /\ Ids \subseteq 0 .. 255 /\ DrbIds \subseteq 0 .. 255
  /\ \A byte \in Ids, id \in DrbIds : WithDrbId(byte, id) \in Ids

UeRows == 0 .. MAX_UE_COUNT - 1
UeIds == UeRows
RowOrNull == Rows \union {NoRow}

(* What position 0 of the hash is while no id occupies it (see UeHashAdd). *)
NextFree == MAX_UE_COUNT
LastFree == MAX_UE_COUNT + 1

UeCtx == [used : BOOLEAN, cuup : UeIds, cucp : CucpIds,
          pdusCount : 0 .. MAX_PDUS_PER_UE, drbCount : 0 .. MAX_DRB_PER_UE,
          pdus : [1 .. MAX_PDUS_PER_UE -> RowOrNull],
          drb : [1 .. MAX_DRB_PER_UE -> RowOrNull]]

UeTable == [ctx : [UeRows -> UeCtx], hash : [UeIds -> UeRows \union {NoRow}],
            lastSlot : UeRows, lastId : UeRows,
            zero : 0 .. LastFree]

(* Static storage is zero, and ue_ctx_table_init only clears is_row_used.  *)
EmptyUeTable ==
  [ctx |-> [r \in UeRows |->
     [used |-> FALSE, cuup |-> 0, cucp |-> 0, pdusCount |-> 0, drbCount |-> 0,
      pdus |-> [i \in 1 .. MAX_PDUS_PER_UE |-> NoRow],
      drb |-> [i \in 1 .. MAX_DRB_PER_UE |-> NoRow]]],
   hash |-> [i \in UeIds |-> NoRow], lastSlot |-> 0, lastId |-> 0,
   zero |-> NextFree]

Pdus(c) == SubSeq(c.pdus, 1, c.pdusCount)
Drbs(c) == SubSeq(c.drb, 1, c.drbCount)

(* What is not overwritten of an array stays in it.                        *)
Overwritten(array, list) == list \o SubSeq(array, Len(list) + 1, Len(array))

-----------------------------------------------------------------------------
(* The rte_hash behind the UE table gives every key a position, and        *)
(* ue_ctx_get takes a hit for a miss unless the position is 0.  Positions  *)
(* are handed out in order and given back to the end of the queue, and no  *)
(* key is deleted unless some key is at position 0; so it is enough to     *)
(* know whether position 0 is the next free one, the last free one, or a   *)
(* key's.                                                                  *)
UeHashAdd(u, id, r) ==
  LET others == {i \in UeIds \ {id} : u.hash[i] = NoRow}
      getsZero == u.hash[id] = NoRow /\ (u.zero = NextFree \/ (u.zero = LastFree /\ others = {}))
  IN  [u EXCEPT !.hash[id] = r, !.zero = IF getsZero THEN id ELSE @]

UeHashDel(u, id) ==
  [u EXCEPT !.hash[id] = NoRow, !.zero = IF @ = id THEN LastFree ELSE @]

FreeUeIds(u) == {i \in UeIds : u.hash[i] = NoRow}
UeIdAvailable(u) == Candidates(u.lastId, FreeUeIds(u)) # {}

ue_ctx_id_alloc(u) ==
  LET id == NextInScan(MAX_UE_COUNT, u.lastId, FreeUeIds(u))
  IN  [ues |-> [u EXCEPT !.lastId = id], id |-> id]

(* Mutant: is_row_used is not tested.                                      *)
FreeUeRows_Any(u) == UeRows

FreeUeRows(u) == {r \in UeRows : ~u.ctx[r].used}
UeRowAvailable(u) == Candidates(u.lastSlot, FreeUeRows(u)) # {}

(* Mutant: the slot after the allocated one is remembered, without wrap.   *)
ue_ctx_alloc_NoWrap(u, id) ==
  LET r == NextInScan(MAX_UE_COUNT, u.lastSlot, FreeUeRows(u))
  IN  [ues |-> [u EXCEPT !.ctx[r].cuup = id, !.ctx[r].used = TRUE, !.lastSlot = r + 1],
       row |-> r]

ue_ctx_alloc(u, id) ==
  LET r == NextInScan(MAX_UE_COUNT, u.lastSlot, FreeUeRows(u))
  IN  [ues |-> [u EXCEPT !.ctx[r].cuup = id, !.ctx[r].used = TRUE, !.lastSlot = r],
       row |-> r]

(* The pointers of the old version go to the new row, one by one, while    *)
(* the new row's own count runs up to the old row's: if both are the same  *)
(* row, nothing is left.  The CU-CP's id is not copied.                    *)
ue_ctx_modify(u, id) ==
  LET a   == ue_ctx_alloc(u, id)
      old == u.ctx[u.hash[id]]
  IN  IF a.row = u.hash[id]
      THEN [a EXCEPT !.ues.ctx[a.row].pdusCount = 0, !.ues.ctx[a.row].drbCount = 0]
      ELSE [a EXCEPT !.ues.ctx[a.row].pdusCount = old.pdusCount,
                     !.ues.ctx[a.row].drbCount = old.drbCount,
                     !.ues.ctx[a.row].pdus = Overwritten(@, Pdus(old)),
                     !.ues.ctx[a.row].drb = Overwritten(@, Drbs(old))]

(* The loops of tunnel_remove, tunnel_rollback and tunnel_commit calls go  *)
(* through both lists of a context and dereference every entry.  Sessions  *)
(* that were removed leave a NULL behind in their list; the DRB list never *)
(* has one below its count (see BearerInv in Bearer_proofs).               *)
Missing(c) == \E i \in 1 .. c.pdusCount : c.pdus[i] = NoRow

RemoveOne(t, r) == tunnel_remove(t, t.key[r])
RemoveAll(t, list) == FoldLeft(RemoveOne, t, list)
RollbackAll(t, list) == FoldLeft(tunnel_rollback, t, list)

ue_ctx_remove(t, u, id) ==
  LET r == u.hash[id]
  IN  [tbl |-> RemoveAll(t, Pdus(u.ctx[r]) \o Drbs(u.ctx[r])),
       ues |-> [u EXCEPT !.ctx[r].used = FALSE]]

(* Commit the first n tunnels of a list; those that had been removed leave *)
(* a NULL behind.                                                          *)
Positions(n) == [i \in 1 .. n |-> i]
CommitOne(s, i) ==
  LET c == tunnel_commit(s.tbl, s.list[i])
  IN  [tbl |-> c,
       list |-> IF c.used[s.list[i]] THEN s.list ELSE [s.list EXCEPT ![i] = NoRow]]
CommitList(t, list, n) ==
  FoldLeft(CommitOne, [tbl |-> t, list |-> list], Positions(n))

(* One packing loop: the entries that are not NULL, in their order.        *)
PackOne(s, r) == IF r = NoRow THEN s ELSE Append(s, r)
Present(list, n) == FoldLeft(PackOne, <<>>, SubSeq(list, 1, n))

(* Mutant: the row of the old version is not given back.                   *)
UeHashCommit_KeepsOld(u, r) ==
  LET id == u.ctx[r].cuup
  IN  IF u.hash[id] = r
      THEN IF u.ctx[r].used THEN u ELSE UeHashDel(u, id)
      ELSE UeHashAdd(u, id, r)

(* The end of ue_ctx_commit: new, removed, unchanged or modified context.  *)
UeHashCommit(u, r) ==
  LET id    == u.ctx[r].cuup
      entry == u.hash[id]
  IN  IF entry = NoRow THEN UeHashAdd(u, id, r)
      ELSE IF entry # r THEN UeHashAdd([u EXCEPT !.ctx[entry].used = FALSE], id, r)
      ELSE IF u.ctx[r].used THEN u ELSE UeHashDel(u, id)

(* The second packing loop tests and copies drb_tunnel_list where it is    *)
(* the PDU session list that is to be packed, and leaves pdus_count alone. *)
ue_ctx_commit(t, u, r) ==
  LET c    == u.ctx[r]
      d    == CommitList(t, c.drb, c.drbCount)
      kept == Present(d.list, c.drbCount)
      drb  == Overwritten(d.list, kept)
      p    == CommitList(d.tbl, c.pdus, c.pdusCount)
      new  == [c EXCEPT !.drb = drb, !.drbCount = Len(kept),
                        !.pdus = Overwritten(p.list, Present(drb, c.pdusCount))]
  IN  [tbl |-> p.tbl, ues |-> UeHashCommit([u EXCEPT !.ctx[r] = new], r)]

(* Mutant: the row of the old version is freed instead of the new one.     *)
ue_ctx_rollback_FreesOld(t, u, r) ==
  LET entry == u.hash[u.ctx[r].cuup]
  IN  [tbl |-> t, ues |-> [u EXCEPT !.ctx[entry].used = FALSE]]

(* For a context that ue_ctx_modify made, it is the tunnels of the old     *)
(* version that are rolled back.                                           *)
ue_ctx_rollback(t, u, r) ==
  LET c     == u.ctx[r]
      entry == u.hash[c.cuup]
      Undo(x) == RollbackAll(t, Pdus(x) \o Drbs(x))
      Free(b) == [u EXCEPT !.ctx[r].used = b]
  IN  IF entry = r
      THEN IF c.used THEN [tbl |-> t, ues |-> u]
           ELSE [tbl |-> Undo(c), ues |-> Free(TRUE)]
      ELSE IF u.ctx[entry].used THEN [tbl |-> Undo(u.ctx[entry]), ues |-> Free(FALSE)]
      ELSE [tbl |-> t, ues |-> u]

-----------------------------------------------------------------------------
(***************************************************************************)
(* Work on the tunnels of one context.  A handler in progress is a record  *)
(*   tbl      the tunnel table                                             *)
(*   ctx      the context it builds                                        *)
(*   granted  the tunnels its response announces to the CU-CP              *)
(*   dead     it has dereferenced a pointer that is none                   *)
(***************************************************************************)
Grant(key, info) == [key |-> key, info |-> info]

(* A search of a list, in which every row is read as a session or every    *)
(* row as a DRB, stops at the first one with the id, or at a NULL entry,   *)
(* which it dereferences; 0 is a search without a result.                  *)
AsPdus(t) == [r \in Rows |-> t.info[r].id]
AsDrbs(t) == [r \in Rows |-> DrbId(t.info[r].id)]
Search(read, list, id) ==
  LET stops == {j \in DOMAIN list : list[j] = NoRow \/ read[list[j]] = id}
  IN  IF stops = {} THEN 0 ELSE CHOOSE j \in stops : \A i \in stops : j <= i
Dies(list, j) == j # 0 /\ list[j] = NoRow

(* Mutant: the DRBs of the context are not searched for the id.            *)
drb_setup_Duplicates(w, id) ==
  LET a == tunnel_key_alloc(w.tbl, F1uIp)
      b == tunnel_add(a.tbl, a.key)
      v == [kind |-> "drb", id |-> WithDrbId(b.tbl.info[b.row].id, id)]
  IN  IF w.ctx.drbCount = MAX_DRB_PER_UE \/ ~KeyAvailable(w.tbl, F1uIp) THEN w
      ELSE IF b.row = NoRow THEN [w EXCEPT !.tbl = b.tbl]
      ELSE [w EXCEPT !.tbl = Fill(b.tbl, b.row, v),
                     !.ctx.drb[w.ctx.drbCount + 1] = b.row,
                     !.ctx.drbCount = @ + 1,
                     !.granted = @ \union {Grant(a.key, Told(v))}]

(* The id a row holds in five bits is compared with all of the request's,  *)
(* so that an id from 32 on is never found.                                *)
drb_setup(w, id) ==
  LET a == tunnel_key_alloc(w.tbl, F1uIp)
      b == tunnel_add(a.tbl, a.key)
      v == [kind |-> "drb", id |-> WithDrbId(b.tbl.info[b.row].id, id)]
  IN  IF \/ w.ctx.drbCount = MAX_DRB_PER_UE
         \/ Search(AsDrbs(w.tbl), Drbs(w.ctx), id) # 0
         \/ ~KeyAvailable(w.tbl, F1uIp)
      THEN w
      ELSE IF b.row = NoRow THEN [w EXCEPT !.tbl = b.tbl]
      ELSE [w EXCEPT !.tbl = Fill(b.tbl, b.row, v),
                     !.ctx.drb[w.ctx.drbCount + 1] = b.row,
                     !.ctx.drbCount = @ + 1,
                     !.granted = @ \union {Grant(a.key, Told(v))}]

(* The new version is a copy of the whole old row, is_row_used included.   *)
drb_modify(w, j) ==
  LET old == w.ctx.drb[j]
      b   == tunnel_modify(w.tbl, w.tbl.key[old])
      t   == Fill(b.tbl, b.row, b.tbl.info[old])
  IN  IF b.row = NoRow THEN w
      ELSE [w EXCEPT !.tbl = SetUsed(t, b.row, b.tbl.used[old]),
                     !.ctx.drb[j] = b.row]

(* Mutant: the new session is not entered in the context's list.           *)
SessionSetup_Unlisted(w, q, key, row) ==
  LET v == [kind |-> "pdus", id |-> q.id]
      s == FoldLeft(drb_setup, [w EXCEPT !.tbl = Fill(@, row, v)], q.drbs)
  IN  [s EXCEPT !.granted = @ \union {Grant(key, v)}]

(* What pdus_setup does once the request is found to be acceptable and a   *)
(* row is at hand.  A session of which no DRB can be set up has failed,    *)
(* and its id is logged as if it were a string: 0 is printed as (null) and *)
(* any other id is dereferenced.  What follows for 0 is that the tunnel is *)
(* removed, which does nothing to a key that is not in the hash, and is    *)
(* committed all the same.                                                 *)
SessionSetup(w, q, key, row) ==
  LET v == [kind |-> "pdus", id |-> q.id]
      s == FoldLeft(drb_setup, [w EXCEPT !.tbl = Fill(@, row, v)], q.drbs)
  IN  IF s.ctx.drbCount = w.ctx.drbCount
      THEN IF q.id # 0 THEN [s EXCEPT !.dead = TRUE]
           ELSE [s EXCEPT !.tbl = tunnel_commit(tunnel_remove(@, key), row)]
      ELSE [s EXCEPT !.ctx.pdus[w.ctx.pdusCount + 1] = row,
                     !.ctx.pdusCount = @ + 1,
                     !.granted = @ \union {Grant(key, v)}]

pdus_setup(w, q) ==
  LET n == Search(AsPdus(w.tbl), Pdus(w.ctx), q.id)
      a == tunnel_key_alloc(w.tbl, q.ip)
      b == tunnel_add(a.tbl, a.key)
      full == w.ctx.pdusCount = MAX_PDUS_PER_UE
  IN  IF w.dead \/ (~full /\ Dies(w.ctx.pdus, n)) THEN [w EXCEPT !.dead = TRUE]
      ELSE IF full \/ n # 0 \/ q.ip \notin LocalIps \/ ~KeyAvailable(w.tbl, q.ip) THEN w
      ELSE IF b.row = NoRow THEN [w EXCEPT !.tbl = b.tbl]
      ELSE SessionSetup([w EXCEPT !.tbl = b.tbl], q, a.key, b.row)

(* The removal loop has its indices swapped: it takes the i-th DRB of the  *)
(* context, for i up to the length of the removal list, and looks for its  *)
(* id among the first drb_count entries of that list, an array of the      *)
(* request, which is taken to hold 0 where nothing was filled in.          *)
RemovalEntry(ids, j) == IF j <= Len(ids) THEN ids[j] ELSE 0
DrbRemoval(s, ids, i) ==
  LET r == s.ctx.drb[i]
  IN  IF s.ctx.drbCount = 0 \/ s.dead THEN s
      ELSE IF r = NoRow THEN [s EXCEPT !.dead = TRUE]
      ELSE IF \E j \in 1 .. s.ctx.drbCount : RemovalEntry(ids, j) = DrbId(s.tbl.info[r].id)
           THEN [s EXCEPT !.tbl = tunnel_remove(@, @.key[r])]
           ELSE s
DrbRemovals(w, ids) ==
  FoldLeft(LAMBDA s, i : DrbRemoval(s, ids, i), w, Positions(Len(ids)))

DrbModification(s, id) ==
  LET j == Search(AsDrbs(s.tbl), Drbs(s.ctx), id)
  IN  IF j = 0 THEN s ELSE drb_modify(s, j)
DrbModifications(w, ids) == FoldLeft(DrbModification, w, ids)

pdus_modify(w, q, i) ==
  LET old == w.ctx.pdus[i]
      b   == tunnel_modify(w.tbl, w.tbl.key[old])
      s1  == DrbRemovals([w EXCEPT !.tbl = Fill(b.tbl, b.row, b.tbl.info[old])], q.remove)
      s2  == FoldLeft(drb_setup, DrbModifications(s1, q.modify), q.setup)
  IN  IF b.row = NoRow THEN w
      ELSE IF s1.dead THEN s1
      ELSE [s2 EXCEPT !.ctx.pdus[i] = b.row]

(* The removal and the modification list of a modify request: what is not  *)
(* in the context is skipped.                                              *)
PdusRemoval(s, id) ==
  LET j == Search(AsPdus(s.tbl), Pdus(s.ctx), id)
  IN  IF s.dead \/ Dies(s.ctx.pdus, j) THEN [s EXCEPT !.dead = TRUE]
      ELSE IF j = 0 THEN s
      ELSE [s EXCEPT !.tbl = tunnel_remove(@, @.key[s.ctx.pdus[j]])]
PdusRemovals(w, ids) == FoldLeft(PdusRemoval, w, ids)

PdusModification(s, q) ==
  LET j == Search(AsPdus(s.tbl), Pdus(s.ctx), q.id)
  IN  IF s.dead \/ Dies(s.ctx.pdus, j) THEN [s EXCEPT !.dead = TRUE]
      ELSE IF j = 0 THEN s
      ELSE pdus_modify(s, q, j)
PdusModifications(w, list) == FoldLeft(PdusModification, w, list)
=============================================================================
