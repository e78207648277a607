------------------------- MODULE TunnelTable_proofs -------------------------
(***************************************************************************)
(* Theorems about the tunnel table for every number of rows, every set of  *)
(* local addresses and every set of contents.  None of them assumes that   *)
(* the callers keep the protocol: the properties themselves say that they  *)
(* hold until somebody has left it (Kept).                                 *)
(***************************************************************************)
EXTENDS TunnelTable, WellFoundedInduction, FiniteSetTheorems, TLAPS

(***************************************************************************)
(* What each operation of TunnelOps returns, as an equation that no longer *)
(* mentions the cyclic search, and that it returns a table.                *)
(***************************************************************************)
(* The distance the search walks is a natural number.                      *)
LEMMA AheadType ==
  ASSUME NEW n \in Nat \ {0}, NEW from \in 0 .. n - 1, NEW to \in 0 .. n - 1
  PROVE  Ahead(n, from, to) \in Nat
<1>1. to - from + n \in Nat
  OBVIOUS
<1>2. QED BY <1>1, SMT DEF Ahead

(* Every non-empty set of natural numbers has a least element.             *)
LEMMA LeastNatural ==
  ASSUME NEW S \in SUBSET Nat, S # {}
  PROVE  \E x \in S : \A y \in S : x <= y
<1> DEFINE Less == {p \in Nat \X Nat : p[1] < p[2]}
<1>1. IsWellFoundedOn(Less, Nat)
  BY NatLessThanWellFounded, Zenon DEF OpToRel
<1>2. \E x \in S : \A y \in S : <<y, x>> \notin Less
  <2> HIDE DEF Less
  <2> QED BY <1>1, WFMin
<1>3. \A x, y \in S : <<y, x>> \notin Less => x <= y
  <2> SUFFICES ASSUME NEW x \in Nat, NEW y \in Nat, ~(y < x)
               PROVE  x <= y
    OBVIOUS
  <2> QED OBVIOUS
<1>4. QED BY <1>2, <1>3

(* A search that has a candidate ends on one: it looks at the candidate    *)
(* closest ahead of the last hit, and there is a closest one.              *)
LEMMA NextInScanFound ==
  ASSUME NEW n \in Nat \ {0}, NEW last \in 0 .. n - 1,
         NEW S \in SUBSET (0 .. n - 1), Candidates(last, S) # {}
  PROVE  /\ NextInScan(n, last, S) \in S \ {last}
         /\ \A j \in S \ {last} :
              Ahead(n, last, NextInScan(n, last, S)) <= Ahead(n, last, j)
<1> DEFINE D == {Ahead(n, last, i) : i \in Candidates(last, S)}
<1>1. D \in SUBSET Nat /\ D # {}
  BY AheadType DEF Candidates
<1>2. PICK d \in D : \A e \in D : d <= e
  <2> HIDE DEF D
  <2> QED BY <1>1, LeastNatural
<1>3. PICK i \in Candidates(last, S) : d = Ahead(n, last, i)
  OBVIOUS
<1>4. \A j \in Candidates(last, S) : Ahead(n, last, i) <= Ahead(n, last, j)
  BY <1>2, <1>3
<1>5. /\ NextInScan(n, last, S) \in Candidates(last, S)
      /\ \A j \in Candidates(last, S) :
           Ahead(n, last, NextInScan(n, last, S)) <= Ahead(n, last, j)
  BY <1>4 DEF NextInScan
<1>6. QED BY <1>5 DEF Candidates

-----------------------------------------------------------------------------
(***************************************************************************)
(* How far a search has come.  The ids it has passed since it hit one of   *)
(* them are an arc of the circle; it comes back to that one only when the  *)
(* arc is the whole circle.                                                *)
(***************************************************************************)
LEMMA AheadValue ==
  ASSUME NEW n \in Nat \ {0}, NEW from \in 0 .. n - 1, NEW to \in 0 .. n - 1
  PROVE  Ahead(n, from, to) = IF from <= to THEN to - from ELSE to - from + n
BY DEF Ahead

(* The ids from one to another, both included, in the order of the search. *)
Arc(n, from, to) == {i \in 0 .. n - 1 : Ahead(n, from, i) <= Ahead(n, from, to)}

(* An arc holds its end.                                                   *)
LEMMA ArcEnd ==
  ASSUME NEW n \in Nat \ {0}, NEW from \in 0 .. n - 1, NEW to \in 0 .. n - 1
  PROVE  to \in Arc(n, from, to)
<1>1. Ahead(n, from, to) \in Nat
  BY AheadType
<1>2. QED BY <1>1 DEF Arc

(* The arc from an id to itself holds nothing else.                        *)
LEMMA ArcOfOne ==
  ASSUME NEW n \in Nat \ {0}, NEW from \in 0 .. n - 1, NEW i \in 0 .. n - 1,
         Ahead(n, from, i) <= Ahead(n, from, from)
  PROVE  i = from
<1>1. Ahead(n, from, from) = 0
  BY AheadValue
<1>2. Ahead(n, from, i) = IF from <= i THEN i - from ELSE i - from + n
  BY AheadValue
<1>3. QED BY <1>1, <1>2

(* A search that goes on from the end of an arc adds to it what it passes. *)
LEMMA ArcGrows ==
  ASSUME NEW n \in Nat \ {0}, NEW from \in 0 .. n - 1, NEW last \in 0 .. n - 1,
         NEW to \in 0 .. n - 1, NEW i \in Arc(n, from, to)
  PROVE  \/ i \in Arc(n, from, last) \/ i = to
         \/ Ahead(n, last, i) < Ahead(n, last, to)
<1>1. i \in 0 .. n - 1 /\ Ahead(n, from, i) <= Ahead(n, from, to)
  BY DEF Arc
<1>2. /\ Ahead(n, from, i) = IF from <= i THEN i - from ELSE i - from + n
      /\ Ahead(n, from, to) = IF from <= to THEN to - from ELSE to - from + n
      /\ Ahead(n, from, last) = IF from <= last THEN last - from ELSE last - from + n
      /\ Ahead(n, last, i) = IF last <= i THEN i - last ELSE i - last + n
      /\ Ahead(n, last, to) = IF last <= to THEN to - last ELSE to - last + n
  BY <1>1, AheadValue
<1>3. i \in Arc(n, from, last) <=> Ahead(n, from, i) <= Ahead(n, from, last)
  BY <1>1 DEF Arc
<1>4. QED BY <1>1, <1>2, <1>3

(* A search that ends where an arc begins has passed all that is outside.  *)
LEMMA ArcCloses ==
  ASSUME NEW n \in Nat \ {0}, NEW from \in 0 .. n - 1, NEW last \in 0 .. n - 1,
         NEW i \in 0 .. n - 1, from # last
  PROVE  i \in Arc(n, from, last) \/ Ahead(n, last, i) < Ahead(n, last, from)
<1>1. /\ Ahead(n, from, i) = IF from <= i THEN i - from ELSE i - from + n
      /\ Ahead(n, from, last) = IF from <= last THEN last - from ELSE last - from + n
      /\ Ahead(n, last, i) = IF last <= i THEN i - last ELSE i - last + n
      /\ Ahead(n, last, from) = IF last <= from THEN from - last ELSE from - last + n
  BY AheadValue
<1>2. i \in Arc(n, from, last) <=> Ahead(n, from, i) <= Ahead(n, from, last)
  BY DEF Arc
<1>3. QED BY <1>1, <1>2

(* Rows whose keys show every tunnel id are all the rows there are.        *)
LEMMA AllRowsTaken ==
  ASSUME NEW S \in SUBSET Rows, NEW id \in [Rows -> Rows],
         \A i \in Rows : \E r \in S : id[r] = i
  PROVE  S = Rows
<1> DEFINE f == [r \in S |-> id[r]]
<1>1. IsFiniteSet(Rows)
  BY FS_Interval, TunnelCountAssumption DEF Rows
<1>2. IsFiniteSet(S) /\ Cardinality(S) <= Cardinality(Rows)
      /\ (Cardinality(Rows) = Cardinality(S) => Rows = S)
  BY <1>1, FS_Subset
<1>3. f \in Surjection(S, Rows)
  BY DEF Surjection, Range
<1> HIDE DEF f
<1>4. Cardinality(Rows) <= Cardinality(S)
  BY <1>2, <1>3, FS_Surjection
<1>5. Cardinality(Rows) \in Nat /\ Cardinality(S) \in Nat
  BY <1>1, <1>2, FS_CardinalityType
<1>6. QED BY <1>2, <1>4, <1>5

-----------------------------------------------------------------------------

(* The five writes keep a table a table and touch the fields they name.    *)
LEMMA SetUsedFields ==
  ASSUME NEW t \in Table, NEW r \in Rows, NEW b \in BOOLEAN
  PROVE  /\ SetUsed(t, r, b) \in Table
         /\ SetUsed(t, r, b).used = [t.used EXCEPT ![r] = b]
         /\ SetUsed(t, r, b).key = t.key
         /\ SetUsed(t, r, b).info = t.info
         /\ SetUsed(t, r, b).hash = t.hash
BY DEF Table, SetUsed

LEMMA FillFields ==
  ASSUME NEW t \in Table, NEW r \in Rows, NEW v \in Info
  PROVE  /\ Fill(t, r, v) \in Table
         /\ Fill(t, r, v).used = t.used
         /\ Fill(t, r, v).key = t.key
         /\ Fill(t, r, v).info = [t.info EXCEPT ![r] = v]
         /\ Fill(t, r, v).hash = t.hash
BY DEF Table, Fill

LEMMA SetHashFields ==
  ASSUME NEW t \in Table, NEW k \in TunnelKey, NEW r \in Rows \union {NoRow}
  PROVE  /\ SetHash(t, k, r) \in Table
         /\ SetHash(t, k, r).used = t.used
         /\ SetHash(t, k, r).key = t.key
         /\ SetHash(t, k, r).info = t.info
         /\ SetHash(t, k, r).hash = [t.hash EXCEPT ![k] = r]
BY DEF Table, SetHash

LEMMA SetLastIdFields ==
  ASSUME NEW t \in Table, NEW i \in Rows
  PROVE  /\ SetLastId(t, i) \in Table
         /\ SetLastId(t, i).used = t.used
         /\ SetLastId(t, i).key = t.key
         /\ SetLastId(t, i).info = t.info
         /\ SetLastId(t, i).hash = t.hash
BY DEF Table, SetLastId

LEMMA TakeRowFields ==
  ASSUME NEW t \in Table, NEW r \in Rows, NEW k \in TunnelKey
  PROVE  /\ TakeRow(t, r, k) \in Table
         /\ TakeRow(t, r, k).used = [t.used EXCEPT ![r] = TRUE]
         /\ TakeRow(t, r, k).key = [t.key EXCEPT ![r] = k]
         /\ TakeRow(t, r, k).info = t.info
         /\ TakeRow(t, r, k).hash = t.hash
BY DEF Table, TakeRow

(* Only the two searches move the cursors.                                 *)
LEMMA CursorFields ==
  ASSUME NEW t \in Table, NEW r \in Rows, NEW k \in TunnelKey
  PROVE  /\ SetLastId(t, r).lastSlot = t.lastSlot /\ SetLastId(t, r).lastId = r
         /\ TakeRow(t, r, k).lastSlot = r /\ TakeRow(t, r, k).lastId = t.lastId
BY DEF Table, SetLastId, TakeRow

LEMMA FillCursors ==
  ASSUME NEW t \in Table, NEW r \in Rows, NEW v \in Info
  PROVE  Fill(t, r, v).lastSlot = t.lastSlot /\ Fill(t, r, v).lastId = t.lastId
BY DEF Table, Fill

(* The types of the fields.                                                *)
LEMMA TableFields ==
  ASSUME NEW t \in Table
  PROVE  /\ t.used \in [Rows -> BOOLEAN] /\ t.key \in [Rows -> TunnelKey]
         /\ t.info \in [Rows -> Info]
         /\ t.hash \in [TunnelKey -> Rows \union {NoRow}]
         /\ t.lastSlot \in Rows /\ t.lastId \in Rows
BY DEF Table

-----------------------------------------------------------------------------

(* tunnel_alloc returns either a full-table NULL and the table as it was,  *)
(* or a row that was free, and takes it for the key.                       *)
LEMMA AllocResult ==
  ASSUME NEW t \in Table, NEW k \in TunnelKey
  PROVE  LET b == tunnel_alloc(t, k)
         IN  \/ b.row = NoRow /\ b.tbl = t
             \/ /\ b.row \in Rows /\ ~t.used[b.row]
                /\ b.tbl = TakeRow(t, b.row, k)
<1> DEFINE r == NextInScan(MAX_TUNNEL_COUNT, t.lastSlot, FreeRows(t))
<1>1. CASE ~RowAvailable(t)
  BY <1>1 DEF tunnel_alloc
<1>2. CASE RowAvailable(t)
  <2>1. t.lastSlot \in Rows /\ FreeRows(t) \in SUBSET Rows
    BY TableFields DEF FreeRows
  <2>2. r \in FreeRows(t) \ {t.lastSlot}
    BY <1>2, <2>1, NextInScanFound, TunnelCountAssumption DEF RowAvailable, Rows
  <2>3. r \in Rows /\ ~t.used[r]
    BY <2>2 DEF FreeRows
  <2>4. /\ tunnel_alloc(t, k).row = r
        /\ tunnel_alloc(t, k).tbl = TakeRow(t, r, k)
    BY <1>2 DEF tunnel_alloc
  <2>5. QED BY <2>3, <2>4
<1>3. QED BY <1>1, <1>2

(* tunnel_key_alloc returns a key the hash does not know, and moves only   *)
(* last_assigned_id_g.                                                     *)
LEMMA KeyAllocResult ==
  ASSUME NEW t \in Table, NEW ip \in LocalIps, KeyAvailable(t, ip)
  PROVE  LET a == tunnel_key_alloc(t, ip)
         IN  /\ a.key \in TunnelKey /\ t.hash[a.key] = NoRow
             /\ \E i \in Rows : a.tbl = SetLastId(t, i)
<1> DEFINE id == NextInScan(MAX_TUNNEL_COUNT, t.lastId, FreeIds(t, ip))
<1>1. t.lastId \in Rows /\ FreeIds(t, ip) \in SUBSET Rows
  BY TableFields DEF FreeIds
<1>2. id \in FreeIds(t, ip)
  BY <1>1, NextInScanFound, TunnelCountAssumption DEF KeyAvailable, Rows
<1>3. /\ id \in Rows
      /\ t.hash[[ip_addr |-> ip, te_id |-> id]] = NoRow
  BY <1>2 DEF FreeIds
<1>4. /\ tunnel_key_alloc(t, ip).key = [ip_addr |-> ip, te_id |-> id]
      /\ tunnel_key_alloc(t, ip).tbl = SetLastId(t, id)
  BY DEF tunnel_key_alloc
<1>5. QED BY <1>3, <1>4 DEF TunnelKey

(* drb_setup's and pdus_setup's pair of calls: a fresh key, then either no *)
(* row or a free row taken for that key.                                   *)
LEMMA SetupResult ==
  ASSUME NEW t \in Table, NEW ip \in LocalIps, KeyAvailable(t, ip)
  PROVE  LET a == tunnel_key_alloc(t, ip)
             b == tunnel_add(a.tbl, a.key)
         IN  /\ a.key \in TunnelKey /\ t.hash[a.key] = NoRow
             /\ \E i \in Rows :
                  \/ b.row = NoRow /\ b.tbl = SetLastId(t, i)
                  \/ /\ b.row \in Rows /\ ~t.used[b.row]
                     /\ b.tbl = TakeRow(SetLastId(t, i), b.row, a.key)
<1> DEFINE k == tunnel_key_alloc(t, ip).key
           s == tunnel_key_alloc(t, ip).tbl
<1>1. k \in TunnelKey /\ t.hash[k] = NoRow
  BY KeyAllocResult
<1>2. PICK i \in Rows : s = SetLastId(t, i)
  BY KeyAllocResult
<1> HIDE DEF k, s
<1>3. s \in Table /\ s.hash = t.hash /\ s.used = t.used
  BY <1>2, SetLastIdFields
<1>4. tunnel_add(s, k) = tunnel_alloc(s, k)
  BY <1>1, <1>3 DEF tunnel_add
<1>5. \/ tunnel_alloc(s, k).row = NoRow /\ tunnel_alloc(s, k).tbl = s
      \/ /\ tunnel_alloc(s, k).row \in Rows /\ ~s.used[tunnel_alloc(s, k).row]
         /\ tunnel_alloc(s, k).tbl = TakeRow(s, tunnel_alloc(s, k).row, k)
  BY <1>1, <1>3, AllocResult
<1>6. QED BY <1>1, <1>2, <1>3, <1>4, <1>5 DEF k, s

(* Removing, committing and rolling back keep a table a table.             *)
LEMMA CommitKeepsTable ==
  ASSUME NEW t \in Table, NEW r \in Rows
  PROVE  tunnel_commit(t, r) \in Table
<1> DEFINE k == t.key[r]
           entry == t.hash[k]
<1>1. k \in TunnelKey /\ entry \in Rows \union {NoRow}
  BY TableFields
<1>2. SetHash(t, k, r) \in Table /\ SetHash(t, k, NoRow) \in Table
  BY <1>1, SetHashFields
<1>3. ASSUME entry # NoRow
      PROVE  SetHash(SetUsed(t, entry, FALSE), k, r) \in Table
  BY <1>1, <1>3, SetHashFields, SetUsedFields
<1>4. QED BY <1>2, <1>3 DEF tunnel_commit

LEMMA RollbackKeepsTable ==
  ASSUME NEW t \in Table, NEW r \in Rows
  PROVE  tunnel_rollback(t, r) \in Table
BY SetUsedFields DEF tunnel_rollback

LEMMA RemoveKeepsTable ==
  ASSUME NEW t \in Table, NEW k \in TunnelKey
  PROVE  tunnel_remove(t, k) \in Table
<1>1. t.hash[k] \in Rows \union {NoRow}
  BY TableFields
<1>2. ASSUME t.hash[k] # NoRow
      PROVE  SetUsed(t, t.hash[k], FALSE) \in Table
  BY <1>1, <1>2, SetUsedFields
<1>3. QED BY <1>2 DEF tunnel_remove

-----------------------------------------------------------------------------

(* A row is refused only when none but the one allocated last is free, and *)
(* is never the one allocated last.                                        *)
LEMMA AllocScan ==
  ASSUME NEW t \in Table, NEW k \in TunnelKey
  PROVE  LET b == tunnel_alloc(t, k)
         IN  IF b.row = NoRow THEN FreeRows(t) \ {t.lastSlot} = {}
             ELSE b.row # t.lastSlot
<1>1. CASE ~RowAvailable(t)
  BY <1>1 DEF tunnel_alloc, RowAvailable, Candidates
<1>2. CASE RowAvailable(t)
  <2>1. t.lastSlot \in Rows /\ FreeRows(t) \in SUBSET Rows
    BY TableFields DEF FreeRows
  <2>2. NextInScan(MAX_TUNNEL_COUNT, t.lastSlot, FreeRows(t)) \in Rows \ {t.lastSlot}
    BY <1>2, <2>1, NextInScanFound, TunnelCountAssumption DEF RowAvailable, Rows
  <2>3. QED BY <1>2, <2>2, NoRowAssumption DEF tunnel_alloc, Rows
<1>3. QED BY <1>1, <1>2

(* The key allocated is the next one on the circle, and every id passed on *)
(* the way is taken at that address.                                       *)
LEMMA KeyAllocScan ==
  ASSUME NEW t \in Table, NEW ip \in LocalIps, KeyAvailable(t, ip)
  PROVE  LET a == tunnel_key_alloc(t, ip)
         IN  /\ a.key.ip_addr = ip /\ a.key.te_id \in Rows \ {t.lastId}
             /\ a.tbl = SetLastId(t, a.key.te_id)
             /\ \A i \in Rows \ {t.lastId} :
                  Ahead(MAX_TUNNEL_COUNT, t.lastId, i)
                    < Ahead(MAX_TUNNEL_COUNT, t.lastId, a.key.te_id)
                  => t.hash[[ip_addr |-> ip, te_id |-> i]] # NoRow
<1> DEFINE id == NextInScan(MAX_TUNNEL_COUNT, t.lastId, FreeIds(t, ip))
<1>1. t.lastId \in Rows /\ FreeIds(t, ip) \in SUBSET Rows
  BY TableFields DEF FreeIds
<1>2. /\ id \in FreeIds(t, ip) \ {t.lastId}
      /\ \A j \in FreeIds(t, ip) \ {t.lastId} :
           Ahead(MAX_TUNNEL_COUNT, t.lastId, id) <= Ahead(MAX_TUNNEL_COUNT, t.lastId, j)
  BY <1>1, NextInScanFound, TunnelCountAssumption DEF KeyAvailable, Rows
<1>3. /\ tunnel_key_alloc(t, ip).key = [ip_addr |-> ip, te_id |-> id]
      /\ tunnel_key_alloc(t, ip).tbl = SetLastId(t, id)
  BY DEF tunnel_key_alloc
<1> HIDE DEF id
<1>4. id \in Rows \ {t.lastId}
  BY <1>1, <1>2
<1>5. ASSUME NEW i \in Rows \ {t.lastId},
             Ahead(MAX_TUNNEL_COUNT, t.lastId, i) < Ahead(MAX_TUNNEL_COUNT, t.lastId, id)
      PROVE  t.hash[[ip_addr |-> ip, te_id |-> i]] # NoRow
  <2>1. /\ Ahead(MAX_TUNNEL_COUNT, t.lastId, i) \in Nat
        /\ Ahead(MAX_TUNNEL_COUNT, t.lastId, id) \in Nat
    BY <1>1, <1>4, AheadType, TunnelCountAssumption DEF Rows
  <2>2. i \notin FreeIds(t, ip)
    BY <1>2, <1>5, <2>1
  <2>3. QED BY <2>2 DEF FreeIds
<1>6. QED BY <1>3, <1>4, <1>5

-----------------------------------------------------------------------------

(***************************************************************************)
(* What the actions do to the fields of the table.  A tunnel that is set   *)
(* up or modified takes a free row for its key.                            *)
(***************************************************************************)
TakenAs(k, r, v, u, op, gone) ==
  /\ k \in TunnelKey /\ r \in Rows /\ v \in Info /\ u \in BOOLEAN
  /\ ~tbl.used[r]
  /\ tbl'.used = [tbl.used EXCEPT ![r] = u]
  /\ tbl'.key = [tbl.key EXCEPT ![r] = k]
  /\ tbl'.info = [tbl.info EXCEPT ![r] = v]
  /\ tbl'.hash = tbl.hash
  /\ tx' = (tx \ gone) \union {[row |-> r, key |-> k, op |-> op]}
  /\ mode' = mode /\ mode = "open" /\ zero' = zero
  /\ slips \subseteq slips' /\ slips' \subseteq slips \union Slip
  /\ RemovalPending(r) => slips' # {}

(* While the protocol is kept the row is free of handles as well, and      *)
(* nothing on the lists is replaced.                                       *)
Taken(k, r, v, op) == TakenAs(k, r, v, TRUE, op, {}) /\ ~RemovalPending(r)

LEMMA NotedTaken ==
  ASSUME NEW r, NEW broken \in BOOLEAN, NoteTaken(r, broken)
  PROVE  /\ slips \subseteq slips' /\ slips' \subseteq slips \union Slip
         /\ RemovalPending(r) => slips' # {}
         /\ broken => slips' # {}
BY DEF NoteTaken, Slip

LEMMA SetupStep ==
  ASSUME TypeOK, NEW ip \in LocalIps, NEW v \in Info, SetupTunnel(ip, v)
  PROVE  /\ tbl' \in Table
         /\ \E k \in TunnelKey, r \in Rows :
              /\ tbl.hash[k] = NoRow /\ TakenAs(k, r, v, TRUE, "add", {})
              /\ r # tbl.lastSlot
              /\ tbl'.lastId = k.te_id /\ k.te_id # tbl.lastId
              /\ \A i \in Rows \ {tbl.lastId} :
                   Ahead(MAX_TUNNEL_COUNT, tbl.lastId, i)
                     < Ahead(MAX_TUNNEL_COUNT, tbl.lastId, k.te_id)
                   => tbl.hash[[ip_addr |-> ip, te_id |-> i]] # NoRow
<1> DEFINE k == tunnel_key_alloc(tbl, ip).key
           s == tunnel_key_alloc(tbl, ip).tbl
           b == tunnel_add(s, k)
<1>1. tbl \in Table
  BY DEF TypeOK
<1>2. /\ b.row # NoRow /\ KeyAvailable(tbl, ip)
      /\ mode = "open" /\ mode' = mode /\ zero' = zero
      /\ tbl' = Fill(b.tbl, b.row, v)
      /\ tx' = (tx \ {}) \union {[row |-> b.row, key |-> k, op |-> "add"]}
      /\ NoteTaken(b.row, FALSE)
  BY DEF SetupTunnel, Take, Join
<1>3. /\ k \in TunnelKey /\ tbl.hash[k] = NoRow
      /\ k.te_id \in Rows \ {tbl.lastId} /\ s = SetLastId(tbl, k.te_id)
      /\ \A i \in Rows \ {tbl.lastId} :
           Ahead(MAX_TUNNEL_COUNT, tbl.lastId, i)
             < Ahead(MAX_TUNNEL_COUNT, tbl.lastId, k.te_id)
           => tbl.hash[[ip_addr |-> ip, te_id |-> i]] # NoRow
  BY <1>1, <1>2, KeyAllocResult, KeyAllocScan
<1> HIDE DEF k, s
<1>4. /\ s \in Table /\ s.used = tbl.used /\ s.key = tbl.key /\ s.info = tbl.info
      /\ s.hash = tbl.hash /\ s.lastSlot = tbl.lastSlot /\ s.lastId = k.te_id
  BY <1>1, <1>3, SetLastIdFields, CursorFields
<1>5. b = tunnel_alloc(s, k)
  BY <1>3, <1>4 DEF tunnel_add
<1>6. /\ b.row \in Rows /\ ~s.used[b.row] /\ b.row # s.lastSlot
      /\ b.tbl = TakeRow(s, b.row, k)
  BY <1>2, <1>3, <1>4, <1>5, AllocResult, AllocScan
<1> HIDE DEF b
<1>7. /\ b.tbl \in Table
      /\ b.tbl.used = [tbl.used EXCEPT ![b.row] = TRUE]
      /\ b.tbl.key = [tbl.key EXCEPT ![b.row] = k]
      /\ b.tbl.info = tbl.info /\ b.tbl.hash = tbl.hash
  BY <1>3, <1>4, <1>6, TakeRowFields
<1>8. /\ tbl' \in Table
      /\ tbl'.used = b.tbl.used /\ tbl'.key = b.tbl.key
      /\ tbl'.info = [b.tbl.info EXCEPT ![b.row] = v] /\ tbl'.hash = b.tbl.hash
  BY <1>2, <1>6, <1>7, FillFields
<1>9. /\ slips \subseteq slips' /\ slips' \subseteq slips \union Slip
      /\ RemovalPending(b.row) => slips' # {}
  BY <1>2, NotedTaken
<1>10. TakenAs(k, b.row, v, TRUE, "add", {})
  BY <1>2, <1>3, <1>4, <1>6, <1>7, <1>8, <1>9 DEF TakenAs
<1>11. tbl'.lastId = k.te_id
  BY <1>2, <1>3, <1>4, <1>6, <1>7, CursorFields, FillCursors
<1>12. QED BY <1>3, <1>4, <1>6, <1>8, <1>10, <1>11

LEMMA SetupFailsStep ==
  ASSUME TypeOK, NEW ip \in LocalIps, SetupFails(ip)
  PROVE  /\ tbl' \in Table
         /\ tbl'.used = tbl.used /\ tbl'.key = tbl.key
         /\ tbl'.info = tbl.info /\ tbl'.hash = tbl.hash
         /\ tx' = tx /\ mode' = mode /\ zero' = zero /\ slips' = slips
<1> DEFINE k == tunnel_key_alloc(tbl, ip).key
           b == tunnel_add(tunnel_key_alloc(tbl, ip).tbl, k)
<1>1. tbl \in Table
  BY DEF TypeOK
<1>2. /\ b.row = NoRow /\ tbl' = b.tbl /\ KeyAvailable(tbl, ip)
      /\ tx' = tx /\ mode' = mode /\ zero' = zero /\ slips' = slips
  BY DEF SetupFails
<1>3. PICK i \in Rows : b.tbl = SetLastId(tbl, i)
  BY <1>1, <1>2, SetupResult, NoRowAssumption DEF Rows
<1> HIDE DEF b
<1>4. QED BY <1>1, <1>2, <1>3, SetLastIdFields

(* tunnel_modify gives a free row, and drb_modify and pdus_modify write it.*)
LEMMA NewVersion ==
  ASSUME NEW t \in Table, NEW k \in TunnelKey, NEW b, b = tunnel_modify(t, k),
         b.row # NoRow
  PROVE  /\ t.hash[k] # NoRow
         /\ b.row \in Rows /\ ~t.used[b.row] /\ b.row # t.lastSlot
         /\ b.tbl \in Table /\ b.tbl.lastId = t.lastId
         /\ b.tbl.used = [t.used EXCEPT ![b.row] = TRUE]
         /\ b.tbl.key = [t.key EXCEPT ![b.row] = k]
         /\ b.tbl.info = t.info /\ b.tbl.hash = t.hash
<1>1. t.hash[k] # NoRow /\ b = tunnel_alloc(t, k)
  BY DEF tunnel_modify
<1>2. /\ b.row \in Rows /\ ~t.used[b.row] /\ b.row # t.lastSlot
      /\ b.tbl = TakeRow(t, b.row, k)
  BY <1>1, AllocResult, AllocScan
<1>3. QED BY <1>1, <1>2, TakeRowFields, CursorFields

LEMMA ModifyStep ==
  ASSUME TypeOK, NEW old \in Rows, NEW v \in Info, ModifyTunnel(old, v)
  PROVE  /\ tbl' \in Table /\ tbl.hash[tbl.key[old]] # NoRow
         /\ tbl'.lastId = tbl.lastId
         /\ OffProtocol(old) => slips' # {}
         /\ \E r \in Rows : /\ r # tbl.lastSlot
                            /\ TakenAs(tbl.key[old], r, v, TRUE, "modify", OldHandles(old))
<1> DEFINE k == tbl.key[old]
           b == tunnel_modify(tbl, k)
<1>1. tbl \in Table /\ k \in TunnelKey
  BY TableFields DEF TypeOK
<1>2. /\ b.row # NoRow /\ mode = "open" /\ mode' = mode /\ zero' = zero
      /\ tbl' = Fill(b.tbl, b.row, v)
      /\ tx' = (tx \ OldHandles(old))
               \union {[row |-> b.row, key |-> k, op |-> "modify"]}
      /\ NoteTaken(b.row, OffProtocol(old))
  BY DEF ModifyTunnel, Take, Join
<1>3. b = tunnel_modify(tbl, k)
  OBVIOUS
<1> HIDE DEF k, b
<1>4. /\ tbl.hash[k] # NoRow
      /\ b.row \in Rows /\ ~tbl.used[b.row] /\ b.row # tbl.lastSlot
      /\ b.tbl \in Table /\ b.tbl.lastId = tbl.lastId
      /\ b.tbl.used = [tbl.used EXCEPT ![b.row] = TRUE]
      /\ b.tbl.key = [tbl.key EXCEPT ![b.row] = k]
      /\ b.tbl.info = tbl.info /\ b.tbl.hash = tbl.hash
  BY <1>1, <1>2, <1>3, NewVersion
<1>5. /\ tbl' \in Table /\ tbl'.lastId = tbl.lastId
      /\ tbl'.used = b.tbl.used /\ tbl'.key = b.tbl.key
      /\ tbl'.info = [b.tbl.info EXCEPT ![b.row] = v] /\ tbl'.hash = b.tbl.hash
  BY <1>2, <1>4, FillFields, FillCursors
<1>6. OffProtocol(old) \in BOOLEAN
  BY DEF OffProtocol, Held
<1>7. /\ slips \subseteq slips' /\ slips' \subseteq slips \union Slip
      /\ RemovalPending(b.row) => slips' # {}
      /\ OffProtocol(old) => slips' # {}
  BY <1>2, <1>6, NotedTaken
<1>8. TakenAs(k, b.row, v, TRUE, "modify", OldHandles(old))
  BY <1>1, <1>2, <1>4, <1>5, <1>7 DEF TakenAs
<1>9. QED BY <1>4, <1>5, <1>7, <1>8 DEF k

LEMMA Overwritten ==
  ASSUME NEW f \in [Rows -> BOOLEAN], NEW r \in Rows, NEW a \in BOOLEAN, NEW b \in BOOLEAN
  PROVE  [[f EXCEPT ![r] = a] EXCEPT ![r] = b] = [f EXCEPT ![r] = b]
OBVIOUS

LEMMA CopyStep ==
  ASSUME TypeOK, NEW old \in Rows, CopyTunnel(old)
  PROVE  /\ tbl' \in Table /\ tbl.hash[tbl.key[old]] # NoRow
         /\ tbl'.lastId = tbl.lastId
         /\ OffProtocol(old) => slips' # {}
         /\ \E r \in Rows, v \in Info, u \in BOOLEAN :
              /\ r # tbl.lastSlot /\ (tbl.used[old] => u)
              /\ TakenAs(tbl.key[old], r, v, u, "modify", OldHandles(old))
<1> DEFINE k == tbl.key[old]
           b == tunnel_modify(tbl, k)
           v == b.tbl.info[old]
           u == b.tbl.used[old]
           t == Fill(b.tbl, b.row, v)
<1>1. tbl \in Table /\ k \in TunnelKey
  BY TableFields DEF TypeOK
<1>2. /\ b.row # NoRow /\ mode = "open" /\ mode' = mode /\ zero' = zero
      /\ tbl' = SetUsed(t, b.row, u)
      /\ tx' = (tx \ OldHandles(old))
               \union {[row |-> b.row, key |-> k, op |-> "modify"]}
      /\ NoteTaken(b.row, OffProtocol(old))
  BY DEF CopyTunnel, Take, Join
<1>3. b = tunnel_modify(tbl, k)
  OBVIOUS
<1> HIDE DEF k, b
<1>4. /\ tbl.hash[k] # NoRow
      /\ b.row \in Rows /\ ~tbl.used[b.row] /\ b.row # tbl.lastSlot
      /\ b.tbl \in Table /\ b.tbl.lastId = tbl.lastId
      /\ b.tbl.used = [tbl.used EXCEPT ![b.row] = TRUE]
      /\ b.tbl.key = [tbl.key EXCEPT ![b.row] = k]
      /\ b.tbl.info = tbl.info /\ b.tbl.hash = tbl.hash
  BY <1>1, <1>2, <1>3, NewVersion
<1>5. /\ v \in Info /\ u \in BOOLEAN /\ (tbl.used[old] => u)
      /\ tbl.used \in [Rows -> BOOLEAN]
  <2>1. tbl.used \in [Rows -> BOOLEAN] /\ tbl.info \in [Rows -> Info]
    BY <1>1, TableFields
  <2>2. u = [tbl.used EXCEPT ![b.row] = TRUE][old] /\ v = tbl.info[old]
    BY <1>4
  <2> HIDE DEF u, v
  <2>3. QED BY <1>4, <2>1, <2>2
<1> HIDE DEF u, v
<1>6. /\ t \in Table /\ t.lastId = tbl.lastId
      /\ t.used = b.tbl.used /\ t.key = b.tbl.key
      /\ t.info = [b.tbl.info EXCEPT ![b.row] = v] /\ t.hash = b.tbl.hash
  BY <1>4, <1>5, FillFields, FillCursors
<1> HIDE DEF t
<1>7. /\ tbl' \in Table /\ tbl'.used = [t.used EXCEPT ![b.row] = u]
      /\ tbl'.key = t.key /\ tbl'.info = t.info /\ tbl'.hash = t.hash
      /\ tbl'.lastId = t.lastId
  BY <1>2, <1>4, <1>5, <1>6, SetUsedFields DEF SetUsed, Table
<1>8. tbl'.used = [tbl.used EXCEPT ![b.row] = u]
  <2>1. tbl'.used = [[tbl.used EXCEPT ![b.row] = TRUE] EXCEPT ![b.row] = u]
    BY <1>4, <1>6, <1>7
  <2>2. QED BY <1>4, <1>5, <2>1, Overwritten
<1>9. OffProtocol(old) \in BOOLEAN
  BY DEF OffProtocol, Held
<1>10. /\ slips \subseteq slips' /\ slips' \subseteq slips \union Slip
       /\ RemovalPending(b.row) => slips' # {}
       /\ OffProtocol(old) => slips' # {}
  BY <1>2, <1>9, NotedTaken
<1>11. TakenAs(k, b.row, v, u, "modify", OldHandles(old))
  BY <1>1, <1>2, <1>4, <1>5, <1>6, <1>7, <1>8, <1>10 DEF TakenAs
<1>12. QED BY <1>4, <1>5, <1>6, <1>7, <1>10, <1>11 DEF k

-----------------------------------------------------------------------------
LEMMA InitTypeOK == Init => TypeOK
<1> SUFFICES ASSUME Init PROVE TypeOK
  OBVIOUS
<1>1. /\ (CHOOSE k \in TunnelKey : TRUE) \in TunnelKey
      /\ (CHOOSE i \in Info : TRUE) \in Info
      /\ 0 \in Rows
  <2>1. PICK ip \in LocalIps, i \in Info : TRUE
    BY NonEmptyAssumption
  <2>2. 0 \in Rows
    BY TunnelCountAssumption DEF Rows
  <2>3. [ip_addr |-> ip, te_id |-> 0] \in TunnelKey
    BY <2>1, <2>2 DEF TunnelKey
  <2>4. QED BY <2>1, <2>2, <2>3
<1>2. tbl \in Table
  BY <1>1 DEF Init, EmptyTable, Table
<1>3. QED BY <1>2 DEF Init, TypeOK

LEMMA PlaceKeysType ==
  ASSUME NEW t, zero \in TunnelKey \union {Absent}, PlaceKeys(t)
  PROVE  zero' \in TunnelKey \union {Absent}
BY DEF PlaceKeys

LEMMA GiveUpKeepsTable ==
  ASSUME NEW t \in Table, NEW k \in TunnelKey, NEW r \in Rows
  PROVE  tunnel_commit(tunnel_remove(t, k), r) \in Table
BY RemoveKeepsTable, CommitKeepsTable

LEMMA StepTypeOK == TypeOK /\ [Next]_vars => TypeOK'
<1> SUFFICES ASSUME TypeOK, [Next]_vars PROVE TypeOK'
  OBVIOUS
<1> USE DEF TypeOK
<1>1. ASSUME NEW k \in TunnelKey, NEW r \in Rows, NEW v \in Info, NEW u,
             NEW op \in Ops, NEW gone, TakenAs(k, r, v, u, op, gone), tbl' \in Table
      PROVE  TypeOK'
  <2>1. /\ zero' = zero /\ mode' = mode /\ slips' \subseteq slips \union Slip
        /\ tx' = (tx \ gone) \union {[row |-> r, key |-> k, op |-> op]}
    BY <1>1 DEF TakenAs
  <2>2. [row |-> r, key |-> k, op |-> op] \in Handle
    BY <1>1 DEF Handle
  <2>3. QED BY <1>1, <2>1, <2>2
<1>2. CASE \E ip \in LocalIps, v \in Info : SetupTunnel(ip, v)
  BY <1>1, <1>2, SetupStep DEF Ops
<1>3. CASE \E ip \in LocalIps : SetupFails(ip)
  BY <1>3, SetupFailsStep
<1>4. tbl \in Table /\ \A r \in Rows : tbl.key[r] \in TunnelKey
  BY TableFields
<1>5. CASE \E r \in Rows, v \in Info : ModifyTunnel(r, v)
  <2>1. PICK old \in Rows, v \in Info : ModifyTunnel(old, v)
    BY <1>5
  <2>2. PICK r \in Rows :
             TakenAs(tbl.key[old], r, v, TRUE, "modify", OldHandles(old))
    BY <2>1, ModifyStep
  <2>3. tbl' \in Table
    BY <2>1, ModifyStep
  <2>4. QED BY <1>1, <1>4, <2>2, <2>3 DEF Ops
<1>6. CASE \E r \in Rows : CopyTunnel(r)
  <2>1. PICK old \in Rows : CopyTunnel(old)
    BY <1>6
  <2>2. PICK r \in Rows, v \in Info, u \in BOOLEAN :
             TakenAs(tbl.key[old], r, v, u, "modify", OldHandles(old))
    BY <2>1, CopyStep
  <2>3. tbl' \in Table
    BY <2>1, CopyStep
  <2>4. QED BY <1>1, <1>4, <2>2, <2>3 DEF Ops
<1>7. ASSUME NEW r \in Rows, RemoveTunnel(r)
      PROVE  TypeOK'
  <2>1. tbl' \in Table
    BY <1>4, <1>7, RemoveKeepsTable DEF RemoveTunnel
  <2>2. [row |-> r, key |-> tbl.key[r], op |-> "remove"] \in Handle
    BY <1>4, <1>7 DEF Handle, Ops
  <2>3. tx' \subseteq Handle
    BY <1>7, <2>2 DEF RemoveTunnel
  <2>4. slips' \subseteq Slip /\ zero' = zero /\ mode' = mode
    BY <1>7 DEF RemoveTunnel, Note, Slip
  <2>5. QED BY <2>1, <2>3, <2>4
<1>8. ASSUME NEW m \in {"commit", "rollback"}, Decide(m)
      PROVE  TypeOK'
  BY <1>8 DEF Decide
<1>9. ASSUME NEW h \in tx, GiveUp(h)
      PROVE  TypeOK'
  <2>1. h.row \in Rows /\ h.key \in TunnelKey
    BY DEF Handle
  <2>2. tbl' \in Table
    BY <1>9, <2>1, GiveUpKeepsTable DEF GiveUp
  <2>3. QED BY <1>9, <2>2, PlaceKeysType DEF GiveUp
<1>10. ASSUME NEW h \in tx, CommitTunnel(h)
      PROVE  TypeOK'
  <2>1. h.row \in Rows
    BY DEF Handle
  <2>2. tbl' \in Table
    BY <1>10, <2>1, CommitKeepsTable DEF CommitTunnel
  <2>3. QED BY <1>10, <2>2, PlaceKeysType DEF CommitTunnel
<1>11. ASSUME NEW h \in tx, RollbackTunnel(h)
      PROVE  TypeOK'
  <2>1. h.row \in Rows
    BY DEF Handle
  <2>2. tbl' \in Table
    BY <1>11, <2>1, RollbackKeepsTable DEF RollbackTunnel
  <2>3. QED BY <1>11, <2>2 DEF RollbackTunnel
<1>12. ASSUME NEW r \in Rows, CommitOther(r)
       PROVE  TypeOK'
  <2>1. tbl' \in Table
    BY <1>12, CommitKeepsTable DEF CommitOther
  <2>2. slips' \subseteq Slip
    BY <1>12 DEF CommitOther, Note, Slip
  <2>3. QED BY <1>12, <2>1, <2>2, PlaceKeysType DEF CommitOther
<1>13. ASSUME NEW r \in Rows, RollbackOther(r)
       PROVE  TypeOK'
  <2>1. tbl' \in Table
    BY <1>13, RollbackKeepsTable DEF RollbackOther
  <2>2. QED BY <1>13, <2>1 DEF RollbackOther
<1>14. CASE Close
  BY <1>14 DEF Close
<1>15. CASE UNCHANGED vars
  BY <1>15 DEF vars
<1>16. QED
  BY <1>2, <1>3, <1>5, <1>6, <1>7, <1>8, <1>9, <1>10, <1>11, <1>12, <1>13,
     <1>14, <1>15 DEF Next

(* The table, the handles and the modes stay what they are declared to be  *)
(* under every operation, whatever the callers do and also when a removed  *)
(* row is reused.                                                          *)
THEOREM TypeCorrect == Spec => []TypeOK
BY InitTypeOK, StepTypeOK, PTL DEF Spec

-----------------------------------------------------------------------------
(***************************************************************************)
(* Under the invariant, commit and rollback recognise what was done to the *)
(* row: these are the updates they make for each kind of handle.           *)
(***************************************************************************)
NewCommitted(h) ==
  /\ tbl'.key = tbl.key /\ tbl'.info = tbl.info
  /\ tbl'.hash = [tbl.hash EXCEPT ![h.key] = h.row]
  /\ tbl'.used = IF tbl.hash[h.key] = NoRow THEN tbl.used
                 ELSE [tbl.used EXCEPT ![tbl.hash[h.key]] = FALSE]
  /\ tx' = tx \ {h}

LEMMA CommitNewFields ==
  ASSUME TableInv, Kept, NEW h \in tx, h.op # "remove", CommitTunnel(h)
  PROVE  NewCommitted(h)
<1> DEFINE entry == tbl.hash[h.key]
<1>1. /\ tbl \in Table /\ h.row \in Rows /\ h.key \in TunnelKey
      /\ tbl.key[h.row] = h.key /\ entry # h.row
  BY DEF TableInv, TypeOK, Handle, HandlesSound
<1>2. entry \in Rows \union {NoRow}
  BY <1>1, TableFields
<1>3. tbl' = tunnel_commit(tbl, h.row)
  BY DEF CommitTunnel
<1>0. tx' = tx \ {h}
  BY DEF CommitTunnel
<1>4. CASE entry = NoRow
  <2>1. tbl' = SetHash(tbl, h.key, h.row)
    BY <1>1, <1>3, <1>4 DEF tunnel_commit
  <2>2. QED BY <1>0, <1>1, <1>4, <2>1, SetHashFields DEF NewCommitted
<1>5. CASE entry # NoRow
  <2>1. tbl' = SetHash(SetUsed(tbl, entry, FALSE), h.key, h.row)
    BY <1>1, <1>3, <1>5 DEF tunnel_commit
  <2> DEFINE t == SetUsed(tbl, entry, FALSE)
  <2>2. /\ t \in Table /\ t.used = [tbl.used EXCEPT ![entry] = FALSE]
        /\ t.key = tbl.key /\ t.info = tbl.info /\ t.hash = tbl.hash
    BY <1>1, <1>2, <1>5, SetUsedFields
  <2>3. tbl' = SetHash(t, h.key, h.row)
    BY <2>1
  <2> HIDE DEF t
  <2>4. /\ tbl'.used = t.used /\ tbl'.key = t.key /\ tbl'.info = t.info
        /\ tbl'.hash = [t.hash EXCEPT ![h.key] = h.row]
    BY <1>1, <2>2, <2>3, SetHashFields
  <2>5. QED BY <1>0, <1>5, <2>2, <2>4 DEF NewCommitted
<1>6. QED BY <1>4, <1>5

(* Giving a session up does no more than commit its tunnel: the removal    *)
(* takes the flag of the entry, if there is one, which the commit does too.*)
LEMMA GiveUpFields ==
  ASSUME TableInv, Kept, NEW h \in tx, GiveUp(h)
  PROVE  NewCommitted(h)
<1> DEFINE entry == tbl.hash[h.key]
           t == tunnel_remove(tbl, h.key)
<1>1. /\ tbl \in Table /\ h.row \in Rows /\ h.key \in TunnelKey
      /\ tbl.key[h.row] = h.key /\ entry # h.row /\ h.op # "remove"
  BY DEF TableInv, TypeOK, Handle, HandlesSound, GiveUp
<1>2. entry \in Rows \union {NoRow} /\ tbl.used \in [Rows -> BOOLEAN]
  BY <1>1, TableFields
<1>3. tbl' = tunnel_commit(t, h.row) /\ tx' = tx \ {h}
  BY DEF GiveUp
<1>4. CASE entry = NoRow
  <2>1. t = tbl
    BY <1>4 DEF tunnel_remove
  <2>2. tbl' = SetHash(tbl, h.key, h.row)
    BY <1>1, <1>3, <1>4, <2>1 DEF tunnel_commit
  <2>3. QED BY <1>1, <1>3, <1>4, <2>2, SetHashFields DEF NewCommitted
<1>5. CASE entry # NoRow
  <2>1. t = SetUsed(tbl, entry, FALSE)
    BY <1>5 DEF tunnel_remove
  <2> HIDE DEF t
  <2>2. /\ t \in Table /\ t.used = [tbl.used EXCEPT ![entry] = FALSE]
        /\ t.key = tbl.key /\ t.info = tbl.info /\ t.hash = tbl.hash
    BY <1>1, <1>2, <1>5, <2>1, SetUsedFields
  <2> DEFINE u == SetUsed(t, entry, FALSE)
  <2>3. tbl' = SetHash(u, h.key, h.row)
    BY <1>1, <1>3, <1>5, <2>2 DEF tunnel_commit
  <2>4. /\ u \in Table /\ u.used = [t.used EXCEPT ![entry] = FALSE]
        /\ u.key = t.key /\ u.info = t.info /\ u.hash = t.hash
    BY <1>2, <1>5, <2>2, SetUsedFields
  <2> HIDE DEF u
  <2>5. /\ tbl'.used = u.used /\ tbl'.key = u.key /\ tbl'.info = u.info
        /\ tbl'.hash = [u.hash EXCEPT ![h.key] = h.row]
    BY <1>1, <2>3, <2>4, SetHashFields
  <2>6. u.used = [tbl.used EXCEPT ![entry] = FALSE]
    BY <1>2, <1>5, <2>2, <2>4, Overwritten
  <2>7. QED BY <1>3, <1>5, <2>2, <2>4, <2>5, <2>6 DEF NewCommitted
<1>6. QED BY <1>4, <1>5

LEMMA CommitRemovedFields ==
  ASSUME TableInv, Kept, NEW h \in tx, h.op = "remove", CommitTunnel(h)
  PROVE  /\ tbl'.used = tbl.used /\ tbl'.key = tbl.key /\ tbl'.info = tbl.info
         /\ tbl'.hash = [tbl.hash EXCEPT ![h.key] = NoRow]
<1>1. /\ tbl \in Table /\ h.row \in Rows /\ h.key \in TunnelKey
      /\ tbl.key[h.row] = h.key /\ tbl.hash[h.key] = h.row
  BY DEF TableInv, TypeOK, Handle, HandlesSound
<1>2. h.row # NoRow
  BY <1>1, NoRowAssumption DEF Rows
<1>3. ~tbl.used[h.row]
  BY <1>1, <1>2 DEF TableInv, CommittedRowInUse, RemovalPending
<1>4. tbl' = SetHash(tbl, h.key, NoRow)
  BY <1>1, <1>2, <1>3 DEF CommitTunnel, tunnel_commit
<1>5. QED BY <1>1, <1>4, SetHashFields

LEMMA RollbackFields ==
  ASSUME TableInv, Kept, NEW h \in tx, RollbackTunnel(h)
  PROVE  /\ tbl'.key = tbl.key /\ tbl'.info = tbl.info /\ tbl'.hash = tbl.hash
         /\ tbl'.used = [tbl.used EXCEPT ![h.row] = (h.op = "remove")]
<1> DEFINE entry == tbl.hash[h.key]
<1>1. /\ tbl \in Table /\ h.row \in Rows /\ h.key \in TunnelKey
      /\ tbl.key[h.row] = h.key
  BY DEF TableInv, TypeOK, Handle, HandlesSound
<1>2. tbl' = tunnel_rollback(tbl, h.row)
  BY DEF RollbackTunnel
<1>3. CASE h.op = "remove"
  <2>1. entry = h.row
    BY <1>3 DEF TableInv, HandlesSound
  <2>2. tbl' = SetUsed(tbl, h.row, TRUE)
    BY <1>1, <1>2, <2>1 DEF tunnel_rollback
  <2>3. QED BY <1>1, <1>3, <2>2, SetUsedFields
<1>4. CASE h.op # "remove"
  <2>1. entry # h.row
    BY <1>4 DEF TableInv, HandlesSound
  <2>2. entry = NoRow \/ tbl.used[entry]
    <3> SUFFICES ASSUME entry # NoRow, RemovalPending(entry) PROVE FALSE
      BY <1>1 DEF TableInv, CommittedRowInUse
    <3>1. PICK g \in tx : g.row = entry /\ g.op = "remove"
      BY DEF RemovalPending
    <3>2. g.key = h.key
      BY <1>1, <3>1 DEF TableInv, HandlesSound, KeyMatchesRow
    <3>3. QED BY <1>4, <3>1, <3>2 DEF TableInv, HandlesSound
  <2>3. tbl' = SetUsed(tbl, h.row, FALSE)
    BY <1>1, <1>2, <2>1, <2>2 DEF tunnel_rollback
  <2>4. QED BY <1>1, <1>4, <2>3, SetUsedFields
<1>5. QED BY <1>3, <1>4

(* A row that is newly taken was reachable from nowhere.                   *)
LEMMA TakenKeepsInv ==
  ASSUME TableInv, Kept, NEW k \in TunnelKey, NEW r \in Rows, NEW v \in Info,
         NEW op \in {"add", "modify"},
         Taken(k, r, v, op), tbl' \in Table,
         tbl.hash[k] = NoRow \/ ~Held(k)
  PROVE  KeyMatchesRow' /\ CommittedRowInUse' /\ NoRowLeak' /\ HandlesSound'
<1> DEFINE new == [row |-> r, key |-> k, op |-> op]
<1>1. /\ tbl \in Table /\ tx \subseteq Handle
      /\ r # NoRow /\ \A h \in tx : h.row # NoRow
  BY NoRowAssumption DEF TableInv, TypeOK, Rows, Handle
<1>2. /\ tbl.used \in [Rows -> BOOLEAN] /\ tbl.key \in [Rows -> TunnelKey]
      /\ tbl.hash \in [TunnelKey -> Rows \union {NoRow}]
  BY <1>1, TableFields
<1>3. ~tbl.used[r] /\ ~RemovalPending(r)
  BY DEF Taken, TakenAs
<1>4. \A j \in TunnelKey : tbl.hash[j] # r
  BY <1>1, <1>3 DEF TableInv, CommittedRowInUse
<1>5. \A h \in tx : h.row # r
  BY <1>3 DEF TableInv, HandlesSound, RemovalPending
<1>6. \A h \in tx : h.op = "remove" => h.key # k
  BY <1>1 DEF TableInv, HandlesSound, Held
<1>7. /\ tbl'.used = [tbl.used EXCEPT ![r] = TRUE]
      /\ tbl'.key = [tbl.key EXCEPT ![r] = k]
      /\ tbl'.hash = tbl.hash /\ tx' = tx \union {new}
  BY DEF Taken, TakenAs
<1>8. new.row = r /\ new.key = k /\ new.op # "remove"
  OBVIOUS
<1> HIDE DEF new
<1>9. KeyMatchesRow'
  BY <1>2, <1>4, <1>7 DEF TableInv, KeyMatchesRow
<1>10. \A q : RemovalPending(q)' <=> RemovalPending(q)
  BY <1>7, <1>8 DEF RemovalPending
<1>11. CommittedRowInUse'
  <2> SUFFICES ASSUME NEW j \in TunnelKey, tbl'.hash[j] # NoRow
               PROVE  tbl'.used[tbl'.hash[j]] =
                        ~(\E h \in tx' : h.row = tbl'.hash[j] /\ h.op = "remove")
    BY Zenon DEF CommittedRowInUse, RemovalPending
  <2> SUFFICES ASSUME NEW q, q = tbl.hash[j], q # NoRow
               PROVE  tbl'.used[q] = ~(\E h \in tx' : h.row = q /\ h.op = "remove")
    BY <1>7
  <2> SUFFICES tbl'.used[q] = ~RemovalPending(q)'
    BY Zenon DEF RemovalPending
  <2>1. tbl'.used[q] = tbl.used[q]
    BY <1>2, <1>4, <1>7
  <2>2. QED BY <1>10, <2>1 DEF TableInv, CommittedRowInUse
<1>12. NoRowLeak'
  <2> SUFFICES ASSUME NEW q \in Rows, tbl'.used[q]
               PROVE  tbl'.hash[tbl'.key[q]] = q \/ \E h \in tx' : h.row = q
    BY DEF NoRowLeak, Holds
  <2>1. CASE q = r
    BY <1>7, <1>8, <2>1
  <2>2. CASE q # r
    BY <1>2, <1>7, <2>2 DEF TableInv, NoRowLeak, Holds
  <2>3. QED BY <2>1, <2>2
<1>13. HandlesSound'
  <2> SUFFICES ASSUME NEW h \in tx'
               PROVE  /\ tbl'.key[h.row] = h.key
                      /\ h.op = "remove" => tbl'.hash[h.key] = h.row
                      /\ h.op # "remove" => tbl'.used[h.row] /\ tbl'.hash[h.key] # h.row
                      /\ \A g \in tx' :
                           (g.row = h.row \/ (h.op = "remove" /\ g.key = h.key)) => g = h
    BY DEF HandlesSound
  <2>1. CASE h \in tx
    <3>1. h.row \in Rows /\ h.row # r
      BY <1>1, <1>5, <2>1 DEF Handle
    <3>2. QED BY <1>2, <1>6, <1>7, <1>8, <2>1, <3>1 DEF TableInv, HandlesSound
  <2>2. CASE h = new
    BY <1>2, <1>4, <1>5, <1>7, <1>8, <2>2
  <2>3. QED BY <1>7, <2>1, <2>2
<1>14. QED BY <1>9, <1>11, <1>12, <1>13

Removed(k, r) ==
  /\ k \in TunnelKey /\ r \in Rows /\ tbl.hash[k] = r /\ tbl.key[r] = k
  /\ tbl'.used = [tbl.used EXCEPT ![r] = FALSE]
  /\ tbl'.key = tbl.key /\ tbl'.info = tbl.info /\ tbl'.hash = tbl.hash
  /\ tbl'.lastSlot = tbl.lastSlot /\ tbl'.lastId = tbl.lastId
  /\ tx' = tx \union {[row |-> r, key |-> k, op |-> "remove"]}
  /\ mode = "open" /\ mode' = mode /\ zero' = zero
  /\ \A h \in tx : h.key = k \/ h.row = r => h = [row |-> r, key |-> k, op |-> "remove"]

(* While the protocol is kept, what is removed is the row the hash has for *)
(* the key, and nobody holds it unless it has been removed already.        *)
LEMMA RemoveStep ==
  ASSUME TableInv, Kept, Kept', NEW r \in Rows, RemoveTunnel(r)
  PROVE  Removed(tbl.key[r], r)
<1> DEFINE k == tbl.key[r]
           new == [row |-> r, key |-> k, op |-> "remove"]
<1>1. tbl \in Table /\ tx \subseteq Handle /\ k \in TunnelKey
  BY TableFields DEF TableInv, TypeOK
<1>2. tbl.hash[k] = r /\ ~Renewed(k)
  BY DEF RemoveTunnel, Note, Kept
<1>3. /\ tbl' = SetUsed(tbl, r, FALSE) /\ tx' = tx \union {new}
      /\ mode = "open" /\ mode' = mode /\ zero' = zero
  BY <1>2 DEF RemoveTunnel, tunnel_remove
<1>4. /\ tbl'.used = [tbl.used EXCEPT ![r] = FALSE]
      /\ tbl'.key = tbl.key /\ tbl'.info = tbl.info /\ tbl'.hash = tbl.hash
      /\ tbl'.lastSlot = tbl.lastSlot /\ tbl'.lastId = tbl.lastId
  BY <1>1, <1>3, SetUsedFields DEF SetUsed, Table
<1>5. ASSUME NEW h \in tx, h.key = k \/ h.row = r
      PROVE  h = new
  <2>1. h.key = k /\ h \in Handle
    BY <1>1, <1>5 DEF TableInv, HandlesSound
  <2>2. h.op = "remove"
    BY <1>2, <2>1 DEF Renewed
  <2>3. h.row = r
    BY <1>2, <2>1, <2>2 DEF TableInv, HandlesSound
  <2>4. QED BY <2>1, <2>2, <2>3 DEF Handle
<1>6. QED BY <1>1, <1>2, <1>3, <1>4, <1>5 DEF Removed

LEMMA RemoveKeepsInv ==
  ASSUME TableInv, Kept, NEW k \in TunnelKey, NEW r \in Rows, Removed(k, r)
  PROVE  KeyMatchesRow' /\ CommittedRowInUse' /\ NoRowLeak' /\ HandlesSound'
<1> DEFINE new == [row |-> r, key |-> k, op |-> "remove"]
<1>1. tbl \in Table /\ tx \subseteq Handle
  BY DEF TableInv, TypeOK
<1>2. /\ tbl.used \in [Rows -> BOOLEAN] /\ tbl.key \in [Rows -> TunnelKey]
      /\ tbl.hash \in [TunnelKey -> Rows \union {NoRow}]
  BY <1>1, TableFields
<1>3. r # NoRow
  BY NoRowAssumption DEF Rows
<1>4. /\ tbl'.used = [tbl.used EXCEPT ![r] = FALSE]
      /\ tbl'.key = tbl.key /\ tbl'.hash = tbl.hash
      /\ tx' = tx \union {new}
  BY DEF Removed
<1>5. new.row = r /\ new.key = k /\ new.op = "remove" /\ tbl.key[r] = k
  BY DEF Removed
<1>6. tbl.hash[k] = r
  BY DEF Removed
<1>7. \A h \in tx : h.key = k \/ h.row = r => h = new
  BY DEF Removed
<1> HIDE DEF new
<1>8. KeyMatchesRow'
  BY <1>4 DEF TableInv, KeyMatchesRow
<1>9. \A q : RemovalPending(q)' <=> RemovalPending(q) \/ q = r
  BY <1>4, <1>5 DEF RemovalPending
<1>10. CommittedRowInUse'
  <2> SUFFICES ASSUME NEW j \in TunnelKey, tbl'.hash[j] # NoRow
               PROVE  tbl'.used[tbl'.hash[j]] =
                        ~(\E h \in tx' : h.row = tbl'.hash[j] /\ h.op = "remove")
    BY Zenon DEF CommittedRowInUse, RemovalPending
  <2> SUFFICES ASSUME NEW q, q = tbl.hash[j], q # NoRow
               PROVE  tbl'.used[q] = ~(\E h \in tx' : h.row = q /\ h.op = "remove")
    BY <1>4
  <2> SUFFICES tbl'.used[q] = ~RemovalPending(q)'
    BY Zenon DEF RemovalPending
  <2>1. CASE q = r
    BY <1>2, <1>3, <1>4, <1>9, <2>1
  <2>2. CASE q # r
    BY <1>2, <1>4, <1>9, <2>2 DEF TableInv, CommittedRowInUse
  <2>3. QED BY <2>1, <2>2
<1>11. NoRowLeak'
  BY <1>2, <1>4 DEF TableInv, NoRowLeak, Holds
<1>12. HandlesSound'
  <2> SUFFICES ASSUME NEW h \in tx'
               PROVE  /\ tbl'.key[h.row] = h.key
                      /\ h.op = "remove" => tbl'.hash[h.key] = h.row
                      /\ h.op # "remove" => tbl'.used[h.row] /\ tbl'.hash[h.key] # h.row
                      /\ \A g \in tx' :
                           (g.row = h.row \/ (h.op = "remove" /\ g.key = h.key)) => g = h
    BY DEF HandlesSound
  <2>1. CASE h \in tx /\ h # new
    <3>1. h.row \in Rows /\ h.row # r
      BY <1>1, <1>7, <2>1 DEF Handle
    <3>2. QED BY <1>2, <1>4, <1>5, <1>7, <2>1, <3>1 DEF TableInv, HandlesSound
  <2>2. CASE h = new
    BY <1>4, <1>5, <1>6, <1>7, <2>2
  <2>3. QED BY <1>4, <2>1, <2>2
<1>13. QED BY <1>8, <1>10, <1>11, <1>12

(* A handle that a commit or a rollback is done with leaves the list.      *)
LEMMA CommitNewKeepsInv ==
  ASSUME TableInv, Kept, NEW h \in tx, h.op # "remove", NewCommitted(h)
  PROVE  KeyMatchesRow' /\ CommittedRowInUse' /\ NoRowLeak' /\ HandlesSound'
<1> DEFINE entry == tbl.hash[h.key]
<1>1. tbl \in Table /\ tx \subseteq Handle /\ h \in Handle
  BY DEF TableInv, TypeOK
<1>2. /\ tbl.used \in [Rows -> BOOLEAN] /\ tbl.key \in [Rows -> TunnelKey]
      /\ tbl.hash \in [TunnelKey -> Rows \union {NoRow}]
  BY <1>1, TableFields
<1>3. /\ tbl'.key = tbl.key
      /\ tbl'.hash = [tbl.hash EXCEPT ![h.key] = h.row]
      /\ entry = NoRow => tbl'.used = tbl.used
      /\ entry # NoRow => tbl'.used = [tbl.used EXCEPT ![entry] = FALSE]
      /\ tx' = tx \ {h}
  BY DEF NewCommitted
<1>4. /\ h.row \in Rows /\ h.key \in TunnelKey /\ h.row # NoRow
      /\ tbl.key[h.row] = h.key /\ tbl.used[h.row] /\ entry # h.row
      /\ entry \in Rows \union {NoRow}
      /\ entry # NoRow => tbl.key[entry] = h.key
  BY <1>1, <1>2, NoRowAssumption DEF Handle, Rows, TableInv, HandlesSound, KeyMatchesRow
<1>5. \A g \in tx' : /\ g \in tx /\ g # h /\ g.row \in Rows /\ g.key \in TunnelKey
                     /\ g.row # h.row /\ g.row # NoRow
                     /\ g.op = "remove" => g.key # h.key
                     /\ g.op # "remove" => g.row # entry
  BY <1>1, <1>3, <1>4, NoRowAssumption DEF Handle, Rows, TableInv, HandlesSound
<1>6. tbl.hash[h.key] = entry
  OBVIOUS
<1> HIDE DEF entry
<1>7. KeyMatchesRow'
  BY <1>2, <1>3, <1>4 DEF TableInv, KeyMatchesRow
<1>8. \A q : RemovalPending(q)' <=> RemovalPending(q)
  BY <1>3 DEF RemovalPending
<1>9. CommittedRowInUse'
  <2> SUFFICES ASSUME NEW j \in TunnelKey, NEW q, q = tbl'.hash[j], q # NoRow
               PROVE  tbl'.used[q] = ~RemovalPending(q)'
    BY DEF CommittedRowInUse, RemovalPending
  <2>1. CASE j = h.key
    <3>1. ~RemovalPending(h.row)'
      BY <1>5 DEF RemovalPending
    <3>2. QED BY <1>2, <1>3, <1>4, <2>1, <3>1
  <2>2. CASE j # h.key
    <3>1. tbl'.hash[j] = tbl.hash[j] /\ tbl.hash[j] \in Rows /\ tbl.key[tbl.hash[j]] = j
      BY <1>2, <1>3, <2>2 DEF TableInv, KeyMatchesRow
    <3>2. tbl'.used[tbl.hash[j]] = tbl.used[tbl.hash[j]]
      BY <1>2, <1>3, <1>4, <2>2, <3>1
    <3>3. QED BY <1>8, <2>2, <3>1, <3>2 DEF TableInv, CommittedRowInUse
  <2>3. QED BY <2>1, <2>2
<1>10. NoRowLeak'
  <2> SUFFICES ASSUME NEW q \in Rows, tbl'.used[q]
               PROVE  tbl'.hash[tbl'.key[q]] = q \/ \E g \in tx' : g.row = q
    BY DEF NoRowLeak, Holds
  <2>1. tbl.used[q] /\ q # entry
    BY <1>2, <1>3, <1>4, NoRowAssumption DEF Rows
  <2>2. CASE q = h.row
    BY <1>2, <1>3, <1>4, <2>2
  <2>3. CASE q # h.row /\ tbl.key[q] = h.key
    BY <1>3, <1>6, <2>1, <2>3 DEF TableInv, NoRowLeak, Holds
  <2>4. CASE q # h.row /\ tbl.key[q] # h.key
    BY <1>2, <1>3, <2>1, <2>4 DEF TableInv, NoRowLeak, Holds
  <2>5. QED BY <2>2, <2>3, <2>4
<1>11. HandlesSound'
  <2> SUFFICES ASSUME NEW g \in tx'
               PROVE  /\ tbl'.key[g.row] = g.key
                      /\ g.op = "remove" => tbl'.hash[g.key] = g.row
                      /\ g.op # "remove" => tbl'.used[g.row] /\ tbl'.hash[g.key] # g.row
                      /\ \A f \in tx' :
                           (f.row = g.row \/ (g.op = "remove" /\ f.key = g.key)) => f = g
    BY DEF HandlesSound
  <2>1. tbl'.key[g.row] = g.key
    BY <1>3, <1>5 DEF TableInv, HandlesSound
  <2>2. g.op = "remove" => tbl'.hash[g.key] = g.row
    BY <1>2, <1>3, <1>5 DEF TableInv, HandlesSound
  <2>3. g.op # "remove" => tbl'.used[g.row] /\ tbl'.hash[g.key] # g.row
    BY <1>2, <1>3, <1>4, <1>5 DEF TableInv, HandlesSound
  <2>4. \A f \in tx' :
          (f.row = g.row \/ (g.op = "remove" /\ f.key = g.key)) => f = g
    BY <1>5 DEF TableInv, HandlesSound
  <2>5. QED BY <2>1, <2>2, <2>3, <2>4
<1>12. QED BY <1>7, <1>9, <1>10, <1>11

LEMMA CommitRemovedKeepsInv ==
  ASSUME TableInv, Kept, NEW h \in tx, h.op = "remove", CommitTunnel(h)
  PROVE  KeyMatchesRow' /\ CommittedRowInUse' /\ NoRowLeak' /\ HandlesSound'
<1>1. tbl \in Table /\ tx \subseteq Handle /\ h \in Handle
  BY DEF TableInv, TypeOK
<1>2. /\ tbl.used \in [Rows -> BOOLEAN] /\ tbl.key \in [Rows -> TunnelKey]
      /\ tbl.hash \in [TunnelKey -> Rows \union {NoRow}]
  BY <1>1, TableFields
<1>3. /\ tbl'.used = tbl.used /\ tbl'.key = tbl.key
      /\ tbl'.hash = [tbl.hash EXCEPT ![h.key] = NoRow]
      /\ tx' = tx \ {h}
  BY CommitRemovedFields DEF CommitTunnel
<1>4. /\ h.row \in Rows /\ h.key \in TunnelKey /\ h.row # NoRow
      /\ tbl.key[h.row] = h.key /\ tbl.hash[h.key] = h.row
  BY <1>1, NoRowAssumption DEF Handle, Rows, TableInv, HandlesSound
<1>5. ~tbl.used[h.row]
  BY <1>4 DEF TableInv, CommittedRowInUse, RemovalPending
<1>6. \A g \in tx' : /\ g \in tx /\ g.row \in Rows /\ g.key \in TunnelKey
                     /\ g.row # h.row /\ g.row # NoRow /\ g.key # h.key
  BY <1>1, <1>3, NoRowAssumption DEF Handle, Rows, TableInv, HandlesSound
<1>7. KeyMatchesRow'
  BY <1>2, <1>3, <1>4 DEF TableInv, KeyMatchesRow
<1>8. \A q : q # h.row => (RemovalPending(q)' <=> RemovalPending(q))
  BY <1>3 DEF RemovalPending
<1>9. CommittedRowInUse'
  <2> SUFFICES ASSUME NEW j \in TunnelKey, NEW q, q = tbl'.hash[j], q # NoRow
               PROVE  tbl'.used[q] = ~RemovalPending(q)'
    BY DEF CommittedRowInUse, RemovalPending
  <2>1. j # h.key /\ tbl'.hash[j] = tbl.hash[j]
    BY <1>2, <1>3, <1>4
  <2>2. tbl.hash[j] # h.row
    BY <1>4, <2>1 DEF TableInv, KeyMatchesRow
  <2>3. QED BY <1>3, <1>8, <2>1, <2>2 DEF TableInv, CommittedRowInUse
<1>10. NoRowLeak'
  <2> SUFFICES ASSUME NEW q \in Rows, tbl.used[q]
               PROVE  tbl'.hash[tbl.key[q]] = q \/ \E g \in tx' : g.row = q
    BY <1>3 DEF NoRowLeak, Holds
  <2>1. q # h.row
    BY <1>5
  <2>2. CASE tbl.hash[tbl.key[q]] = q
    BY <1>2, <1>3, <1>4, <2>1, <2>2
  <2>3. CASE \E g \in tx : g.row = q
    BY <1>3, <2>1, <2>3
  <2>4. QED BY <2>2, <2>3 DEF TableInv, NoRowLeak, Holds
<1>11. HandlesSound'
  BY <1>2, <1>3, <1>6 DEF TableInv, HandlesSound
<1>12. QED BY <1>7, <1>9, <1>10, <1>11

LEMMA RollbackKeepsInv ==
  ASSUME TableInv, Kept, NEW h \in tx, RollbackTunnel(h)
  PROVE  KeyMatchesRow' /\ CommittedRowInUse' /\ NoRowLeak' /\ HandlesSound'
<1>1. tbl \in Table /\ tx \subseteq Handle /\ h \in Handle
  BY DEF TableInv, TypeOK
<1>2. /\ tbl.used \in [Rows -> BOOLEAN] /\ tbl.key \in [Rows -> TunnelKey]
      /\ tbl.hash \in [TunnelKey -> Rows \union {NoRow}]
  BY <1>1, TableFields
<1>3. /\ tbl'.key = tbl.key /\ tbl'.hash = tbl.hash
      /\ tbl'.used = [tbl.used EXCEPT ![h.row] = (h.op = "remove")]
      /\ tx' = tx \ {h}
  BY RollbackFields DEF RollbackTunnel
<1>4. /\ h.row \in Rows /\ h.key \in TunnelKey /\ h.row # NoRow
      /\ tbl.key[h.row] = h.key
      /\ h.op = "remove" <=> tbl.hash[h.key] = h.row
  BY <1>1, NoRowAssumption DEF Handle, Rows, TableInv, HandlesSound
<1>5. \A g \in tx' : /\ g \in tx /\ g.row \in Rows /\ g.key \in TunnelKey
                     /\ g.row # h.row /\ g.row # NoRow
  BY <1>1, <1>3, NoRowAssumption DEF Handle, Rows, TableInv, HandlesSound
<1>6. KeyMatchesRow'
  BY <1>3 DEF TableInv, KeyMatchesRow
<1>7. /\ \A q : q # h.row => (RemovalPending(q)' <=> RemovalPending(q))
      /\ ~RemovalPending(h.row)'
  BY <1>3, <1>5 DEF RemovalPending
<1>8. CommittedRowInUse'
  <2> SUFFICES ASSUME NEW j \in TunnelKey, NEW q, q = tbl.hash[j], q # NoRow
               PROVE  tbl'.used[q] = ~RemovalPending(q)'
    BY <1>3 DEF CommittedRowInUse, RemovalPending
  <2>1. CASE q = h.row
    <3>1. h.op = "remove"
      BY <1>4, <2>1 DEF TableInv, KeyMatchesRow
    <3>2. QED BY <1>2, <1>3, <1>4, <1>7, <2>1, <3>1
  <2>2. CASE q # h.row
    <3>1. tbl'.used[q] = tbl.used[q]
      BY <1>2, <1>3, <2>2
    <3>2. QED BY <1>7, <2>2, <3>1 DEF TableInv, CommittedRowInUse
  <2>3. QED BY <2>1, <2>2
<1>9. NoRowLeak'
  <2> SUFFICES ASSUME NEW q \in Rows, tbl'.used[q]
               PROVE  tbl.hash[tbl.key[q]] = q \/ \E g \in tx' : g.row = q
    BY <1>3 DEF NoRowLeak, Holds
  <2>1. CASE q = h.row
    BY <1>2, <1>3, <1>4, <2>1
  <2>2. CASE q # h.row
    BY <1>2, <1>3, <2>2 DEF TableInv, NoRowLeak, Holds
  <2>3. QED BY <2>1, <2>2
<1>10. HandlesSound'
  BY <1>2, <1>3, <1>5 DEF TableInv, HandlesSound
<1>11. QED BY <1>6, <1>8, <1>9, <1>10

-----------------------------------------------------------------------------
(***************************************************************************)
(* What each step of Next is while the protocol is kept.                   *)
(***************************************************************************)
(* What has slipped stays on the record.                                   *)
LEMMA OnceKept == [Next]_vars /\ Kept' => Kept
<1> SUFFICES ASSUME [Next]_vars PROVE slips \subseteq slips'
  BY DEF Kept
<1>1. ASSUME NEW r, NEW broken, Note(broken) \/ NoteTaken(r, broken)
      PROVE  slips \subseteq slips'
  BY <1>1 DEF Note, NoteTaken
<1>2. CASE \E ip \in LocalIps : (\E v \in Info : SetupTunnel(ip, v)) \/ SetupFails(ip)
  BY <1>1, <1>2 DEF SetupTunnel, SetupFails, Take
<1>3. CASE \E r \in Rows : \/ \E v \in Info : ModifyTunnel(r, v)
                           \/ CopyTunnel(r) \/ RemoveTunnel(r)
                           \/ CommitOther(r) \/ RollbackOther(r)
  <2>1. PICK r \in Rows : \/ \E v \in Info : ModifyTunnel(r, v)
                          \/ CopyTunnel(r) \/ RemoveTunnel(r)
                          \/ CommitOther(r) \/ RollbackOther(r)
    BY <1>3
  <2>2. CASE \E v \in Info : ModifyTunnel(r, v)
    BY <1>1, <2>2 DEF ModifyTunnel, Take
  <2>3. CASE CopyTunnel(r)
    BY <1>1, <2>3 DEF CopyTunnel, Take
  <2>4. CASE RemoveTunnel(r) \/ CommitOther(r)
    BY <1>1, <2>4 DEF RemoveTunnel, CommitOther
  <2>5. CASE RollbackOther(r)
    BY <2>5 DEF RollbackOther
  <2>6. QED BY <2>1, <2>2, <2>3, <2>4, <2>5
<1>4. CASE \/ \E m \in {"commit", "rollback"} : Decide(m)
           \/ \E h \in tx : GiveUp(h) \/ CommitTunnel(h) \/ RollbackTunnel(h)
           \/ Close \/ UNCHANGED vars
  BY <1>4 DEF Decide, GiveUp, CommitTunnel, RollbackTunnel, Close, vars
<1>5. QED BY <1>2, <1>3, <1>4 DEF Next

LEMMA SetupTakes ==
  ASSUME TableInv, Kept', NEW ip \in LocalIps, NEW v \in Info, SetupTunnel(ip, v)
  PROVE  /\ tbl' \in Table
         /\ \E k \in TunnelKey, r \in Rows :
              /\ tbl.hash[k] = NoRow /\ Taken(k, r, v, "add")
              /\ r # tbl.lastSlot
              /\ tbl'.lastId = k.te_id /\ k.te_id # tbl.lastId
              /\ \A i \in Rows \ {tbl.lastId} :
                   Ahead(MAX_TUNNEL_COUNT, tbl.lastId, i)
                     < Ahead(MAX_TUNNEL_COUNT, tbl.lastId, k.te_id)
                   => tbl.hash[[ip_addr |-> ip, te_id |-> i]] # NoRow
<1>1. ASSUME NEW k, NEW r, TakenAs(k, r, v, TRUE, "add", {})
      PROVE  Taken(k, r, v, "add")
  <2>1. ~RemovalPending(r)
    BY <1>1 DEF TakenAs, Kept
  <2>2. QED BY <1>1, <2>1 DEF Taken
<1>2. TypeOK
  BY DEF TableInv
<1>3. QED BY <1>1, <1>2, SetupStep

(* A tunnel that is modified was not held, so its row is in use and is not *)
(* on the lists as something else.                                         *)
LEMMA ModifyTakes ==
  ASSUME TableInv, Kept, Kept', NEW old \in Rows,
         CopyTunnel(old) \/ \E v \in Info : ModifyTunnel(old, v)
  PROVE  \E k \in TunnelKey, r \in Rows, v \in Info :
           /\ tbl' \in Table /\ tbl.hash[k] # NoRow /\ ~Held(k)
           /\ tbl'.lastId = tbl.lastId /\ r # tbl.lastSlot
           /\ Taken(k, r, v, "modify")
<1> DEFINE k == tbl.key[old]
<1>1. TypeOK /\ tbl \in Table /\ k \in TunnelKey
  BY TableFields DEF TableInv, TypeOK
<1>2. /\ tbl' \in Table /\ tbl.hash[k] # NoRow /\ tbl'.lastId = tbl.lastId
      /\ ~OffProtocol(old)
      /\ \E r \in Rows, v \in Info, u \in BOOLEAN :
           /\ r # tbl.lastSlot /\ (tbl.used[old] => u)
           /\ TakenAs(k, r, v, u, "modify", OldHandles(old))
  <2>1. CASE CopyTunnel(old)
    BY <1>1, <2>1, CopyStep DEF Kept
  <2>2. CASE \E v \in Info : ModifyTunnel(old, v)
    BY <1>1, <2>2, ModifyStep DEF Kept
  <2>3. QED BY <2>1, <2>2
<1>3. tbl.hash[k] = old /\ ~Held(k)
  BY <1>2 DEF OffProtocol
<1>4. OldHandles(old) = {}
  BY <1>3 DEF OldHandles, Held, TableInv, HandlesSound
<1>5. ~RemovalPending(old)
  BY <1>4 DEF OldHandles, RemovalPending
<1>6. tbl.used[old]
  BY <1>1, <1>2, <1>3, <1>5 DEF TableInv, CommittedRowInUse
<1>7. PICK r \in Rows, v \in Info, u \in BOOLEAN :
           r # tbl.lastSlot /\ u /\ TakenAs(k, r, v, u, "modify", {})
  BY <1>2, <1>4, <1>6
<1>8. TakenAs(k, r, v, TRUE, "modify", {}) /\ ~RemovalPending(r)
  BY <1>7 DEF TakenAs, Kept
<1>9. QED BY <1>1, <1>2, <1>3, <1>7, <1>8 DEF Taken

(* Committing or rolling back what the handler left alone does nothing.    *)
LEMMA OthersIdle ==
  ASSUME TableInv, Kept, Kept', NEW r \in Rows, CommitOther(r) \/ RollbackOther(r)
  PROVE  /\ tbl'.used = tbl.used /\ tbl'.key = tbl.key
         /\ tbl'.info = tbl.info /\ tbl'.hash = tbl.hash
         /\ tx' = tx /\ mode' = mode /\ mode # "open"
         /\ zero' = zero \/ PlaceKeys(tbl')
<1>1. tbl \in Table /\ tbl.key[r] \in TunnelKey /\ tbl.used \in [Rows -> BOOLEAN]
  BY TableFields DEF TableInv, TypeOK
<1>2. ~Holds(r) /\ ~RemovalPending(r)
  BY DEF CommitOther, RollbackOther, Holds, RemovalPending
<1>3. r # NoRow
  BY NoRowAssumption DEF Rows
<1>4. tbl.used[r] <=> tbl.hash[tbl.key[r]] = r
  <2>1. tbl.used[r] => tbl.hash[tbl.key[r]] = r
    BY <1>2 DEF TableInv, NoRowLeak
  <2>2. tbl.hash[tbl.key[r]] = r => tbl.used[r]
    BY <1>1, <1>2, <1>3 DEF TableInv, CommittedRowInUse
  <2>3. QED BY <2>1, <2>2
<1>5. CASE CommitOther(r)
  <2>1. tbl.used[r]
    BY <1>5 DEF CommitOther, Note, Kept
  <2>2. tunnel_commit(tbl, r) = tbl
    BY <1>3, <1>4, <2>1 DEF tunnel_commit
  <2>3. QED BY <1>5, <2>2 DEF CommitOther
<1>6. CASE RollbackOther(r)
  <2>1. tbl' = tunnel_rollback(tbl, r) /\ tx' = tx /\ mode' = mode
        /\ zero' = zero /\ mode = "rollback"
    BY <1>6 DEF RollbackOther
  <2>2. \E b \in BOOLEAN : tbl.used[r] = b /\ (tbl' = SetUsed(tbl, r, b) \/ tbl' = tbl)
    BY <1>1, <1>4, <2>1 DEF tunnel_rollback
  <2>3. PICK b \in BOOLEAN : tbl.used[r] = b /\ (tbl' = SetUsed(tbl, r, b) \/ tbl' = tbl)
    BY <2>2
  <2>4. [tbl.used EXCEPT ![r] = b] = tbl.used
    BY <1>1, <2>3
  <2>5. /\ tbl'.used = tbl.used /\ tbl'.key = tbl.key
        /\ tbl'.info = tbl.info /\ tbl'.hash = tbl.hash
    <3>1. /\ SetUsed(tbl, r, b).used = tbl.used /\ SetUsed(tbl, r, b).key = tbl.key
          /\ SetUsed(tbl, r, b).info = tbl.info /\ SetUsed(tbl, r, b).hash = tbl.hash
      BY <1>1, <2>4, SetUsedFields
    <3>2. QED BY <2>3, <3>1
  <2>6. QED BY <2>1, <2>5
<1>7. QED BY <1>5, <1>6

-----------------------------------------------------------------------------
LEMMA InitInv == Init => TableInv
<1> SUFFICES ASSUME Init, TypeOK PROVE TableInv
  BY InitTypeOK
<1>1. /\ tx = {} /\ tbl.used = [r \in Rows |-> FALSE]
      /\ tbl.hash = [k \in TunnelKey |-> NoRow]
  BY DEF Init, EmptyTable
<1>2. QED BY <1>1 DEF TableInv, KeyMatchesRow, CommittedRowInUse, NoRowLeak, Holds, HandlesSound

LEMMA StepInv == TableInv /\ [Next]_vars => TableInv'
<1> SUFFICES ASSUME TableInv, [Next]_vars, Kept', Kept
             PROVE  KeyMatchesRow' /\ CommittedRowInUse' /\ NoRowLeak' /\ HandlesSound'
  BY StepTypeOK, OnceKept
     DEF TableInv, KeyMatchesRow, CommittedRowInUse, NoRowLeak, HandlesSound
<1>1. TypeOK /\ TypeOK'
  BY StepTypeOK DEF TableInv
<1>2. CASE \E ip \in LocalIps, v \in Info : SetupTunnel(ip, v)
  BY <1>2, SetupTakes, TakenKeepsInv
<1>3. ASSUME /\ tbl'.used = tbl.used /\ tbl'.key = tbl.key
             /\ tbl'.hash = tbl.hash /\ tx' = tx
      PROVE  KeyMatchesRow' /\ CommittedRowInUse' /\ NoRowLeak' /\ HandlesSound'
  BY <1>3 DEF TableInv, KeyMatchesRow, CommittedRowInUse, NoRowLeak, Holds,
              HandlesSound, RemovalPending
<1>4. CASE \E ip \in LocalIps : SetupFails(ip)
  BY <1>1, <1>3, <1>4, SetupFailsStep
<1>5. CASE \E r \in Rows : CopyTunnel(r) \/ \E v \in Info : ModifyTunnel(r, v)
  BY <1>5, ModifyTakes, TakenKeepsInv
<1>6. CASE \E r \in Rows : RemoveTunnel(r)
  <2>1. PICK r \in Rows : RemoveTunnel(r)
    BY <1>6
  <2>2. Removed(tbl.key[r], r) /\ tbl.key[r] \in TunnelKey
    BY <2>1, RemoveStep DEF Removed
  <2>3. QED BY <2>2, RemoveKeepsInv
<1>7. CASE \/ \E m \in {"commit", "rollback"} : Decide(m)
           \/ Close \/ UNCHANGED vars
  BY <1>3, <1>7 DEF Decide, Close, vars
<1>8. CASE \E h \in tx : GiveUp(h)
  <2>1. PICK h \in tx : GiveUp(h)
    BY <1>8
  <2>2. h.op # "remove"
    BY <2>1 DEF GiveUp
  <2>3. QED BY <2>1, <2>2, GiveUpFields, CommitNewKeepsInv
<1>9. CASE \E h \in tx : CommitTunnel(h)
  BY <1>9, CommitNewFields, CommitNewKeepsInv, CommitRemovedKeepsInv
<1>10. CASE \E h \in tx : RollbackTunnel(h)
  BY <1>10, RollbackKeepsInv
<1>11. CASE \E r \in Rows : CommitOther(r) \/ RollbackOther(r)
  BY <1>3, <1>11, OthersIdle
<1>12. QED
  BY <1>2, <1>4, <1>5, <1>6, <1>7, <1>8, <1>9, <1>10, <1>11 DEF Next

(***************************************************************************)
(* Keys, rows and handles stay consistent through every interleaving of    *)
(* changes, commits and rollbacks, on a table of any size, for as long as  *)
(* the protocol of the module's head is kept.                              *)
(***************************************************************************)
THEOREM TableSafe == Spec => []TableInv
BY InitInv, StepInv, PTL DEF Spec

(* A look-up never returns another tunnel's row, nor one that tunnel_alloc *)
(* could give away behind the reader's back, before anybody has removed    *)
(* and changed one tunnel, committed a row given back or reused a removed  *)
(* one.                                                                    *)
THEOREM LookupsSound == Spec => [](KeyMatchesRow /\ CommittedRowInUse)
<1>1. TableInv => KeyMatchesRow /\ CommittedRowInUse
  BY DEF TableInv
<1>2. QED BY <1>1, TableSafe, PTL

(* However many handlers commit, roll back or give a session up, no row is *)
(* lost to the table while the protocol is kept.                           *)
THEOREM NothingLeaks == Spec => []NoRowLeak
<1>1. TableInv => NoRowLeak
  BY DEF TableInv
<1>2. QED BY <1>1, TableSafe, PTL

-----------------------------------------------------------------------------
(***************************************************************************)
(* UniqueNewKeys: a key that is handed out is not reserved, but its id     *)
(* comes round again only after the search has passed every other id, and  *)
(* it passes an id only when a row carries it.  By then every row is taken *)
(* and no tunnel can be set up.                                            *)
(***************************************************************************)
Occupied(r) == tbl.used[r] \/ RemovalPending(r)
NoRowLeft == \A r \in Rows : Occupied(r) \/ r = tbl.lastSlot
Carried(i) == \E r \in Rows : Occupied(r) /\ tbl.key[r].te_id = i

NewKeysInv ==
  Kept /\ mode = "open" => \A h \in tx :
    /\ h.op = "modify" => tbl.hash[h.key] # NoRow
    /\ h.op = "add" =>
         /\ tbl.hash[h.key] = NoRow
         /\ NoRowLeft \/ \A i \in Arc(MAX_TUNNEL_COUNT, h.key.te_id, tbl.lastId) : Carried(i)

LEMMA SetupFailsScan ==
  ASSUME TypeOK, NEW ip \in LocalIps, SetupFails(ip)
  PROVE  NoRowLeft'
<1> DEFINE k == tunnel_key_alloc(tbl, ip).key
           s == tunnel_key_alloc(tbl, ip).tbl
           b == tunnel_add(s, k)
<1>1. tbl \in Table
  BY DEF TypeOK
<1>2. b.row = NoRow /\ tbl' = b.tbl /\ tx' = tx /\ KeyAvailable(tbl, ip)
  BY DEF SetupFails
<1>3. /\ k \in TunnelKey /\ tbl.hash[k] = NoRow
      /\ k.te_id \in Rows /\ s = SetLastId(tbl, k.te_id)
  BY <1>1, <1>2, KeyAllocResult, KeyAllocScan
<1> HIDE DEF k, s
<1>4. /\ s \in Table /\ s.hash = tbl.hash
  BY <1>1, <1>3, SetLastIdFields
<1>5. b = tunnel_alloc(s, k)
  BY <1>3, <1>4 DEF tunnel_add
<1>6. FreeRows(s) \ {s.lastSlot} = {} /\ b.tbl = s
  BY <1>2, <1>3, <1>4, <1>5, AllocResult, AllocScan, NoRowAssumption DEF Rows
<1>7. \A r \in Rows : s.used[r] \/ r = s.lastSlot
  BY <1>6 DEF FreeRows
<1>8. tbl' = s
  BY <1>2, <1>6
<1> HIDE DEF b
<1>9. QED BY <1>7, <1>8 DEF NoRowLeft, Occupied

(* Taking a row leaves every row occupied that was, with its key.          *)
LEMMA TakenOccupies ==
  ASSUME TableInv, NEW k \in TunnelKey, NEW r \in Rows, NEW v \in Info,
         NEW op \in {"add", "modify"}, Taken(k, r, v, op)
  PROVE  /\ ~Occupied(r) /\ Occupied(r)' /\ tbl'.key[r] = k
         /\ \A q \in Rows : Occupied(q) => Occupied(q)' /\ tbl'.key[q] = tbl.key[q]
<1>1. tbl.used \in [Rows -> BOOLEAN] /\ tbl.key \in [Rows -> TunnelKey]
  BY TableFields DEF TableInv, TypeOK
<1>2. ~Occupied(r)
  BY DEF Taken, TakenAs, Occupied
<1>3. \A q : RemovalPending(q) => RemovalPending(q)'
  BY DEF Taken, TakenAs, RemovalPending
<1>4. QED BY <1>1, <1>2, <1>3 DEF Taken, TakenAs, Occupied

(* The id of every key the hash knows is carried by an occupied row.       *)
LEMMA KnownIsCarried ==
  ASSUME TableInv, Kept, NEW ip \in LocalIps, NEW i \in Rows,
         tbl.hash[[ip_addr |-> ip, te_id |-> i]] # NoRow
  PROVE  Carried(i)
<1> DEFINE k == [ip_addr |-> ip, te_id |-> i]
<1>1. k \in TunnelKey /\ k.te_id = i
  BY DEF TunnelKey
<1> HIDE DEF k
<1>2. tbl.hash[k] \in Rows /\ tbl.hash[k] # NoRow
  BY <1>1, TableFields DEF TableInv, TypeOK, k
<1>3. /\ tbl.key[tbl.hash[k]] = k
      /\ tbl.used[tbl.hash[k]] = ~RemovalPending(tbl.hash[k])
  BY <1>1, <1>2 DEF TableInv, KeyMatchesRow, CommittedRowInUse
<1>4. QED BY <1>1, <1>2, <1>3 DEF Carried, Occupied

(* A set-up: the key is new, and what the search for it passed is carried. *)
LEMMA SetupKeepsNewKeys ==
  ASSUME TableInv, NewKeysInv, UniqueNewKeys, Kept, Kept',
         NEW ip \in LocalIps, NEW v \in Info, SetupTunnel(ip, v)
  PROVE  NewKeysInv' /\ UniqueNewKeys'
<1> DEFINE n == MAX_TUNNEL_COUNT
<1>1. PICK k \in TunnelKey, r \in Rows :
           /\ tbl.hash[k] = NoRow /\ Taken(k, r, v, "add")
           /\ r # tbl.lastSlot
           /\ tbl'.lastId = k.te_id /\ k.te_id # tbl.lastId
           /\ \A i \in Rows \ {tbl.lastId} :
                Ahead(n, tbl.lastId, i) < Ahead(n, tbl.lastId, k.te_id)
                => tbl.hash[[ip_addr |-> ip, te_id |-> i]] # NoRow
  BY SetupTakes
<1>2. /\ tx' = tx \union {[row |-> r, key |-> k, op |-> "add"]}
      /\ mode = "open" /\ tbl'.hash = tbl.hash
  BY <1>1 DEF Taken, TakenAs
<1>3. /\ tbl.lastId \in Rows /\ k.te_id \in Rows
      /\ \A h \in tx : h.key \in TunnelKey /\ h.key.te_id \in Rows /\ h.row \in Rows
      /\ n \in Nat \ {0} /\ Rows = 0 .. n - 1
      /\ tbl.key \in [Rows -> TunnelKey]
  BY TableFields, TunnelCountAssumption DEF TableInv, TypeOK, Handle, TunnelKey, Rows
<1>4. /\ ~Occupied(r) /\ Occupied(r)' /\ tbl'.key[r] = k
      /\ \A q \in Rows : Occupied(q) => Occupied(q)' /\ tbl'.key[q] = tbl.key[q]
  BY <1>1, TakenOccupies
<1>5. ~NoRowLeft
  BY <1>1, <1>4 DEF NoRowLeft
<1>6. \A i \in Rows \ {tbl.lastId} :
         Ahead(n, tbl.lastId, i) < Ahead(n, tbl.lastId, k.te_id) => Carried(i)
  BY <1>1, KnownIsCarried
<1>7. \A h \in tx : h.op = "add" =>
         \A i \in Arc(n, h.key.te_id, tbl.lastId) : Carried(i)
  BY <1>2, <1>5 DEF NewKeysInv
<1>8. \A h \in tx : h.op = "add" => tbl.lastId \in Arc(n, h.key.te_id, tbl.lastId)
  BY <1>3, ArcEnd
<1>9. ASSUME NEW g \in tx, g.key = k
      PROVE  FALSE
  <2>1. CASE g.op = "remove"
    BY <1>1, <1>3, <1>9, <2>1, NoRowAssumption DEF TableInv, HandlesSound, Rows
  <2>2. CASE g.op = "modify"
    BY <1>1, <1>2, <1>9, <2>2 DEF NewKeysInv
  <2>3. CASE g.op = "add"
    <3>1. ASSUME NEW i \in Rows PROVE Carried(i)
      <4>1. i \in Arc(n, k.te_id, tbl.lastId)
            \/ Ahead(n, tbl.lastId, i) < Ahead(n, tbl.lastId, k.te_id)
        BY <1>1, <1>3, ArcCloses
      <4>2. CASE i = tbl.lastId
        BY <1>7, <1>8, <1>9, <2>3, <4>2
      <4>3. QED BY <1>6, <1>7, <1>9, <2>3, <4>1, <4>2
    <3> DEFINE S == {q \in Rows : Occupied(q)}
               id == [q \in Rows |-> tbl.key[q].te_id]
    <3>2. /\ S \in SUBSET Rows /\ id \in [Rows -> Rows]
          /\ \A i \in Rows : \E q \in S : id[q] = i
      BY <1>3, <3>1 DEF Carried, TunnelKey
    <3> HIDE DEF id, S
    <3>3. S = Rows
      BY <3>2, AllRowsTaken
    <3>4. QED BY <1>4, <3>3 DEF S
  <2>4. g.op \in {"add", "modify", "remove"}
    BY DEF TableInv, TypeOK, Handle, Ops
  <2>5. QED BY <2>1, <2>2, <2>3, <2>4
<1> DEFINE new == [row |-> r, key |-> k, op |-> "add"]
<1>10. new.key = k /\ new.op = "add" /\ tx' = tx \union {new}
  BY <1>2
<1> HIDE DEF new
<1>11. UniqueNewKeys'
  BY <1>9, <1>10 DEF UniqueNewKeys
<1>12. \A i \in Rows : Carried(i) => Carried(i)'
  BY <1>4 DEF Carried
<1>13. Carried(k.te_id)'
  BY <1>4 DEF Carried
<1>14. ASSUME NEW h \in tx', h.op = "add", NEW i \in Arc(n, h.key.te_id, k.te_id)
       PROVE  Carried(i)'
  <2>1. CASE h \in tx
    <3>1. i \in Rows
      BY <1>3 DEF Arc
    <3>2. \/ i \in Arc(n, h.key.te_id, tbl.lastId) \/ i = k.te_id
          \/ Ahead(n, tbl.lastId, i) < Ahead(n, tbl.lastId, k.te_id)
      BY <1>3, <1>14, <2>1, ArcGrows
    <3>3. \A a \in Arc(n, h.key.te_id, tbl.lastId) : Carried(a)
      BY <1>7, <1>14, <2>1
    <3>4. Carried(tbl.lastId)
      BY <1>8, <1>14, <2>1, <3>3
    <3>5. Carried(i) \/ i = k.te_id
      BY <1>6, <3>1, <3>2, <3>3, <3>4
    <3>6. QED BY <1>12, <1>13, <3>1, <3>5
  <2>2. CASE h = new
    <3>1. i \in Rows /\ Ahead(n, k.te_id, i) <= Ahead(n, k.te_id, k.te_id)
      BY <1>3, <1>10, <1>14, <2>2 DEF Arc
    <3>2. i = k.te_id
      BY <1>3, <3>1, ArcOfOne
    <3>3. QED BY <1>13, <3>2
  <2>3. QED BY <1>10, <2>1, <2>2
<1>15. NewKeysInv'
  <2>1. \A h \in tx' : /\ h.op = "modify" => tbl'.hash[h.key] # NoRow
                       /\ h.op = "add" => tbl'.hash[h.key] = NoRow
    BY <1>1, <1>2, <1>10 DEF NewKeysInv
  <2>2. QED BY <1>1, <1>14, <2>1 DEF NewKeysInv
<1>16. QED BY <1>11, <1>15

LEMMA StepNewKeys ==
  ASSUME TableInv, NewKeysInv, UniqueNewKeys, [Next]_vars
  PROVE  NewKeysInv' /\ UniqueNewKeys'
<1> SUFFICES ASSUME Kept', Kept PROVE NewKeysInv' /\ UniqueNewKeys'
  BY OnceKept DEF NewKeysInv, UniqueNewKeys
<1>1. TypeOK /\ \A h \in tx : h.row \in Rows /\ h.key \in TunnelKey
  BY DEF TableInv, TypeOK, Handle
<1>2. CASE \E ip \in LocalIps, v \in Info : SetupTunnel(ip, v)
  BY <1>2, SetupKeepsNewKeys
<1>3. ASSUME NEW ip \in LocalIps, SetupFails(ip)
      PROVE  NewKeysInv' /\ UniqueNewKeys'
  <2>1. tbl'.hash = tbl.hash /\ tx' = tx /\ mode' = mode
    BY <1>1, <1>3, SetupFailsStep
  <2>2. NoRowLeft'
    BY <1>1, <1>3, SetupFailsScan
  <2>3. QED BY <2>1, <2>2 DEF NewKeysInv, UniqueNewKeys
<1>4. CASE \E r \in Rows : CopyTunnel(r) \/ \E v \in Info : ModifyTunnel(r, v)
  <2>1. PICK k \in TunnelKey, r \in Rows, v \in Info :
               /\ tbl.hash[k] # NoRow /\ ~Held(k)
               /\ tbl'.lastId = tbl.lastId /\ r # tbl.lastSlot
               /\ Taken(k, r, v, "modify")
    BY <1>4, ModifyTakes
  <2> DEFINE new == [row |-> r, key |-> k, op |-> "modify"]
  <2>2. /\ new.key = k /\ new.op = "modify" /\ tx' = tx \union {new}
        /\ tbl'.hash = tbl.hash /\ mode' = mode /\ mode = "open"
    BY <2>1 DEF Taken, TakenAs
  <2> HIDE DEF new
  <2>3. /\ ~Occupied(r)
        /\ \A q \in Rows : Occupied(q) => Occupied(q)' /\ tbl'.key[q] = tbl.key[q]
    BY <2>1, TakenOccupies
  <2>4. ~NoRowLeft /\ \A i : Carried(i) => Carried(i)'
    BY <2>1, <2>3 DEF NoRowLeft, Carried
  <2>5. \A h \in tx' : h.op = "add" =>
           \A i \in Arc(MAX_TUNNEL_COUNT, h.key.te_id, tbl'.lastId) : Carried(i)'
    BY <2>1, <2>2, <2>4 DEF NewKeysInv
  <2>6. \A h \in tx' : /\ h.op = "modify" => tbl'.hash[h.key] # NoRow
                       /\ h.op = "add" => tbl'.hash[h.key] = NoRow
    BY <2>1, <2>2 DEF NewKeysInv
  <2>7. UniqueNewKeys'
    BY <2>1, <2>2 DEF UniqueNewKeys, Held
  <2>8. QED BY <2>5, <2>6, <2>7 DEF NewKeysInv
<1>5. ASSUME NEW r \in Rows, RemoveTunnel(r)
      PROVE  NewKeysInv' /\ UniqueNewKeys'
  <2> PICK k : k = tbl.key[r]
    OBVIOUS
  <2> DEFINE new == [row |-> r, key |-> k, op |-> "remove"]
  <2>1. Removed(k, r)
    BY <1>5, RemoveStep
  <2>2. /\ new.row = r /\ new.key = k /\ new.op = "remove"
        /\ tx' = tx \union {new} /\ mode' = mode
        /\ \A h \in tx : h.key = k => h = new
    BY <2>1 DEF Removed
  <2> HIDE DEF new
  <2>3. /\ tbl'.used = [tbl.used EXCEPT ![r] = FALSE] /\ tbl'.key = tbl.key
        /\ tbl'.hash = tbl.hash
        /\ tbl'.lastSlot = tbl.lastSlot /\ tbl'.lastId = tbl.lastId
    BY <2>1 DEF Removed
  <2>4. \A q \in Rows : Occupied(q) => Occupied(q)'
    <3>1. RemovalPending(r)' /\ \A q : RemovalPending(q) => RemovalPending(q)'
      BY <2>2 DEF RemovalPending
    <3>2. tbl.used \in [Rows -> BOOLEAN]
      BY <1>1, TableFields DEF TypeOK
    <3>3. QED BY <2>3, <3>1, <3>2 DEF Occupied
  <2>5. /\ NoRowLeft => NoRowLeft'
        /\ \A i : Carried(i) => Carried(i)'
    BY <2>3, <2>4 DEF NoRowLeft, Carried
  <2>6. UniqueNewKeys'
    BY <2>2 DEF UniqueNewKeys
  <2>7. NewKeysInv'
    BY <2>2, <2>3, <2>5 DEF NewKeysInv
  <2>8. QED BY <2>6, <2>7
<1>6. CASE \E m \in {"commit", "rollback"} : Decide(m)
  BY <1>6 DEF Decide, NewKeysInv, UniqueNewKeys
<1>7. ASSUME NEW h \in tx, GiveUp(h)
      PROVE  NewKeysInv' /\ UniqueNewKeys'
  <2>1. /\ h.op = "add" /\ mode = "open" /\ tx' = tx \ {h}
        /\ tbl.hash[h.key] = NoRow
    BY <1>7 DEF GiveUp, NewKeysInv
  <2>2. /\ tbl'.key = tbl.key /\ tbl'.used = tbl.used
        /\ tbl'.hash = [tbl.hash EXCEPT ![h.key] = h.row]
    BY <1>7, <2>1, GiveUpFields DEF NewCommitted
  <2>3. tbl'.lastSlot = tbl.lastSlot /\ tbl'.lastId = tbl.lastId
    <3>1. tbl' = tunnel_commit(tbl, h.row)
      BY <1>7, <2>1 DEF GiveUp, tunnel_remove
    <3>2. tbl.key[h.row] = h.key /\ tbl \in Table
      BY <1>1 DEF TableInv, HandlesSound, TypeOK
    <3>3. tbl' = SetHash(tbl, h.key, h.row)
      BY <2>1, <3>1, <3>2 DEF tunnel_commit
    <3>4. QED BY <3>2, <3>3 DEF SetHash, Table
  <2>4. h.row # NoRow /\ tbl.hash \in [TunnelKey -> Rows \union {NoRow}]
    BY <1>1, TableFields, NoRowAssumption DEF Rows, TypeOK
  <2>5. \A g \in tx' : g \in tx /\ g.key # h.key /\ tbl'.hash[g.key] = tbl.hash[g.key]
    <3>1. ASSUME NEW g \in tx' PROVE g.key # h.key
      BY <2>1, <3>1 DEF UniqueNewKeys
    <3>2. QED BY <1>1, <2>1, <2>2, <2>4, <3>1
  <2>6. \A q \in Rows : Occupied(q) => Occupied(q)'
    BY <2>1, <2>2 DEF Occupied, RemovalPending
  <2>7. /\ NoRowLeft => NoRowLeft'
        /\ \A i : Carried(i) => Carried(i)'
    BY <2>2, <2>3, <2>6 DEF NoRowLeft, Carried
  <2>8. NewKeysInv'
    BY <2>1, <2>3, <2>5, <2>7 DEF NewKeysInv
  <2>9. UniqueNewKeys'
    BY <2>1 DEF UniqueNewKeys
  <2>10. QED BY <2>8, <2>9
<1>8. CASE \E h \in tx : CommitTunnel(h) \/ RollbackTunnel(h)
  BY <1>8 DEF CommitTunnel, RollbackTunnel, NewKeysInv, UniqueNewKeys
<1>9. CASE \E r \in Rows : CommitOther(r) \/ RollbackOther(r)
  BY <1>9 DEF CommitOther, RollbackOther, NewKeysInv, UniqueNewKeys
<1>10. CASE Close
  BY <1>10 DEF Close, NewKeysInv, UniqueNewKeys
<1>11. CASE UNCHANGED vars
  BY <1>11 DEF vars, NewKeysInv, UniqueNewKeys, NoRowLeft, Carried, Occupied, RemovalPending
<1>12. QED
  BY <1>2, <1>3, <1>4, <1>5, <1>6, <1>7, <1>8, <1>9, <1>10, <1>11 DEF Next

(* No two tunnels a handler sets up, however many, get the same key, and   *)
(* none of them that of a tunnel it modifies or removes, before anybody    *)
(* has left the protocol.                                                  *)
THEOREM NewKeysUnique == Spec => []UniqueNewKeys
<1>1. Init => NewKeysInv /\ UniqueNewKeys
  BY DEF Init, NewKeysInv, UniqueNewKeys
<1>2. TableInv /\ NewKeysInv /\ UniqueNewKeys /\ [Next]_vars => NewKeysInv' /\ UniqueNewKeys'
  BY StepNewKeys
<1>3. QED BY <1>1, <1>2, TableSafe, PTL DEF Spec

-----------------------------------------------------------------------------
LEMMA StepFreezesRows ==
  ASSUME TableInv, [Next]_vars, Kept', NEW k \in TunnelKey, tbl.hash[k] # NoRow
  PROVE  /\ tbl'.key[tbl.hash[k]] = tbl.key[tbl.hash[k]]
         /\ tbl'.info[tbl.hash[k]] = tbl.info[tbl.hash[k]]
<1>1. tbl \in Table /\ TypeOK /\ Kept
  BY OnceKept DEF TableInv, TypeOK
<1>2. /\ tbl.key \in [Rows -> TunnelKey] /\ tbl.info \in [Rows -> Info]
      /\ tbl.hash \in [TunnelKey -> Rows \union {NoRow}]
  BY <1>1, TableFields
<1>3. ASSUME NEW j \in TunnelKey, NEW r \in Rows, NEW v \in Info, NEW op,
             Taken(j, r, v, op)
      PROVE  /\ tbl'.key[tbl.hash[k]] = tbl.key[tbl.hash[k]]
             /\ tbl'.info[tbl.hash[k]] = tbl.info[tbl.hash[k]]
  <2>1. ~tbl.used[r] /\ ~RemovalPending(r)
    BY <1>3 DEF Taken, TakenAs
  <2>2. tbl.hash[k] # r
    BY <1>1, <2>1 DEF TableInv, CommittedRowInUse
  <2>3. QED BY <1>2, <1>3, <2>2 DEF Taken, TakenAs
<1>4. CASE \E ip \in LocalIps, v \in Info : SetupTunnel(ip, v)
  BY <1>3, <1>4, SetupTakes
<1>5. CASE \E ip \in LocalIps : SetupFails(ip)
  BY <1>1, <1>5, SetupFailsStep
<1>6. CASE \E r \in Rows : CopyTunnel(r) \/ \E v \in Info : ModifyTunnel(r, v)
  BY <1>1, <1>3, <1>6, ModifyTakes
<1>7. CASE \E r \in Rows : RemoveTunnel(r)
  BY <1>1, <1>7, RemoveStep DEF Removed
<1>8. CASE \/ \E m \in {"commit", "rollback"} : Decide(m)
           \/ Close \/ UNCHANGED vars
  BY <1>8 DEF Decide, Close, vars
<1>9. CASE \E h \in tx : GiveUp(h) \/ CommitTunnel(h)
  BY <1>1, <1>9, GiveUpFields, CommitNewFields, CommitRemovedFields DEF NewCommitted
<1>10. CASE \E h \in tx : RollbackTunnel(h)
  BY <1>1, <1>10, RollbackFields
<1>11. CASE \E r \in Rows : CommitOther(r) \/ RollbackOther(r)
  BY <1>1, <1>11, OthersIdle
<1>12. QED
  BY <1>4, <1>5, <1>6, <1>7, <1>8, <1>9, <1>10, <1>11 DEF Next

(* No step writes a row that the hash leads to, before the protocol has    *)
(* been left.                                                              *)
THEOREM RowsFrozen == Spec => CommittedRowsFrozen
<1>1. TableInv /\ [Next]_vars =>
        [slips' = {} => \A k \in TunnelKey : tbl.hash[k] # NoRow =>
           LET r == tbl.hash[k]
           IN  tbl'.key[r] = tbl.key[r] /\ tbl'.info[r] = tbl.info[r]]_vars
  BY StepFreezesRows DEF Kept
<1>2. QED BY <1>1, TableSafe, PTL DEF Spec, CommittedRowsFrozen

-----------------------------------------------------------------------------
(***************************************************************************)
(* The refinement.  A held row is a workspace: three lemmas say what it    *)
(* stages, when it stages nothing, and when it stages the same as before.  *)
(***************************************************************************)
StagedBy(info, h) ==
  [key |-> h.key, val |-> IF h.op = "remove" THEN Absent ELSE info[h.row]]

LEMMA StagedHeld ==
  ASSUME NEW info, NEW held, NEW h \in held,
         \A g \in held : g.row = h.row => g = h
  PROVE  StagedAt(info, held, h.row) = StagedBy(info, h)
<1>1. (CHOOSE g \in held : g.row = h.row) = h
  OBVIOUS
<1>2. QED BY <1>1 DEF StagedAt, StagedBy

LEMMA StagedFree ==
  ASSUME NEW info, NEW held, NEW r, \A g \in held : g.row # r
  PROVE  StagedAt(info, held, r) = Store!Idle
BY DEF StagedAt, Store!Idle

LEMMA StagedSame ==
  ASSUME NEW info1, NEW held1, NEW info2, NEW held2, NEW r,
         info1[r] = info2[r],
         \A g : g.row = r => (g \in held1 <=> g \in held2),
         \A g, h \in held1 : g.row = r /\ h.row = r => g = h
  PROVE  StagedAt(info1, held1, r) = StagedAt(info2, held2, r)
<1>1. CASE \E h \in held1 : h.row = r
  <2>1. PICK h \in held1 : h.row = r
    BY <1>1
  <2>2. h \in held2 /\ \A g \in held2 : g.row = r => g = h
    BY <2>1
  <2>3. StagedAt(info1, held1, r) = StagedBy(info1, h)
    BY <2>1, StagedHeld
  <2>4. StagedAt(info2, held2, r) = StagedBy(info2, h)
    BY <2>1, <2>2, StagedHeld
  <2>5. QED BY <2>1, <2>3, <2>4 DEF StagedBy
<1>2. CASE ~ \E h \in held1 : h.row = r
  BY <1>2, StagedFree
<1>3. QED BY <1>1, <1>2

(* What readers see stays when the hash does.                              *)
LEMMA SeenStays ==
  ASSUME tbl'.hash = tbl.hash, zero' = zero \/ PlaceKeys(tbl')
  PROVE  StoreSeen' = StoreSeen
<1>1. CASE zero' = zero
  BY <1>1 DEF StoreSeen, tunnel_get
<1>2. CASE PlaceKeys(tbl')
  <2>1. {k \in TunnelKey : tbl.hash[k] = NoRow /\ tbl'.hash[k] # NoRow} = {}
    OBVIOUS
  <2>2. zero' = zero \/ (zero' = Absent /\ (zero = Absent \/ tbl.hash[zero] = NoRow))
    BY <1>2, <2>1 DEF PlaceKeys
  <2>3. \A k \in TunnelKey : k # Absent
    BY AbsentInfoAssumption
  <2>4. QED BY <2>2, <2>3 DEF StoreSeen, tunnel_get
<1>3. QED BY <1>1, <1>2

(* A row that joins the handler's list turns an idle workspace busy.       *)
LEMMA JoinStages ==
  ASSUME TableInv, TableInv', Kept, Kept', NEW h, tx' = tx \union {h},
         \A g \in tx : g.row # h.row,
         \A r \in Rows : r # h.row => tbl'.info[r] = tbl.info[r],
         tbl'.hash = tbl.hash, zero' = zero,
         \A k \in TunnelKey : tbl.hash[k] # NoRow =>
           tbl'.info[tbl.hash[k]] = tbl.info[tbl.hash[k]],
         mode = "open", mode' = mode
  PROVE  Store!StoreNext
<1> DEFINE r == h.row
           c == StagedBy(tbl'.info, h)
<1>1. /\ h \in Handle /\ r \in Rows /\ tbl' \in Table
      /\ \A g \in tx' : g.row = r => g = h
  BY DEF TableInv, TypeOK, Handle, HandlesSound
<1>2. c \in Store!Staged
  BY <1>1, TableFields DEF StagedBy, Handle, Store!Staged
<1>3. StoreWork[r] = Store!Idle
  BY <1>1, StagedFree DEF StoreWork
<1>4. StoreWork'[r] = c
  BY <1>1, StagedHeld DEF StoreWork
<1>5. ASSUME NEW q \in Rows, q # r
      PROVE  StoreWork'[q] = StoreWork[q]
  <2>1. /\ tbl.info[q] = tbl'.info[q]
        /\ \A g : g.row = q => (g \in tx <=> g \in tx')
        /\ \A f, g \in tx : f.row = q /\ g.row = q => f = g
    BY <1>5 DEF TableInv, HandlesSound
  <2>2. StagedAt(tbl.info, tx, q) = StagedAt(tbl'.info, tx', q)
    BY <2>1, StagedSame
  <2>3. QED BY <2>2 DEF StoreWork
<1>6. StoreWork' = [StoreWork EXCEPT ![r] = c]
  <2> HIDE DEF c, r
  <2> QED BY <1>1, <1>4, <1>5 DEF StoreWork
<1>7. StoreValue' = StoreValue
  BY DEF StoreValue
<1>8. StoreSeen' = StoreSeen
  BY SeenStays
<1>9. (~Kept)' = ~Kept
  OBVIOUS
<1>10. Store!Stage(r)
  BY <1>1, <1>2, <1>3, <1>4, <1>6, <1>7, <1>8, <1>9 DEF Store!Stage
<1>11. QED BY <1>1, <1>10 DEF Store!StoreNext

(* A row that leaves the list turns its workspace idle.                    *)
LEMMA DropFinishes ==
  ASSUME TableInv, Kept, Kept', NEW h \in tx, tx' = tx \ {h}, tbl'.info = tbl.info,
         mode' = mode
  PROVE  /\ h.row \in Rows /\ Store!Finish(h.row)
         /\ StoreWork[h.row] = StagedBy(tbl.info, h)
<1> DEFINE r == h.row
<1>1. /\ h \in Handle /\ r \in Rows /\ tx' = tx \ {h}
      /\ \A g \in tx : g.row = r => g = h
  BY DEF TableInv, TypeOK, Handle, HandlesSound
<1>2. StoreWork[r] = StagedBy(tbl.info, h)
  BY <1>1, StagedHeld DEF StoreWork
<1>3. StoreWork[r] # Store!Idle
  <2>1. h.key \in TunnelKey
    BY <1>1 DEF Handle
  <2>2. h.key # Absent
    BY <2>1, AbsentInfoAssumption
  <2>3. QED BY <1>2, <2>2 DEF StagedBy, Store!Idle
<1>4. StoreWork'[r] = Store!Idle
  BY <1>1, StagedFree DEF StoreWork
<1>5. ASSUME NEW q \in Rows, q # r
      PROVE  StoreWork'[q] = StoreWork[q]
  <2>1. /\ tbl.info[q] = tbl'.info[q]
        /\ \A g : g.row = q => (g \in tx <=> g \in tx')
        /\ \A f, g \in tx : f.row = q /\ g.row = q => f = g
    BY <1>1, <1>5 DEF TableInv, HandlesSound
  <2>2. StagedAt(tbl.info, tx, q) = StagedAt(tbl'.info, tx', q)
    BY <2>1, StagedSame
  <2>3. QED BY <2>2 DEF StoreWork
<1>6. StoreWork' = [StoreWork EXCEPT ![r] = Store!Idle]
  <2> HIDE DEF r
  <2> QED BY <1>1, <1>4, <1>5 DEF StoreWork
<1>7. (~Kept)' = ~Kept
  OBVIOUS
<1>8. QED BY <1>1, <1>2, <1>3, <1>6, <1>7 DEF Store!Finish

(* What a reader finds is settled when a key enters and when it leaves.    *)
LEMMA SeenFollows ==
  ASSUME TableInv, NEW k \in TunnelKey, NEW e \in Rows \union {NoRow},
         tbl'.hash = [tbl.hash EXCEPT ![k] = e], PlaceKeys(tbl')
  PROVE  \/ e = NoRow /\ StoreSeen' = StoreSeen \ {k}
         \/ /\ e # NoRow /\ tbl.hash[k] = NoRow
            /\ StoreSeen' \in {StoreSeen, StoreSeen \union {k}}
         \/ e # NoRow /\ tbl.hash[k] # NoRow /\ StoreSeen' = StoreSeen
<1> DEFINE seen(z, t) == {j \in TunnelKey : z = j /\ t.hash[j] # NoRow}
<1>1. /\ tbl.hash \in [TunnelKey -> Rows \union {NoRow}]
      /\ zero \in TunnelKey \union {Absent} /\ Absent \notin TunnelKey
  BY TableFields, AbsentInfoAssumption DEF TableInv, TypeOK
<1>2. StoreSeen = seen(zero, tbl) /\ StoreSeen' = seen(zero', tbl')
  BY <1>1 DEF StoreSeen, tunnel_get
<1>3. {j \in TunnelKey : tbl.hash[j] = NoRow /\ tbl'.hash[j] # NoRow}
        = IF e # NoRow /\ tbl.hash[k] = NoRow THEN {k} ELSE {}
  BY <1>1
<1>4. CASE zero # Absent /\ tbl'.hash[zero] # NoRow
  <2>1. zero' = zero
    BY <1>4 DEF PlaceKeys
  <2>2. QED BY <1>1, <1>2, <1>4, <2>1
<1>5. CASE ~(zero # Absent /\ tbl'.hash[zero] # NoRow)
  <2>1. IF e # NoRow /\ tbl.hash[k] = NoRow THEN zero' \in {k, Absent} ELSE zero' = Absent
    BY <1>3, <1>5 DEF PlaceKeys
  <2>2. QED BY <1>1, <1>2, <1>5, <2>1
<1>6. QED BY <1>4, <1>5

LEMMA CommitApplies ==
  ASSUME TableInv, Kept, Kept', NEW h \in tx, CommitTunnel(h) \/ GiveUp(h)
  PROVE  Store!StoreNext
<1> DEFINE v == IF h.op = "remove" THEN Absent ELSE tbl.info[h.row]
           e == IF h.op = "remove" THEN NoRow ELSE h.row
<1>1. /\ tbl'.info = tbl.info /\ tx' = tx \ {h}
      /\ tbl'.hash = [tbl.hash EXCEPT ![h.key] = e]
      /\ mode # "rollback" /\ mode' = mode /\ PlaceKeys(tbl')
  <2>1. CASE GiveUp(h)
    BY <2>1, GiveUpFields DEF NewCommitted, GiveUp
  <2>2. CASE CommitTunnel(h)
    BY <2>2, CommitNewFields, CommitRemovedFields DEF NewCommitted, CommitTunnel
  <2>3. QED BY <2>1, <2>2
<1>2. /\ h.row \in Rows /\ Store!Finish(h.row)
      /\ StoreWork[h.row].key = h.key /\ StoreWork[h.row].val = v
  <2>1. /\ h.row \in Rows /\ Store!Finish(h.row)
        /\ StoreWork[h.row] = StagedBy(tbl.info, h)
    BY <1>1, DropFinishes
  <2>2. StagedBy(tbl.info, h).key = h.key /\ StagedBy(tbl.info, h).val = v
    BY DEF StagedBy
  <2> HIDE DEF v
  <2>3. QED BY <2>1, <2>2
<1>3. /\ h.key \in TunnelKey
      /\ tbl.hash \in [TunnelKey -> Rows \union {NoRow}]
      /\ tbl.info \in [Rows -> Info]
      /\ h.row # NoRow /\ Absent \notin Info
  BY <1>2, TableFields, NoRowAssumption, AbsentInfoAssumption
     DEF TableInv, TypeOK, Handle, Rows
<1>4. (v = Absent <=> e = NoRow) /\ e \in Rows \union {NoRow}
  BY <1>2, <1>3
<1>5. StoreValue' = [StoreValue EXCEPT ![h.key] = v]
  BY <1>1, <1>3 DEF StoreValue
<1>6. StoreValue[h.key] = Absent <=> tbl.hash[h.key] = NoRow
  BY <1>3 DEF StoreValue
<1> HIDE DEF v, e
<1>7. \/ v = Absent /\ StoreSeen' = StoreSeen \ {h.key}
      \/ /\ v # Absent /\ StoreValue[h.key] = Absent
         /\ StoreSeen' \in {StoreSeen, StoreSeen \union {h.key}}
      \/ v # Absent /\ StoreValue[h.key] # Absent /\ StoreSeen' = StoreSeen
  BY <1>1, <1>3, <1>4, <1>6, SeenFollows
<1>8. Store!Apply(h.row)
  BY <1>1, <1>2, <1>5, <1>7 DEF Store!Apply
<1>9. QED BY <1>2, <1>8 DEF Store!StoreNext

LEMMA RollbackDiscards ==
  ASSUME TableInv, Kept, Kept', NEW h \in tx, RollbackTunnel(h)
  PROVE  Store!StoreNext
<1>1. /\ tbl'.info = tbl.info /\ tbl'.hash = tbl.hash /\ zero' = zero
      /\ tx' = tx \ {h} /\ mode = "rollback" /\ mode' = mode
  BY RollbackFields DEF RollbackTunnel
<1>2. h.row \in Rows /\ Store!Finish(h.row)
  BY <1>1, DropFinishes
<1>3. StoreValue' = StoreValue /\ StoreSeen' = StoreSeen
  BY <1>1, SeenStays DEF StoreValue
<1>4. QED BY <1>1, <1>2, <1>3 DEF Store!StoreNext, Store!Discard

LEMMA TakenStages ==
  ASSUME TableInv, TableInv', Kept, Kept', [Next]_vars,
         NEW k \in TunnelKey, NEW r \in Rows, NEW v \in Info, NEW op,
         Taken(k, r, v, op)
  PROVE  Store!StoreNext
<1> DEFINE h == [row |-> r, key |-> k, op |-> op]
<1>1. ~tbl.used[r] /\ ~RemovalPending(r)
  BY DEF Taken, TakenAs
<1>2. \A g \in tx : g.row # r
  BY <1>1 DEF TableInv, HandlesSound, RemovalPending
<1>3. /\ tx' = tx \union {h} /\ h.row = r /\ tbl'.hash = tbl.hash
      /\ mode = "open" /\ mode' = mode /\ zero' = zero
      /\ tbl'.info = [tbl.info EXCEPT ![r] = v]
  BY DEF Taken, TakenAs
<1>4. tbl.info \in [Rows -> Info]
  BY TableFields DEF TableInv, TypeOK
<1>5. /\ \A q \in Rows : q # r => tbl'.info[q] = tbl.info[q]
      /\ \A j \in TunnelKey : tbl.hash[j] # NoRow =>
           tbl'.info[tbl.hash[j]] = tbl.info[tbl.hash[j]]
  BY <1>3, <1>4, StepFreezesRows
<1> HIDE DEF h
<1>6. QED BY <1>2, <1>3, <1>5, JoinStages

(* Removing for the first time stages a removal; removing once more does   *)
(* nothing.                                                                *)
LEMMA RemoveStages ==
  ASSUME TableInv, TableInv', Kept, Kept', NEW k, NEW r, Removed(k, r)
  PROVE  \/ Store!StoreNext
         \/ UNCHANGED <<StoreValue, StoreSeen, StoreWork, mode, ~Kept>>
<1> DEFINE h == [row |-> r, key |-> k, op |-> "remove"]
<1>1. /\ tbl'.info = tbl.info /\ tbl'.hash = tbl.hash /\ zero' = zero
      /\ tx' = tx \union {h} /\ mode = "open" /\ mode' = mode /\ h.row = r
      /\ \A g \in tx : g.row = r => g = h
  BY DEF Removed
<1> HIDE DEF h
<1>2. CASE h \in tx
  <2>1. tx' = tx
    BY <1>1, <1>2
  <2>2. StoreValue' = StoreValue /\ StoreWork' = StoreWork
    BY <1>1, <2>1 DEF StoreValue, StoreWork
  <2>3. QED BY <1>1, <2>2, SeenStays
<1>3. CASE h \notin tx
  BY <1>1, <1>3, JoinStages
<1>4. QED BY <1>2, <1>3

LEMMA StepRefines ==
  ASSUME TableInv, TableInv', [Next]_vars
  PROVE  [Store!StoreNext]_<<StoreValue, StoreSeen, StoreWork, mode, ~Kept>>
<1>1. CASE ~Kept'
  BY <1>1 DEF Store!StoreNext, Store!Break
<1> SUFFICES ASSUME Kept', Kept
             PROVE  [Store!StoreNext]_<<StoreValue, StoreSeen, StoreWork, mode, ~Kept>>
  BY <1>1, OnceKept
<1>2. TypeOK
  BY DEF TableInv
<1>3. ASSUME /\ tbl'.hash = tbl.hash /\ tbl'.info = tbl.info
             /\ tx' = tx /\ mode' = mode /\ (zero' = zero \/ PlaceKeys(tbl'))
      PROVE  UNCHANGED <<StoreValue, StoreSeen, StoreWork, mode, ~Kept>>
  BY <1>3, SeenStays DEF StoreValue, StoreWork
<1>4. CASE \E ip \in LocalIps, v \in Info : SetupTunnel(ip, v)
  BY <1>4, SetupTakes, TakenStages
<1>5. CASE \E ip \in LocalIps : SetupFails(ip)
  BY <1>2, <1>3, <1>5, SetupFailsStep
<1>6. CASE \E r \in Rows : CopyTunnel(r) \/ \E v \in Info : ModifyTunnel(r, v)
  BY <1>6, ModifyTakes, TakenStages
<1>7. CASE \E r \in Rows : RemoveTunnel(r)
  BY <1>7, RemoveStep, RemoveStages
<1>8. CASE \E m \in {"commit", "rollback"} : Decide(m)
  <2>1. PICK m \in {"commit", "rollback"} : Decide(m)
    BY <1>8
  <2>2. StoreSeen' = StoreSeen
    BY <2>1, SeenStays DEF Decide
  <2>3. Store!Decide(m)
    BY <2>1, <2>2 DEF Decide, Store!Decide, StoreValue, StoreWork
  <2>4. QED BY <2>3 DEF Store!StoreNext
<1>9. CASE \E h \in tx : GiveUp(h) \/ CommitTunnel(h)
  BY <1>9, CommitApplies
<1>10. CASE \E h \in tx : RollbackTunnel(h)
  BY <1>10, RollbackDiscards
<1>11. CASE \E r \in Rows : CommitOther(r) \/ RollbackOther(r)
  BY <1>3, <1>11, OthersIdle
<1>12. CASE Close
  <2>1. StoreSeen' = StoreSeen
    BY <1>12, SeenStays DEF Close
  <2>2. \A r \in Rows : StoreWork[r] = Store!Idle
    BY <1>12, StagedFree DEF Close, StoreWork
  <2>3. Store!Close
    BY <1>12, <2>1, <2>2 DEF Close, Store!Close, StoreValue, StoreWork
  <2>4. QED BY <2>3 DEF Store!StoreNext
<1>13. CASE UNCHANGED vars
  BY <1>3, <1>13 DEF vars
<1>14. QED
  BY <1>4, <1>5, <1>6, <1>7, <1>8, <1>9, <1>10, <1>11, <1>12, <1>13 DEF Next

(* As long as the protocol is kept, the table and its handlers implement   *)
(* the store: a reader sees a key it finds at all go from its old value to *)
(* its new one in a single step, and nothing of a transaction that is      *)
(* rolled back.                                                            *)
THEOREM TableImplementsStore == Spec => ImplementsStore
<1>1. Init => Store!StoreInit
  <2> SUFFICES ASSUME Init PROVE Store!StoreInit
    OBVIOUS
  <2>1. /\ tx = {} /\ mode = "open" /\ Kept
        /\ tbl.hash = [k \in TunnelKey |-> NoRow]
    BY DEF Init, EmptyTable, Kept
  <2>2. StoreWork = [w \in Rows |-> Store!Idle]
    BY <2>1 DEF StoreWork, StagedAt, Store!Idle
  <2>3. StoreValue = [k \in TunnelKey |-> Absent]
    BY <2>1 DEF StoreValue
  <2>4. StoreSeen = {}
    BY <2>1 DEF StoreSeen, tunnel_get
  <2>5. QED BY <2>1, <2>2, <2>3, <2>4 DEF Store!StoreInit
<1>2. TableInv /\ TableInv' /\ [Next]_vars
        => [Store!StoreNext]_<<StoreValue, StoreSeen, StoreWork, mode, ~Kept>>
  BY StepRefines
<1>3. QED BY <1>1, <1>2, TableSafe, PTL
          DEF Spec, ImplementsStore, Store!StoreSpec, Store!storeVars
=============================================================================
