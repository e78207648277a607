--------------------------- MODULE Bearer_proofs ---------------------------
(***************************************************************************)
(* Theorems about the E1AP bearer handlers (Bearer) for every number of    *)
(* UEs, sessions and DRBs and every set of requests.                       *)
(***************************************************************************)
EXTENDS Bearer, WellFoundedInduction, FiniteSetTheorems, TLAPS

(***************************************************************************)
(* What each operation of TunnelOps returns, as an equation that no longer *)
(* mentions the cyclic search, and that it returns a table: the facts that *)
(* TunnelTable_proofs starts with.  They are proved again here, because    *)
(* Bearer has not got the variables of TunnelTable.                        *)
(***************************************************************************)
(* The distance the search walks is a natural number.                      *)
LEMMA AheadType ==
  ASSUME NEW n \in Nat \ {0}, NEW from \in 0 .. n - 1, NEW to \in 0 .. n - 1
  PROVE  Ahead(n, from, to) \in Nat
<1>1. to - from + n \in Nat
  OBVIOUS
<1>2. QED BY <1>1, SMT DEF Ahead

(* Every non-empty set of natural numbers has a least element.             *)
LEMMA LeastNatural ==
  ASSUME NEW S \in SUBSET Nat, S # {}
  PROVE  \E x \in S : \A y \in S : x <= y
<1> DEFINE Less == {p \in Nat \X Nat : p[1] < p[2]}
<1>1. IsWellFoundedOn(Less, Nat)
  BY NatLessThanWellFounded, Zenon DEF OpToRel
<1>2. \E x \in S : \A y \in S : <<y, x>> \notin Less
  <2> HIDE DEF Less
  <2> QED BY <1>1, WFMin
<1>3. \A x, y \in S : <<y, x>> \notin Less => x <= y
  <2> SUFFICES ASSUME NEW x \in Nat, NEW y \in Nat, ~(y < x)
               PROVE  x <= y
    OBVIOUS
  <2> QED OBVIOUS
<1>4. QED BY <1>2, <1>3

(* A search that has a candidate ends on one: it looks at the candidate    *)
(* closest ahead of the last hit, and there is a closest one.              *)
LEMMA NextInScanFound ==
  ASSUME NEW n \in Nat \ {0}, NEW last \in 0 .. n - 1,
         NEW S \in SUBSET (0 .. n - 1), Candidates(last, S) # {}
  PROVE  /\ NextInScan(n, last, S) \in S \ {last}
         /\ \A j \in S \ {last} :
              Ahead(n, last, NextInScan(n, last, S)) <= Ahead(n, last, j)
<1> DEFINE D == {Ahead(n, last, i) : i \in Candidates(last, S)}
<1>1. D \in SUBSET Nat /\ D # {}
  BY AheadType DEF Candidates
<1>2. PICK d \in D : \A e \in D : d <= e
  <2> HIDE DEF D
  <2> QED BY <1>1, LeastNatural
<1>3. PICK i \in Candidates(last, S) : d = Ahead(n, last, i)
  OBVIOUS
<1>4. \A j \in Candidates(last, S) : Ahead(n, last, i) <= Ahead(n, last, j)
  BY <1>2, <1>3
<1>5. /\ NextInScan(n, last, S) \in Candidates(last, S)
      /\ \A j \in Candidates(last, S) :
           Ahead(n, last, NextInScan(n, last, S)) <= Ahead(n, last, j)
  BY <1>4 DEF NextInScan
<1>6. QED BY <1>5 DEF Candidates

-----------------------------------------------------------------------------
(***************************************************************************)
(* How far a search has come.  The ids it has passed since it hit one of   *)
(* them are an arc of the circle; it comes back to that one only when the  *)
(* arc is the whole circle.                                                *)
(***************************************************************************)
LEMMA AheadValue ==
  ASSUME NEW n \in Nat \ {0}, NEW from \in 0 .. n - 1, NEW to \in 0 .. n - 1
  PROVE  Ahead(n, from, to) = IF from <= to THEN to - from ELSE to - from + n
BY DEF Ahead

(* The ids from one to another, both included, in the order of the search. *)
Arc(n, from, to) == {i \in 0 .. n - 1 : Ahead(n, from, i) <= Ahead(n, from, to)}

(* An arc holds its end.                                                   *)
LEMMA ArcEnd ==
  ASSUME NEW n \in Nat \ {0}, NEW from \in 0 .. n - 1, NEW to \in 0 .. n - 1
  PROVE  to \in Arc(n, from, to)
<1>1. Ahead(n, from, to) \in Nat
  BY AheadType
<1>2. QED BY <1>1 DEF Arc

(* A search that goes on from the end of an arc adds to it what it passes. *)
LEMMA ArcGrows ==
  ASSUME NEW n \in Nat \ {0}, NEW from \in 0 .. n - 1, NEW last \in 0 .. n - 1,
         NEW to \in 0 .. n - 1, NEW i \in Arc(n, from, to)
  PROVE  \/ i \in Arc(n, from, last) \/ i = to
         \/ Ahead(n, last, i) < Ahead(n, last, to)
<1>1. i \in 0 .. n - 1 /\ Ahead(n, from, i) <= Ahead(n, from, to)
  BY DEF Arc
<1>2. /\ Ahead(n, from, i) = IF from <= i THEN i - from ELSE i - from + n
      /\ Ahead(n, from, to) = IF from <= to THEN to - from ELSE to - from + n
      /\ Ahead(n, from, last) = IF from <= last THEN last - from ELSE last - from + n
      /\ Ahead(n, last, i) = IF last <= i THEN i - last ELSE i - last + n
      /\ Ahead(n, last, to) = IF last <= to THEN to - last ELSE to - last + n
  BY <1>1, AheadValue
<1>3. i \in Arc(n, from, last) <=> Ahead(n, from, i) <= Ahead(n, from, last)
  BY <1>1 DEF Arc
<1>4. QED BY <1>1, <1>2, <1>3

(* A search that ends where an arc begins has passed all that is outside.  *)
LEMMA ArcCloses ==
  ASSUME NEW n \in Nat \ {0}, NEW from \in 0 .. n - 1, NEW last \in 0 .. n - 1,
         NEW i \in 0 .. n - 1, from # last
  PROVE  i \in Arc(n, from, last) \/ Ahead(n, last, i) < Ahead(n, last, from)
<1>1. /\ Ahead(n, from, i) = IF from <= i THEN i - from ELSE i - from + n
      /\ Ahead(n, from, last) = IF from <= last THEN last - from ELSE last - from + n
      /\ Ahead(n, last, i) = IF last <= i THEN i - last ELSE i - last + n
      /\ Ahead(n, last, from) = IF last <= from THEN from - last ELSE from - last + n
  BY AheadValue
<1>2. i \in Arc(n, from, last) <=> Ahead(n, from, i) <= Ahead(n, from, last)
  BY DEF Arc
<1>3. QED BY <1>1, <1>2

(* Rows whose keys show every tunnel id are all the rows there are.        *)
LEMMA AllRowsTaken ==
  ASSUME NEW S \in SUBSET Rows, NEW id \in [Rows -> Rows],
         \A i \in Rows : \E r \in S : id[r] = i
  PROVE  S = Rows
<1> DEFINE f == [r \in S |-> id[r]]
<1>1. IsFiniteSet(Rows)
  BY FS_Interval, TunnelCountAssumption DEF Rows
<1>2. IsFiniteSet(S) /\ Cardinality(S) <= Cardinality(Rows)
      /\ (Cardinality(Rows) = Cardinality(S) => Rows = S)
  BY <1>1, FS_Subset
<1>3. f \in Surjection(S, Rows)
  BY DEF Surjection, Range
<1> HIDE DEF f
<1>4. Cardinality(Rows) <= Cardinality(S)
  BY <1>2, <1>3, FS_Surjection
<1>5. Cardinality(Rows) \in Nat /\ Cardinality(S) \in Nat
  BY <1>1, <1>2, FS_CardinalityType
<1>6. QED BY <1>2, <1>4, <1>5

-----------------------------------------------------------------------------

(* The five writes keep a table a table and touch the fields they name.    *)
LEMMA SetUsedFields ==
  ASSUME NEW t \in Table, NEW r \in Rows, NEW b \in BOOLEAN
  PROVE  /\ SetUsed(t, r, b) \in Table
         /\ SetUsed(t, r, b).used = [t.used EXCEPT ![r] = b]
         /\ SetUsed(t, r, b).key = t.key
         /\ SetUsed(t, r, b).info = t.info
         /\ SetUsed(t, r, b).hash = t.hash
BY DEF Table, SetUsed

LEMMA FillFields ==
  ASSUME NEW t \in Table, NEW r \in Rows, NEW v \in Info
  PROVE  /\ Fill(t, r, v) \in Table
         /\ Fill(t, r, v).used = t.used
         /\ Fill(t, r, v).key = t.key
         /\ Fill(t, r, v).info = [t.info EXCEPT ![r] = v]
         /\ Fill(t, r, v).hash = t.hash
BY DEF Table, Fill

LEMMA SetHashFields ==
  ASSUME NEW t \in Table, NEW k \in TunnelKey, NEW r \in Rows \union {NoRow}
  PROVE  /\ SetHash(t, k, r) \in Table
         /\ SetHash(t, k, r).used = t.used
         /\ SetHash(t, k, r).key = t.key
         /\ SetHash(t, k, r).info = t.info
         /\ SetHash(t, k, r).hash = [t.hash EXCEPT ![k] = r]
BY DEF Table, SetHash

LEMMA SetLastIdFields ==
  ASSUME NEW t \in Table, NEW i \in Rows
  PROVE  /\ SetLastId(t, i) \in Table
         /\ SetLastId(t, i).used = t.used
         /\ SetLastId(t, i).key = t.key
         /\ SetLastId(t, i).info = t.info
         /\ SetLastId(t, i).hash = t.hash
BY DEF Table, SetLastId

LEMMA TakeRowFields ==
  ASSUME NEW t \in Table, NEW r \in Rows, NEW k \in TunnelKey
  PROVE  /\ TakeRow(t, r, k) \in Table
         /\ TakeRow(t, r, k).used = [t.used EXCEPT ![r] = TRUE]
         /\ TakeRow(t, r, k).key = [t.key EXCEPT ![r] = k]
         /\ TakeRow(t, r, k).info = t.info
         /\ TakeRow(t, r, k).hash = t.hash
BY DEF Table, TakeRow

(* Only the two searches move the cursors.                                 *)
LEMMA CursorFields ==
  ASSUME NEW t \in Table, NEW r \in Rows, NEW k \in TunnelKey, NEW v \in Info
  PROVE  /\ SetLastId(t, r).lastSlot = t.lastSlot /\ SetLastId(t, r).lastId = r
         /\ TakeRow(t, r, k).lastSlot = r /\ TakeRow(t, r, k).lastId = t.lastId
         /\ Fill(t, r, v).lastSlot = t.lastSlot /\ Fill(t, r, v).lastId = t.lastId
BY DEF Table, SetLastId, TakeRow, Fill

(* The types of the fields.                                                *)
LEMMA TableFields ==
  ASSUME NEW t \in Table
  PROVE  /\ t.used \in [Rows -> BOOLEAN] /\ t.key \in [Rows -> TunnelKey]
         /\ t.info \in [Rows -> Info]
         /\ t.hash \in [TunnelKey -> Rows \union {NoRow}]
         /\ t.lastSlot \in Rows /\ t.lastId \in Rows
BY DEF Table

-----------------------------------------------------------------------------

(* tunnel_alloc returns either a full-table NULL and the table as it was,  *)
(* or a row that was free, and takes it for the key.                       *)
LEMMA AllocResult ==
  ASSUME NEW t \in Table, NEW k \in TunnelKey
  PROVE  LET b == tunnel_alloc(t, k)
         IN  \/ b.row = NoRow /\ b.tbl = t
             \/ /\ b.row \in Rows /\ ~t.used[b.row]
                /\ b.tbl = TakeRow(t, b.row, k)
<1> DEFINE r == NextInScan(MAX_TUNNEL_COUNT, t.lastSlot, FreeRows(t))
<1>1. CASE ~RowAvailable(t)
  BY <1>1 DEF tunnel_alloc
<1>2. CASE RowAvailable(t)
  <2>1. t.lastSlot \in Rows /\ FreeRows(t) \in SUBSET Rows
    BY TableFields DEF FreeRows
  <2>2. r \in FreeRows(t) \ {t.lastSlot}
    BY <1>2, <2>1, NextInScanFound, TunnelCountAssumption DEF RowAvailable, Rows
  <2>3. r \in Rows /\ ~t.used[r]
    BY <2>2 DEF FreeRows
  <2>4. /\ tunnel_alloc(t, k).row = r
        /\ tunnel_alloc(t, k).tbl = TakeRow(t, r, k)
    BY <1>2 DEF tunnel_alloc
  <2>5. QED BY <2>3, <2>4
<1>3. QED BY <1>1, <1>2

(* tunnel_key_alloc returns a key the hash does not know, and moves only   *)
(* last_assigned_id_g.                                                     *)
LEMMA KeyAllocResult ==
  ASSUME NEW t \in Table, NEW ip \in LocalIps, KeyAvailable(t, ip)
  PROVE  LET a == tunnel_key_alloc(t, ip)
         IN  /\ a.key \in TunnelKey /\ t.hash[a.key] = NoRow
             /\ \E i \in Rows : a.tbl = SetLastId(t, i)
<1> DEFINE id == NextInScan(MAX_TUNNEL_COUNT, t.lastId, FreeIds(t, ip))
<1>1. t.lastId \in Rows /\ FreeIds(t, ip) \in SUBSET Rows
  BY TableFields DEF FreeIds
<1>2. id \in FreeIds(t, ip)
  BY <1>1, NextInScanFound, TunnelCountAssumption DEF KeyAvailable, Rows
<1>3. /\ id \in Rows
      /\ t.hash[[ip_addr |-> ip, te_id |-> id]] = NoRow
  BY <1>2 DEF FreeIds
<1>4. /\ tunnel_key_alloc(t, ip).key = [ip_addr |-> ip, te_id |-> id]
      /\ tunnel_key_alloc(t, ip).tbl = SetLastId(t, id)
  BY DEF tunnel_key_alloc
<1>5. QED BY <1>3, <1>4 DEF TunnelKey

(* drb_setup's and pdus_setup's pair of calls: a fresh key, then either no *)
(* row or a free row taken for that key.                                   *)
LEMMA SetupResult ==
  ASSUME NEW t \in Table, NEW ip \in LocalIps, KeyAvailable(t, ip)
  PROVE  LET a == tunnel_key_alloc(t, ip)
             b == tunnel_add(a.tbl, a.key)
         IN  /\ a.key \in TunnelKey /\ t.hash[a.key] = NoRow
             /\ \E i \in Rows :
                  \/ b.row = NoRow /\ b.tbl = SetLastId(t, i)
                  \/ /\ b.row \in Rows /\ ~t.used[b.row]
                     /\ b.tbl = TakeRow(SetLastId(t, i), b.row, a.key)
<1> DEFINE k == tunnel_key_alloc(t, ip).key
           s == tunnel_key_alloc(t, ip).tbl
<1>1. k \in TunnelKey /\ t.hash[k] = NoRow
  BY KeyAllocResult
<1>2. PICK i \in Rows : s = SetLastId(t, i)
  BY KeyAllocResult
<1> HIDE DEF k, s
<1>3. s \in Table /\ s.hash = t.hash /\ s.used = t.used
  BY <1>2, SetLastIdFields
<1>4. tunnel_add(s, k) = tunnel_alloc(s, k)
  BY <1>1, <1>3 DEF tunnel_add
<1>5. \/ tunnel_alloc(s, k).row = NoRow /\ tunnel_alloc(s, k).tbl = s
      \/ /\ tunnel_alloc(s, k).row \in Rows /\ ~s.used[tunnel_alloc(s, k).row]
         /\ tunnel_alloc(s, k).tbl = TakeRow(s, tunnel_alloc(s, k).row, k)
  BY <1>1, <1>3, AllocResult
<1>6. QED BY <1>1, <1>2, <1>3, <1>4, <1>5 DEF k, s

(* Removing, committing and rolling back keep a table a table.             *)
LEMMA CommitKeepsTable ==
  ASSUME NEW t \in Table, NEW r \in Rows
  PROVE  tunnel_commit(t, r) \in Table
<1> DEFINE k == t.key[r]
           entry == t.hash[k]
<1>1. k \in TunnelKey /\ entry \in Rows \union {NoRow}
  BY TableFields
<1>2. SetHash(t, k, r) \in Table /\ SetHash(t, k, NoRow) \in Table
  BY <1>1, SetHashFields
<1>3. ASSUME entry # NoRow
      PROVE  SetHash(SetUsed(t, entry, FALSE), k, r) \in Table
  BY <1>1, <1>3, SetHashFields, SetUsedFields
<1>4. QED BY <1>2, <1>3 DEF tunnel_commit

LEMMA RollbackKeepsTable ==
  ASSUME NEW t \in Table, NEW r \in Rows
  PROVE  tunnel_rollback(t, r) \in Table
BY SetUsedFields DEF tunnel_rollback

LEMMA RemoveKeepsTable ==
  ASSUME NEW t \in Table, NEW k \in TunnelKey
  PROVE  tunnel_remove(t, k) \in Table
<1>1. t.hash[k] \in Rows \union {NoRow}
  BY TableFields
<1>2. ASSUME t.hash[k] # NoRow
      PROVE  SetUsed(t, t.hash[k], FALSE) \in Table
  BY <1>1, <1>2, SetUsedFields
<1>3. QED BY <1>2 DEF tunnel_remove

-----------------------------------------------------------------------------

(* A row is refused only when none but the one allocated last is free, and *)
(* is never the one allocated last.                                        *)
LEMMA AllocScan ==
  ASSUME NEW t \in Table, NEW k \in TunnelKey
  PROVE  LET b == tunnel_alloc(t, k)
         IN  IF b.row = NoRow THEN FreeRows(t) \ {t.lastSlot} = {}
             ELSE b.row # t.lastSlot
<1>1. CASE ~RowAvailable(t)
  BY <1>1 DEF tunnel_alloc, RowAvailable, Candidates
<1>2. CASE RowAvailable(t)
  <2>1. t.lastSlot \in Rows /\ FreeRows(t) \in SUBSET Rows
    BY TableFields DEF FreeRows
  <2>2. NextInScan(MAX_TUNNEL_COUNT, t.lastSlot, FreeRows(t)) \in Rows \ {t.lastSlot}
    BY <1>2, <2>1, NextInScanFound, TunnelCountAssumption DEF RowAvailable, Rows
  <2>3. QED BY <1>2, <2>2, NoRowAssumption DEF tunnel_alloc, Rows
<1>3. QED BY <1>1, <1>2

(* The key allocated is the next one on the circle, and every id passed on *)
(* the way is taken at that address.                                       *)
LEMMA KeyAllocScan ==
  ASSUME NEW t \in Table, NEW ip \in LocalIps, KeyAvailable(t, ip)
  PROVE  LET a == tunnel_key_alloc(t, ip)
         IN  /\ a.key.ip_addr = ip /\ a.key.te_id \in Rows \ {t.lastId}
             /\ a.tbl = SetLastId(t, a.key.te_id)
             /\ \A i \in Rows \ {t.lastId} :
                  Ahead(MAX_TUNNEL_COUNT, t.lastId, i)
                    < Ahead(MAX_TUNNEL_COUNT, t.lastId, a.key.te_id)
                  => t.hash[[ip_addr |-> ip, te_id |-> i]] # NoRow
<1> DEFINE id == NextInScan(MAX_TUNNEL_COUNT, t.lastId, FreeIds(t, ip))
<1>1. t.lastId \in Rows /\ FreeIds(t, ip) \in SUBSET Rows
  BY TableFields DEF FreeIds
<1>2. /\ id \in FreeIds(t, ip) \ {t.lastId}
      /\ \A j \in FreeIds(t, ip) \ {t.lastId} :
           Ahead(MAX_TUNNEL_COUNT, t.lastId, id) <= Ahead(MAX_TUNNEL_COUNT, t.lastId, j)
  BY <1>1, NextInScanFound, TunnelCountAssumption DEF KeyAvailable, Rows
<1>3. /\ tunnel_key_alloc(t, ip).key = [ip_addr |-> ip, te_id |-> id]
      /\ tunnel_key_alloc(t, ip).tbl = SetLastId(t, id)
  BY DEF tunnel_key_alloc
<1> HIDE DEF id
<1>4. id \in Rows \ {t.lastId}
  BY <1>1, <1>2
<1>5. ASSUME NEW i \in Rows \ {t.lastId},
             Ahead(MAX_TUNNEL_COUNT, t.lastId, i) < Ahead(MAX_TUNNEL_COUNT, t.lastId, id)
      PROVE  t.hash[[ip_addr |-> ip, te_id |-> i]] # NoRow
  <2>1. /\ Ahead(MAX_TUNNEL_COUNT, t.lastId, i) \in Nat
        /\ Ahead(MAX_TUNNEL_COUNT, t.lastId, id) \in Nat
    BY <1>1, <1>4, AheadType, TunnelCountAssumption DEF Rows
  <2>2. i \notin FreeIds(t, ip)
    BY <1>2, <1>5, <2>1
  <2>3. QED BY <2>2 DEF FreeIds
<1>6. QED BY <1>3, <1>4, <1>5

-----------------------------------------------------------------------------

(* What holds at 0 and is carried from each number to the next holds up to *)
(* the last.                                                               *)
LEMMA UpTo ==
  ASSUME NEW n \in Nat, NEW S \in SUBSET (0 .. n), 0 \in S,
         \A i \in 1 .. n : i - 1 \in S => i \in S
  PROVE  S = 0 .. n
<1> DEFINE Rest == (0 .. n) \ S
<1>1. SUFFICES ASSUME Rest # {} PROVE FALSE
  OBVIOUS
<1>2. PICK m \in Rest : \A j \in Rest : m <= j
  <2>1. Rest \in SUBSET Nat
    OBVIOUS
  <2> HIDE DEF Rest
  <2>2. QED BY <1>1, <2>1, LeastNatural
<1>3. m \in 1 .. n /\ m - 1 \in 0 .. n
  BY <1>2
<1>4. m - 1 \in S
  BY <1>2, <1>3
<1>5. QED BY <1>2, <1>3, <1>4

(* The greatest element of a set of list positions.                        *)
LEMMA MaxFound ==
  ASSUME NEW n \in Nat, NEW s \in SUBSET (1 .. n), s # {}
  PROVE  Max(s) \in s /\ \A i \in s : Max(s) >= i
<1> DEFINE Above == {n - i : i \in s}
<1>1. Above \in SUBSET Nat /\ Above # {}
  <2>1. \A i \in s : n - i \in Nat
    OBVIOUS
  <2>2. QED BY <2>1
<1>2. PICK d \in Above : \A e \in Above : d <= e
  <2> HIDE DEF Above
  <2> QED BY <1>1, LeastNatural
<1>3. PICK m \in s : d = n - m
  OBVIOUS
<1>4. \A i \in s : m >= i
  <2> SUFFICES ASSUME NEW i \in s PROVE m >= i
    OBVIOUS
  <2>1. n - m <= n - i
    BY <1>2, <1>3
  <2>2. QED BY <2>1
<1>5. QED BY <1>4 DEF Max

LEMMA MaxUpTo ==
  ASSUME NEW i \in Nat \ {0}
  PROVE  Max(1 .. i) = i /\ (1 .. i) \ {i} = 1 .. i - 1 /\ 1 .. i # {}
<1>1. 1 .. i # {} /\ i \in 1 .. i
  OBVIOUS
<1>2. Max(1 .. i) \in 1 .. i /\ Max(1 .. i) >= i
  BY <1>1, MaxFound
<1>3. QED BY <1>1, <1>2

(* What lies before the last of a set of positions.                        *)
LEMMA MaxSplit ==
  ASSUME NEW n \in Nat, NEW s \in SUBSET (1 .. n), s # {}
  PROVE  /\ Max(s) \in 1 .. n /\ s \ {Max(s)} \in SUBSET (1 .. Max(s) - 1)
         /\ Max(s) - 1 \in 0 .. n /\ s \ {Max(s)} \in SUBSET (1 .. n)
<1> DEFINE m == Max(s)
<1>1. m \in s /\ \A i \in s : m >= i
  BY MaxFound
<1> HIDE DEF m
<1>2. /\ m \in 1 .. n /\ s \ {m} \in SUBSET (1 .. m - 1)
      /\ m - 1 \in 0 .. n /\ s \ {m} \in SUBSET (1 .. n)
  BY <1>1
<1>3. QED BY <1>2 DEF m

(* The function a fold over positions 1 .. n is defined by exists: F[i] is *)
(* what the fold does with position i.                                     *)
Folds(g, n, base, F) ==
  \A s \in SUBSET (1 .. n) :
     g[s] = IF s = {} THEN base ELSE F[Max(s)][g[s \ {Max(s)}]]

LEMMA FoldExists ==
  ASSUME NEW n \in Nat, NEW T, NEW base \in T, NEW F \in [1 .. n -> [T -> T]]
  PROVE  \E g \in [SUBSET (1 .. n) -> T] : Folds(g, n, base, F)
<1> DEFINE Good(k, g) == /\ g \in [SUBSET (1 .. k) -> T]
                         /\ Folds(g, k, base, F)
           S == {k \in 0 .. n : \E g : Good(k, g)}
<1>1. 0 \in S
  <2> DEFINE g == [s \in SUBSET (1 .. 0) |-> base]
  <2>1. SUBSET (1 .. 0) = {{}}
    OBVIOUS
  <2>2. Good(0, g)
    BY <2>1 DEF Folds
  <2>3. QED BY <2>2
<1>2. ASSUME NEW i \in 1 .. n, i - 1 \in S
      PROVE  i \in S
  <2>1. PICK g : Good(i - 1, g)
    BY <1>2
  <2>0. i \in Nat \ {0} /\ i - 1 \in Nat
    OBVIOUS
  <2> DEFINE D == SUBSET (1 .. i)
             h == [s \in D |-> IF i \in s THEN F[i][g[s \ {i}]] ELSE g[s]]
  <2>2. \A s \in D : i \in s => s \ {i} \in SUBSET (1 .. i - 1)
    OBVIOUS
  <2>3. \A s \in D : i \notin s => s \in SUBSET (1 .. i - 1)
    OBVIOUS
  <2>4. h \in [D -> T]
    <3> SUFFICES ASSUME NEW s \in D PROVE (IF i \in s THEN F[i][g[s \ {i}]] ELSE g[s]) \in T
      OBVIOUS
    <3>1. CASE i \in s
      <4>1. g[s \ {i}] \in T
        BY <2>1, <2>2, <3>1
      <4>2. F[i] \in [T -> T]
        OBVIOUS
      <4>3. QED BY <3>1, <4>1, <4>2
    <3>2. CASE i \notin s
      BY <2>1, <2>3, <3>2
    <3>3. QED BY <3>1, <3>2
  <2>5. ASSUME NEW s \in D
        PROVE  h[s] = IF s = {} THEN base ELSE F[Max(s)][h[s \ {Max(s)}]]
    <3>1. CASE s = {}
      <4>1. h[s] = g[s] /\ s \in SUBSET (1 .. i - 1)
        BY <3>1
      <4>2. QED BY <2>1, <3>1, <4>1 DEF Folds
    <3>2. CASE s # {} /\ i \in s
      <4>1. Max(s) \in s /\ Max(s) >= i
        BY <2>0, <3>2, MaxFound
      <4>2. Max(s) = i
        <5>1. Max(s) \in 1 .. i
          BY <4>1
        <5>2. QED BY <2>0, <4>1, <5>1
      <4>3. s \ {i} \in D /\ i \notin s \ {i}
        OBVIOUS
      <4>4. h[s \ {i}] = g[s \ {i}]
        BY <4>3
      <4>5. QED BY <3>2, <4>2, <4>4
    <3>3. CASE s # {} /\ i \notin s
      <4>1. s \in SUBSET (1 .. i - 1)
        BY <2>3, <3>3
      <4>2. Max(s) \in s
        BY <2>0, <3>3, MaxFound
      <4>3. g[s] = F[Max(s)][g[s \ {Max(s)}]]
        BY <2>1, <3>3, <4>1 DEF Folds
      <4>4. s \ {Max(s)} \in D /\ i \notin s \ {Max(s)}
        BY <3>3
      <4>5. h[s \ {Max(s)}] = g[s \ {Max(s)}]
        BY <4>4
      <4>6. h[s] = g[s]
        BY <3>3
      <4>7. QED BY <3>3, <4>3, <4>5, <4>6
    <3>4. QED BY <3>1, <3>2, <3>3
  <2> HIDE DEF h
  <2>6. Good(i, h)
    BY <2>4, <2>5 DEF Folds
  <2>7. QED BY <2>6
<1> HIDE DEF S
<1>3. S \in SUBSET (0 .. n)
  BY DEF S
<1>4. S = 0 .. n
  BY <1>1, <1>2, <1>3, UpTo
<1>5. n \in S
  BY <1>4
<1>6. QED BY <1>5 DEF S

(* What one step of a line keeps, the whole line keeps.                    *)
LEMMA StaysIn ==
  ASSUME NEW n \in Nat, NEW T, NEW f, f[0] \in T,
         \A i \in 1 .. n : f[i - 1] \in T => f[i] \in T
  PROVE  \A i \in 0 .. n : f[i] \in T
<1> DEFINE S == {i \in 0 .. n : f[i] \in T}
<1>1. 0 \in S /\ S \in SUBSET (0 .. n)
  OBVIOUS
<1>2. \A i \in 1 .. n : i - 1 \in S => i \in S
  OBVIOUS
<1> HIDE DEF S
<1>3. S = 0 .. n
  BY <1>1, <1>2, UpTo
<1>4. QED BY <1>3 DEF S

(* A fold as the line of its intermediate results.  "it" is the function   *)
(* the fold is defined by; where it stays in T it does what F says.        *)
FoldsIn(T, it, n, base, F) ==
  /\ it[{}] = base
  /\ \A s \in SUBSET (1 .. n) : s # {} /\ it[s \ {Max(s)}] \in T =>
       it[s] = F[Max(s)][it[s \ {Max(s)}]]

(* f lists what a fold in T comes to, position by position.                *)
IsLine(f, T, n, base, F) ==
  /\ f \in [0 .. n -> T] /\ f[0] = base
  /\ \A i \in 1 .. n : f[i] = F[i][f[i - 1]]

LEMMA FoldLine ==
  ASSUME NEW n \in Nat, NEW T, NEW base \in T, NEW F \in [1 .. n -> [T -> T]],
         NEW it, FoldsIn(T, it, n, base, F)
  PROVE  \E f : IsLine(f, T, n, base, F) /\ f[n] = it[1 .. n]
<1> DEFINE f == [i \in 0 .. n |-> it[1 .. i]]
<1>1. f[0] = base
  <2>1. 1 .. 0 = {} /\ 0 \in 0 .. n
    OBVIOUS
  <2>2. QED BY <2>1 DEF FoldsIn
<1>2. ASSUME NEW i \in 1 .. n, f[i - 1] \in T
      PROVE  f[i] = F[i][f[i - 1]] /\ f[i] \in T
  <2>1. Max(1 .. i) = i /\ (1 .. i) \ {i} = 1 .. i - 1 /\ 1 .. i # {}
    <3>1. i \in Nat \ {0}
      OBVIOUS
    <3>2. QED BY <3>1, MaxUpTo
  <2>2. 1 .. i \in SUBSET (1 .. n) /\ i \in 0 .. n /\ i - 1 \in 0 .. n
    OBVIOUS
  <2>3. it[1 .. i] = F[i][it[1 .. i - 1]]
    BY <1>2, <2>1, <2>2 DEF FoldsIn
  <2>4. F[i] \in [T -> T]
    OBVIOUS
  <2>5. QED BY <1>2, <2>2, <2>3, <2>4
<1> HIDE DEF f
<1>3. \A i \in 0 .. n : f[i] \in T
  BY <1>1, <1>2, StaysIn
<1>4. f \in [0 .. n -> T]
  BY <1>3 DEF f
<1>5. f[n] = it[1 .. n]
  BY DEF f
<1>6. \A i \in 1 .. n : f[i] = F[i][f[i - 1]]
  BY <1>2, <1>3
<1>7. QED BY <1>1, <1>4, <1>5, <1>6 DEF IsLine

(* The same for a fold whose result at a position is in the stage of that  *)
(* position, where each stage includes the one before.                     *)
Stages(n, T, base, F) ==
  /\ base \in T[0]
  /\ \A i \in 1 .. n : T[i - 1] \subseteq T[i] /\ F[i] \in [T[i - 1] -> T[i]]

LEMMA StagedFold ==
  ASSUME NEW n \in Nat, NEW T, NEW base, NEW F, Stages(n, T, base, F)
  PROVE  \E g : /\ g = [s \in SUBSET (1 .. n) |-> g[s]]
                /\ Folds(g, n, base, F)
                /\ \A i \in 0 .. n : \A s \in SUBSET (1 .. i) : g[s] \in T[i]
<1> DEFINE U == UNION {T[i] : i \in 0 .. n}
           E == [i \in 1 .. n |-> [a \in U |-> IF a \in T[i - 1] THEN F[i][a] ELSE base]]
<1>0. base \in T[0] /\ \A i \in 1 .. n : T[i - 1] \subseteq T[i] /\ F[i] \in [T[i - 1] -> T[i]]
  BY DEF Stages
<1>1. base \in U
  <2>1. 0 \in 0 .. n
    OBVIOUS
  <2>2. QED BY <1>0, <2>1
<1>2. E \in [1 .. n -> [U -> U]]
  <2> SUFFICES ASSUME NEW i \in 1 .. n, NEW a \in U
               PROVE  (IF a \in T[i - 1] THEN F[i][a] ELSE base) \in U
    OBVIOUS
  <2>1. a \in T[i - 1] => F[i][a] \in T[i]
    BY <1>0
  <2>2. i \in 0 .. n
    OBVIOUS
  <2>3. a \in T[i - 1] => F[i][a] \in U
    BY <2>1, <2>2
  <2> HIDE DEF U
  <2>4. QED BY <1>1, <2>3
<1>3. \A i \in 1 .. n, a \in U : a \in T[i - 1] => E[i][a] = F[i][a]
  OBVIOUS
<1>4. \A i \in 0 .. n : T[i] \subseteq U
  OBVIOUS
<1> HIDE DEF E, U
<1>5. PICK g \in [SUBSET (1 .. n) -> U] : Folds(g, n, base, E)
  BY <1>1, <1>2, FoldExists
<1> DEFINE S == {k \in 0 .. n : \A s \in SUBSET (1 .. k) : g[s] \in T[k]}
<1>6. 0 \in S
  <2>1. {} \in SUBSET (1 .. n) /\ SUBSET (1 .. 0) = {{}} /\ 0 \in 0 .. n
    OBVIOUS
  <2>2. g[{}] = base
    BY <1>5, <2>1 DEF Folds
  <2>3. QED BY <1>0, <2>1, <2>2
<1>7. ASSUME NEW k \in 1 .. n, k - 1 \in S
      PROVE  k \in S
  <2>0. k \in Nat \ {0} /\ k \in 0 .. n /\ k - 1 \in 0 .. n
    OBVIOUS
  <2> SUFFICES ASSUME NEW s \in SUBSET (1 .. k) PROVE g[s] \in T[k]
    BY <2>0
  <2>1. CASE k \notin s
    <3>1. s \in SUBSET (1 .. k - 1)
      BY <2>1
    <3>2. g[s] \in T[k - 1]
      BY <1>7, <3>1
    <3>3. QED BY <1>0, <3>2
  <2>2. CASE k \in s
    <3>1. Max(s) \in s /\ Max(s) >= k
      BY <2>0, <2>2, MaxFound
    <3>2. Max(s) = k
      <4>1. Max(s) \in 1 .. k
        BY <3>1
      <4>2. QED BY <2>0, <3>1, <4>1
    <3>3. s \ {k} \in SUBSET (1 .. k - 1) /\ s \in SUBSET (1 .. n)
      OBVIOUS
    <3>4. g[s \ {k}] \in T[k - 1]
      BY <1>7, <3>3
    <3>5. g[s] = F[k][g[s \ {k}]]
      <4>1. g[s \ {k}] \in U
        BY <1>4, <2>0, <3>4
      <4>2. g[s] = E[k][g[s \ {k}]]
        BY <1>5, <2>2, <3>2, <3>3 DEF Folds
      <4>3. QED BY <1>3, <3>4, <4>1, <4>2
    <3>6. QED BY <1>0, <3>4, <3>5
  <2>3. QED BY <2>1, <2>2
<1> HIDE DEF S
<1>8. S \in SUBSET (0 .. n)
  BY DEF S
<1>9. S = 0 .. n
  BY <1>6, <1>7, <1>8, UpTo
<1>10. \A i \in 0 .. n : \A s \in SUBSET (1 .. i) : g[s] \in T[i]
  BY <1>9 DEF S
<1>11. ASSUME NEW s \in SUBSET (1 .. n)
       PROVE  g[s] = IF s = {} THEN base ELSE F[Max(s)][g[s \ {Max(s)}]]
  <2>1. CASE s = {}
    BY <1>5, <2>1 DEF Folds
  <2>2. CASE s # {}
    <3> DEFINE m == Max(s)
    <3>1. m \in s /\ \A i \in s : m >= i
      BY <2>2, MaxFound
    <3> HIDE DEF m
    <3>2. s \ {m} \in SUBSET (1 .. m - 1) /\ m - 1 \in 0 .. n /\ m \in 1 .. n
      BY <3>1
    <3>3. g[s \ {m}] \in T[m - 1] /\ g[s \ {m}] \in U
      BY <1>4, <1>10, <3>2
    <3>4. g[s] = E[m][g[s \ {m}]]
      BY <1>5, <2>2 DEF Folds, m
    <3>5. g[s] = F[m][g[s \ {m}]]
      BY <1>3, <3>2, <3>3, <3>4
    <3>6. QED BY <2>2, <3>5 DEF m
  <2>3. QED BY <2>1, <2>2
<1>12. QED BY <1>5, <1>10, <1>11 DEF Folds

StagesIn(n, T, it, base, F) ==
  /\ it[{}] = base
  /\ \A s \in SUBSET (1 .. n) : s # {} /\ it[s \ {Max(s)}] \in T[Max(s) - 1] =>
       it[s] = F[Max(s)][it[s \ {Max(s)}]]

LEMMA StagedLine ==
  ASSUME NEW n \in Nat, NEW T, NEW base, NEW F, Stages(n, T, base, F),
         NEW it, StagesIn(n, T, it, base, F)
  PROVE  \E f : /\ f[0] = base /\ f[n] = it[1 .. n]
                /\ \A i \in 0 .. n : f[i] \in T[i]
                /\ \A i \in 1 .. n : f[i] = F[i][f[i - 1]]
<1> DEFINE f == [i \in 0 .. n |-> it[1 .. i]]
           S == {i \in 0 .. n : f[i] \in T[i]}
<1>1. f[0] = base /\ 0 \in S
  <2>1. 1 .. 0 = {} /\ 0 \in 0 .. n
    OBVIOUS
  <2>2. QED BY <2>1 DEF StagesIn, Stages
<1>2. ASSUME NEW i \in 1 .. n, i - 1 \in S
      PROVE  f[i] = F[i][f[i - 1]] /\ i \in S
  <2>1. Max(1 .. i) = i /\ (1 .. i) \ {i} = 1 .. i - 1 /\ 1 .. i # {}
    <3>1. i \in Nat \ {0}
      OBVIOUS
    <3>2. QED BY <3>1, MaxUpTo
  <2>2. 1 .. i \in SUBSET (1 .. n) /\ i \in 0 .. n /\ i - 1 \in 0 .. n
    OBVIOUS
  <2>3. it[1 .. i - 1] \in T[i - 1]
    BY <1>2, <2>2
  <2>4. it[1 .. i] = F[i][it[1 .. i - 1]]
    BY <2>1, <2>2, <2>3 DEF StagesIn
  <2>5. F[i] \in [T[i - 1] -> T[i]]
    BY DEF Stages
  <2>6. QED BY <2>2, <2>3, <2>4, <2>5
<1>3. S \in SUBSET (0 .. n) /\ f[n] = it[1 .. n]
  OBVIOUS
<1> HIDE DEF f, S
<1>4. S = 0 .. n
  BY <1>1, <1>2, <1>3, UpTo
<1>5. \A i \in 1 .. n : i - 1 \in S
  BY <1>4
<1>6. QED BY <1>1, <1>2, <1>3, <1>4, <1>5 DEF S

(* drb_setup for each DRB id of a list.                                    *)
LEMMA DrbFold ==
  ASSUME NEW T, NEW w \in T, NEW ids \in Seq(DrbIds),
         \A i \in 1 .. Len(ids), a \in T : drb_setup(a, ids[i]) \in T
  PROVE  FoldLeft(drb_setup, w, ids) \in T
<1> DEFINE n == Len(ids)
           F == [i \in 1 .. n |-> [a \in T |-> drb_setup(a, ids[i])]]
           G(g) == [s \in SUBSET (1 .. n) |-> IF s = {} THEN w
                      ELSE drb_setup(g[s \ {Max(s)}], ids[Max(s)])]
           it == CHOOSE g : g = G(g)
<1>1. n \in Nat /\ DOMAIN ids = 1 .. n
  OBVIOUS
<1>2. FoldLeft(drb_setup, w, ids) = it[1 .. n]
  BY <1>1 DEF FoldLeft, MapThenFoldSet
<1>3. F \in [1 .. n -> [T -> T]]
  OBVIOUS
<1>4. n \in Nat
  BY <1>1
<1> HIDE DEF n
<1>5. \A i \in 1 .. n, a \in T : F[i][a] = drb_setup(a, ids[i])
  OBVIOUS
<1> HIDE DEF F
<1>6. PICK g \in [SUBSET (1 .. n) -> T] : Folds(g, n, w, F)
  BY <1>3, <1>4, FoldExists
<1>7. \A s \in SUBSET (1 .. n) : s # {} =>
         Max(s) \in 1 .. n /\ s \ {Max(s)} \in SUBSET (1 .. n)
  BY <1>4, MaxFound
<1>8. g = G(g)
  BY <1>5, <1>6, <1>7 DEF Folds
<1>9. it = G(it)
  <2> HIDE DEF G
  <2> QED BY <1>8
<1> HIDE DEF it
<1>10. FoldsIn(T, it, n, w, F)
  BY <1>5, <1>7, <1>9 DEF FoldsIn
<1> HIDE DEF G
<1>11. PICK f : IsLine(f, T, n, w, F) /\ f[n] = it[1 .. n]
  BY <1>3, <1>4, <1>10, FoldLine
<1>12. QED BY <1>2, <1>4, <1>11 DEF IsLine

(* pdus_setup for each session of a list.                                  *)
LEMMA PdusFold ==
  ASSUME NEW T, NEW w \in T, NEW list \in Seq(SessionReq),
         \A i \in 1 .. Len(list), a \in T : pdus_setup(a, list[i]) \in T
  PROVE  FoldLeft(pdus_setup, w, list) \in T
<1> DEFINE n == Len(list)
           F == [i \in 1 .. n |-> [a \in T |-> pdus_setup(a, list[i])]]
           G(g) == [s \in SUBSET (1 .. n) |-> IF s = {} THEN w
                      ELSE pdus_setup(g[s \ {Max(s)}], list[Max(s)])]
           it == CHOOSE g : g = G(g)
<1>1. n \in Nat /\ DOMAIN list = 1 .. n
  OBVIOUS
<1>2. FoldLeft(pdus_setup, w, list) = it[1 .. n]
  BY <1>1 DEF FoldLeft, MapThenFoldSet
<1>3. F \in [1 .. n -> [T -> T]]
  OBVIOUS
<1>4. n \in Nat
  BY <1>1
<1> HIDE DEF n
<1>5. \A i \in 1 .. n, a \in T : F[i][a] = pdus_setup(a, list[i])
  OBVIOUS
<1> HIDE DEF F
<1>6. PICK g \in [SUBSET (1 .. n) -> T] : Folds(g, n, w, F)
  BY <1>3, <1>4, FoldExists
<1>7. \A s \in SUBSET (1 .. n) : s # {} =>
         Max(s) \in 1 .. n /\ s \ {Max(s)} \in SUBSET (1 .. n)
  BY <1>4, MaxFound
<1>8. g = G(g)
  BY <1>5, <1>6, <1>7 DEF Folds
<1>9. it = G(it)
  <2> HIDE DEF G
  <2> QED BY <1>8
<1> HIDE DEF it
<1>10. FoldsIn(T, it, n, w, F)
  BY <1>5, <1>7, <1>9 DEF FoldsIn
<1> HIDE DEF G
<1>11. PICK f : IsLine(f, T, n, w, F) /\ f[n] = it[1 .. n]
  BY <1>3, <1>4, <1>10, FoldLine
<1>12. QED BY <1>2, <1>4, <1>11 DEF IsLine

(* One loop of tunnel_rollback calls.                                      *)
LEMMA RollbackFold ==
  ASSUME NEW T, NEW t \in T, NEW list \in Seq(Rows),
         \A i \in 1 .. Len(list), a \in T : tunnel_rollback(a, list[i]) \in T
  PROVE  RollbackAll(t, list) \in T
<1> DEFINE n == Len(list)
           F == [i \in 1 .. n |-> [a \in T |-> tunnel_rollback(a, list[i])]]
           G(g) == [s \in SUBSET (1 .. n) |-> IF s = {} THEN t
                      ELSE tunnel_rollback(g[s \ {Max(s)}], list[Max(s)])]
           it == CHOOSE g : g = G(g)
<1>1. n \in Nat /\ DOMAIN list = 1 .. n
  OBVIOUS
<1>2. RollbackAll(t, list) = it[1 .. n]
  BY <1>1 DEF FoldLeft, MapThenFoldSet, RollbackAll
<1>3. F \in [1 .. n -> [T -> T]]
  OBVIOUS
<1>4. n \in Nat
  BY <1>1
<1> HIDE DEF n
<1>5. \A i \in 1 .. n, a \in T : F[i][a] = tunnel_rollback(a, list[i])
  OBVIOUS
<1> HIDE DEF F
<1>6. PICK g \in [SUBSET (1 .. n) -> T] : Folds(g, n, t, F)
  BY <1>3, <1>4, FoldExists
<1>7. \A s \in SUBSET (1 .. n) : s # {} =>
         Max(s) \in 1 .. n /\ s \ {Max(s)} \in SUBSET (1 .. n)
  BY <1>4, MaxFound
<1>8. g = G(g)
  BY <1>5, <1>6, <1>7 DEF Folds
<1>9. it = G(it)
  <2> HIDE DEF G
  <2> QED BY <1>8
<1> HIDE DEF it
<1>10. FoldsIn(T, it, n, t, F)
  BY <1>5, <1>7, <1>9 DEF FoldsIn
<1> HIDE DEF G
<1>11. PICK f : IsLine(f, T, n, t, F) /\ f[n] = it[1 .. n]
  BY <1>3, <1>4, <1>10, FoldLine
<1>12. QED BY <1>2, <1>4, <1>11 DEF IsLine

(* One loop of tunnel_remove calls.                                        *)
LEMMA RemoveFold ==
  ASSUME NEW T, NEW t \in T, NEW list \in Seq(Rows),
         \A i \in 1 .. Len(list), a \in T : RemoveOne(a, list[i]) \in T
  PROVE  RemoveAll(t, list) \in T
<1> DEFINE n == Len(list)
           F == [i \in 1 .. n |-> [a \in T |-> RemoveOne(a, list[i])]]
           G(g) == [s \in SUBSET (1 .. n) |-> IF s = {} THEN t
                      ELSE RemoveOne(g[s \ {Max(s)}], list[Max(s)])]
           it == CHOOSE g : g = G(g)
<1>1. n \in Nat /\ DOMAIN list = 1 .. n
  OBVIOUS
<1>2. RemoveAll(t, list) = it[1 .. n]
  BY <1>1 DEF FoldLeft, MapThenFoldSet, RemoveAll
<1>3. F \in [1 .. n -> [T -> T]]
  OBVIOUS
<1>4. n \in Nat
  BY <1>1
<1> HIDE DEF n
<1>5. \A i \in 1 .. n, a \in T : F[i][a] = RemoveOne(a, list[i])
  OBVIOUS
<1> HIDE DEF F
<1>6. PICK g \in [SUBSET (1 .. n) -> T] : Folds(g, n, t, F)
  BY <1>3, <1>4, FoldExists
<1>7. \A s \in SUBSET (1 .. n) : s # {} =>
         Max(s) \in 1 .. n /\ s \ {Max(s)} \in SUBSET (1 .. n)
  BY <1>4, MaxFound
<1>8. g = G(g)
  BY <1>5, <1>6, <1>7 DEF Folds
<1>9. it = G(it)
  <2> HIDE DEF G
  <2> QED BY <1>8
<1> HIDE DEF it
<1>10. FoldsIn(T, it, n, t, F)
  BY <1>5, <1>7, <1>9 DEF FoldsIn
<1> HIDE DEF G
<1>11. PICK f : IsLine(f, T, n, t, F) /\ f[n] = it[1 .. n]
  BY <1>3, <1>4, <1>10, FoldLine
<1>12. QED BY <1>2, <1>4, <1>11 DEF IsLine

(* One packing loop, as the line of its results.                           *)
PackLine(f, T, s0, list) ==
  /\ f[0] = s0 /\ f[Len(list)] = FoldLeft(PackOne, s0, list)
  /\ \A i \in 0 .. Len(list) : f[i] \in T[i]
  /\ \A i \in 1 .. Len(list) : f[i] = PackOne(f[i - 1], list[i])

LEMMA PackFold ==
  ASSUME NEW T, NEW s0 \in T[0], NEW list \in Seq(RowOrNull),
         \A i \in 1 .. Len(list) : T[i - 1] \subseteq T[i],
         \A i \in 1 .. Len(list) : \A a \in T[i - 1] : PackOne(a, list[i]) \in T[i]
  PROVE  \E f : PackLine(f, T, s0, list)
<1> DEFINE n == Len(list)
           F == [i \in 1 .. n |-> [a \in T[i - 1] |-> PackOne(a, list[i])]]
           G(g) == [s \in SUBSET (1 .. n) |-> IF s = {} THEN s0
                      ELSE PackOne(g[s \ {Max(s)}], list[Max(s)])]
           it == CHOOSE g : g = G(g)
<1>1. n \in Nat /\ DOMAIN list = 1 .. n
  OBVIOUS
<1>2. FoldLeft(PackOne, s0, list) = it[1 .. n]
  BY <1>1 DEF FoldLeft, MapThenFoldSet
<1>3. Stages(n, T, s0, F)
  BY DEF Stages
<1>4. n \in Nat
  BY <1>1
<1> HIDE DEF n
<1>5. \A i \in 1 .. n : \A a \in T[i - 1] : F[i][a] = PackOne(a, list[i])
  OBVIOUS
<1> HIDE DEF F
<1>6. PICK g : /\ g = [s \in SUBSET (1 .. n) |-> g[s]]
               /\ Folds(g, n, s0, F)
               /\ \A i \in 0 .. n : \A s \in SUBSET (1 .. i) : g[s] \in T[i]
  BY <1>3, <1>4, StagedFold
<1>7. ASSUME NEW s \in SUBSET (1 .. n), s # {}
      PROVE  /\ Max(s) \in 1 .. n /\ s \ {Max(s)} \in SUBSET (1 .. Max(s) - 1)
             /\ Max(s) - 1 \in 0 .. n /\ s \ {Max(s)} \in SUBSET (1 .. n)
  BY <1>4, <1>7, MaxSplit
<1>8. g = G(g)
  <2>1. ASSUME NEW s \in SUBSET (1 .. n)
        PROVE  g[s] = G(g)[s]
    <3>1. CASE s = {}
      BY <1>6, <3>1 DEF Folds
    <3>2. CASE s # {}
      <4>1. g[s] = F[Max(s)][g[s \ {Max(s)}]] /\ g[s \ {Max(s)}] \in T[Max(s) - 1]
        BY <1>6, <1>7, <3>2 DEF Folds
      <4>2. QED BY <1>5, <1>7, <3>2, <4>1
    <3>3. QED BY <3>1, <3>2
  <2>2. G(g) = [s \in SUBSET (1 .. n) |-> G(g)[s]]
    OBVIOUS
  <2> HIDE DEF G
  <2>3. QED BY <1>6, <2>1, <2>2
<1>9. it = G(it)
  <2> HIDE DEF G
  <2> QED BY <1>8
<1> HIDE DEF it
<1>10. StagesIn(n, T, it, s0, F)
  BY <1>5, <1>7, <1>9 DEF StagesIn
<1> HIDE DEF G
<1>11. PICK f : /\ f[0] = s0 /\ f[n] = it[1 .. n]
                /\ \A i \in 0 .. n : f[i] \in T[i]
                /\ \A i \in 1 .. n : f[i] = F[i][f[i - 1]]
  BY <1>3, <1>4, <1>10, StagedLine
<1>12. \A i \in 1 .. n : f[i] = PackOne(f[i - 1], list[i])
  <2>1. \A i \in 1 .. n : f[i - 1] \in T[i - 1]
    BY <1>4, <1>11
  <2>2. QED BY <1>5, <1>11, <2>1
<1>13. QED BY <1>2, <1>11, <1>12 DEF n, PackLine

(* One loop of tunnel_commit calls, as the line of its results.            *)
CommitLine(f, T, s0, m) ==
  /\ f[0] = s0 /\ f[m] = FoldLeft(CommitOne, s0, Positions(m))
  /\ \A i \in 0 .. m : f[i] \in T[i]
  /\ \A i \in 1 .. m : f[i] = CommitOne(f[i - 1], i)

LEMMA CommitFold ==
  ASSUME NEW T, NEW s0 \in T[0], NEW m \in Nat,
         \A i \in 1 .. m : T[i - 1] \subseteq T[i],
         \A i \in 1 .. m : \A a \in T[i - 1] : CommitOne(a, i) \in T[i]
  PROVE  \E f : CommitLine(f, T, s0, m)
<1> DEFINE n == m
           F == [i \in 1 .. n |-> [a \in T[i - 1] |-> CommitOne(a, i)]]
           G(g) == [s \in SUBSET (1 .. n) |-> IF s = {} THEN s0
                      ELSE CommitOne(g[s \ {Max(s)}], Positions(m)[Max(s)])]
           it == CHOOSE g : g = G(g)
<1>1. n \in Nat /\ DOMAIN Positions(m) = 1 .. n /\ \A i \in 1 .. n : Positions(m)[i] = i
  BY DEF Positions
<1>2. FoldLeft(CommitOne, s0, Positions(m)) = it[1 .. n]
  BY <1>1 DEF FoldLeft, MapThenFoldSet
<1>3. Stages(n, T, s0, F)
  BY DEF Stages
<1>4. n \in Nat
  BY <1>1
<1> HIDE DEF n
<1>5. \A i \in 1 .. n : \A a \in T[i - 1] : F[i][a] = CommitOne(a, i)
  OBVIOUS
<1> HIDE DEF F
<1>6. PICK g : /\ g = [s \in SUBSET (1 .. n) |-> g[s]]
               /\ Folds(g, n, s0, F)
               /\ \A i \in 0 .. n : \A s \in SUBSET (1 .. i) : g[s] \in T[i]
  BY <1>3, <1>4, StagedFold
<1>7. ASSUME NEW s \in SUBSET (1 .. n), s # {}
      PROVE  /\ Max(s) \in 1 .. n /\ s \ {Max(s)} \in SUBSET (1 .. Max(s) - 1)
             /\ Max(s) - 1 \in 0 .. n /\ s \ {Max(s)} \in SUBSET (1 .. n)
  BY <1>4, <1>7, MaxSplit
<1>8. g = G(g)
  <2>1. ASSUME NEW s \in SUBSET (1 .. n)
        PROVE  g[s] = G(g)[s]
    <3>1. CASE s = {}
      BY <1>6, <3>1 DEF Folds
    <3>2. CASE s # {}
      <4>1. g[s] = F[Max(s)][g[s \ {Max(s)}]] /\ g[s \ {Max(s)}] \in T[Max(s) - 1]
        BY <1>6, <1>7, <3>2 DEF Folds
      <4>2. QED BY <1>1, <1>5, <1>7, <3>2, <4>1
    <3>3. QED BY <3>1, <3>2
  <2>2. G(g) = [s \in SUBSET (1 .. n) |-> G(g)[s]]
    OBVIOUS
  <2> HIDE DEF G
  <2>3. QED BY <1>6, <2>1, <2>2
<1>9. it = G(it)
  <2> HIDE DEF G
  <2> QED BY <1>8
<1> HIDE DEF it
<1>10. StagesIn(n, T, it, s0, F)
  <2>1. it[{}] = s0
    BY <1>9
  <2>2. ASSUME NEW s \in SUBSET (1 .. n), s # {}, it[s \ {Max(s)}] \in T[Max(s) - 1]
        PROVE  it[s] = F[Max(s)][it[s \ {Max(s)}]]
    <3>1. it[s] = CommitOne(it[s \ {Max(s)}], Positions(m)[Max(s)])
      BY <1>9, <2>2
    <3>2. Max(s) \in 1 .. n
      BY <1>7, <2>2
    <3>3. QED BY <1>1, <1>5, <2>2, <3>1, <3>2
  <2>3. QED BY <2>1, <2>2 DEF StagesIn
<1> HIDE DEF G
<1>11. PICK f : /\ f[0] = s0 /\ f[n] = it[1 .. n]
                /\ \A i \in 0 .. n : f[i] \in T[i]
                /\ \A i \in 1 .. n : f[i] = F[i][f[i - 1]]
  BY <1>3, <1>4, <1>10, StagedLine
<1>12. \A i \in 1 .. n : f[i] = CommitOne(f[i - 1], i)
  <2>1. \A i \in 1 .. n : f[i - 1] \in T[i - 1]
    BY <1>4, <1>11
  <2>2. QED BY <1>5, <1>11, <2>1
<1>13. QED BY <1>2, <1>11, <1>12 DEF n, CommitLine

(* The loop over the DRBs to remove.                                       *)
LEMMA DrbRemovalFold ==
  ASSUME NEW T, NEW w \in T, NEW ids \in Seq(DrbIds),
         \A i \in 1 .. Len(ids), a \in T : DrbRemoval(a, ids, Positions(Len(ids))[i]) \in T
  PROVE  DrbRemovals(w, ids) \in T
<1> DEFINE n == Len(ids)
           F == [i \in 1 .. n |-> [a \in T |-> DrbRemoval(a, ids, Positions(Len(ids))[i])]]
           G(g) == [s \in SUBSET (1 .. n) |-> IF s = {} THEN w
                      ELSE DrbRemoval(g[s \ {Max(s)}], ids, Positions(Len(ids))[Max(s)])]
           it == CHOOSE g : g = G(g)
<1>1. n \in Nat /\ DOMAIN Positions(Len(ids)) = 1 .. n
  BY DEF Positions
<1>2. DrbRemovals(w, ids) = it[1 .. n]
  BY <1>1 DEF FoldLeft, MapThenFoldSet, DrbRemovals
<1>3. F \in [1 .. n -> [T -> T]]
  OBVIOUS
<1>4. n \in Nat
  BY <1>1
<1> HIDE DEF n
<1>5. \A i \in 1 .. n, a \in T : F[i][a] = DrbRemoval(a, ids, Positions(Len(ids))[i])
  OBVIOUS
<1> HIDE DEF F
<1>6. PICK g \in [SUBSET (1 .. n) -> T] : Folds(g, n, w, F)
  BY <1>3, <1>4, FoldExists
<1>7. \A s \in SUBSET (1 .. n) : s # {} =>
         Max(s) \in 1 .. n /\ s \ {Max(s)} \in SUBSET (1 .. n)
  BY <1>4, MaxFound
<1>8. g = G(g)
  BY <1>5, <1>6, <1>7 DEF Folds
<1>9. it = G(it)
  <2> HIDE DEF G
  <2> QED BY <1>8
<1> HIDE DEF it
<1>10. FoldsIn(T, it, n, w, F)
  BY <1>5, <1>7, <1>9 DEF FoldsIn
<1> HIDE DEF G
<1>11. PICK f : IsLine(f, T, n, w, F) /\ f[n] = it[1 .. n]
  BY <1>3, <1>4, <1>10, FoldLine
<1>12. QED BY <1>2, <1>4, <1>11 DEF IsLine

(* The loop over the DRBs to modify.                                       *)
LEMMA DrbModificationFold ==
  ASSUME NEW T, NEW w \in T, NEW ids \in Seq(DrbIds),
         \A i \in 1 .. Len(ids), a \in T : DrbModification(a, ids[i]) \in T
  PROVE  DrbModifications(w, ids) \in T
<1> DEFINE n == Len(ids)
           F == [i \in 1 .. n |-> [a \in T |-> DrbModification(a, ids[i])]]
           G(g) == [s \in SUBSET (1 .. n) |-> IF s = {} THEN w
                      ELSE DrbModification(g[s \ {Max(s)}], ids[Max(s)])]
           it == CHOOSE g : g = G(g)
<1>1. n \in Nat /\ DOMAIN ids = 1 .. n
  OBVIOUS
<1>2. DrbModifications(w, ids) = it[1 .. n]
  BY <1>1 DEF FoldLeft, MapThenFoldSet, DrbModifications
<1>3. F \in [1 .. n -> [T -> T]]
  OBVIOUS
<1>4. n \in Nat
  BY <1>1
<1> HIDE DEF n
<1>5. \A i \in 1 .. n, a \in T : F[i][a] = DrbModification(a, ids[i])
  OBVIOUS
<1> HIDE DEF F
<1>6. PICK g \in [SUBSET (1 .. n) -> T] : Folds(g, n, w, F)
  BY <1>3, <1>4, FoldExists
<1>7. \A s \in SUBSET (1 .. n) : s # {} =>
         Max(s) \in 1 .. n /\ s \ {Max(s)} \in SUBSET (1 .. n)
  BY <1>4, MaxFound
<1>8. g = G(g)
  BY <1>5, <1>6, <1>7 DEF Folds
<1>9. it = G(it)
  <2> HIDE DEF G
  <2> QED BY <1>8
<1> HIDE DEF it
<1>10. FoldsIn(T, it, n, w, F)
  BY <1>5, <1>7, <1>9 DEF FoldsIn
<1> HIDE DEF G
<1>11. PICK f : IsLine(f, T, n, w, F) /\ f[n] = it[1 .. n]
  BY <1>3, <1>4, <1>10, FoldLine
<1>12. QED BY <1>2, <1>4, <1>11 DEF IsLine

(* The loop over the sessions to remove.                                   *)
LEMMA PdusRemovalFold ==
  ASSUME NEW T, NEW w \in T, NEW ids \in Seq(Ids),
         \A i \in 1 .. Len(ids), a \in T : PdusRemoval(a, ids[i]) \in T
  PROVE  PdusRemovals(w, ids) \in T
<1> DEFINE n == Len(ids)
           F == [i \in 1 .. n |-> [a \in T |-> PdusRemoval(a, ids[i])]]
           G(g) == [s \in SUBSET (1 .. n) |-> IF s = {} THEN w
                      ELSE PdusRemoval(g[s \ {Max(s)}], ids[Max(s)])]
           it == CHOOSE g : g = G(g)
<1>1. n \in Nat /\ DOMAIN ids = 1 .. n
  OBVIOUS
<1>2. PdusRemovals(w, ids) = it[1 .. n]
  BY <1>1 DEF FoldLeft, MapThenFoldSet, PdusRemovals
<1>3. F \in [1 .. n -> [T -> T]]
  OBVIOUS
<1>4. n \in Nat
  BY <1>1
<1> HIDE DEF n
<1>5. \A i \in 1 .. n, a \in T : F[i][a] = PdusRemoval(a, ids[i])
  OBVIOUS
<1> HIDE DEF F
<1>6. PICK g \in [SUBSET (1 .. n) -> T] : Folds(g, n, w, F)
  BY <1>3, <1>4, FoldExists
<1>7. \A s \in SUBSET (1 .. n) : s # {} =>
         Max(s) \in 1 .. n /\ s \ {Max(s)} \in SUBSET (1 .. n)
  BY <1>4, MaxFound
<1>8. g = G(g)
  BY <1>5, <1>6, <1>7 DEF Folds
<1>9. it = G(it)
  <2> HIDE DEF G
  <2> QED BY <1>8
<1> HIDE DEF it
<1>10. FoldsIn(T, it, n, w, F)
  BY <1>5, <1>7, <1>9 DEF FoldsIn
<1> HIDE DEF G
<1>11. PICK f : IsLine(f, T, n, w, F) /\ f[n] = it[1 .. n]
  BY <1>3, <1>4, <1>10, FoldLine
<1>12. QED BY <1>2, <1>4, <1>11 DEF IsLine

(* The loop over the sessions to modify.                                   *)
LEMMA PdusModificationFold ==
  ASSUME NEW T, NEW w \in T, NEW list \in Seq(SessionChange),
         \A i \in 1 .. Len(list), a \in T : PdusModification(a, list[i]) \in T
  PROVE  PdusModifications(w, list) \in T
<1> DEFINE n == Len(list)
           F == [i \in 1 .. n |-> [a \in T |-> PdusModification(a, list[i])]]
           G(g) == [s \in SUBSET (1 .. n) |-> IF s = {} THEN w
                      ELSE PdusModification(g[s \ {Max(s)}], list[Max(s)])]
           it == CHOOSE g : g = G(g)
<1>1. n \in Nat /\ DOMAIN list = 1 .. n
  OBVIOUS
<1>2. PdusModifications(w, list) = it[1 .. n]
  BY <1>1 DEF FoldLeft, MapThenFoldSet, PdusModifications
<1>3. F \in [1 .. n -> [T -> T]]
  OBVIOUS
<1>4. n \in Nat
  BY <1>1
<1> HIDE DEF n
<1>5. \A i \in 1 .. n, a \in T : F[i][a] = PdusModification(a, list[i])
  OBVIOUS
<1> HIDE DEF F
<1>6. PICK g \in [SUBSET (1 .. n) -> T] : Folds(g, n, w, F)
  BY <1>3, <1>4, FoldExists
<1>7. \A s \in SUBSET (1 .. n) : s # {} =>
         Max(s) \in 1 .. n /\ s \ {Max(s)} \in SUBSET (1 .. n)
  BY <1>4, MaxFound
<1>8. g = G(g)
  BY <1>5, <1>6, <1>7 DEF Folds
<1>9. it = G(it)
  <2> HIDE DEF G
  <2> QED BY <1>8
<1> HIDE DEF it
<1>10. FoldsIn(T, it, n, w, F)
  BY <1>5, <1>7, <1>9 DEF FoldsIn
<1> HIDE DEF G
<1>11. PICK f : IsLine(f, T, n, w, F) /\ f[n] = it[1 .. n]
  BY <1>3, <1>4, <1>10, FoldLine
<1>12. QED BY <1>2, <1>4, <1>11 DEF IsLine

-----------------------------------------------------------------------------
(***************************************************************************)
(* Types.  A handler in progress holds a table, a context and its grants;  *)
(* its DRB list has no NULL entry up to its count, for tunnel_commit is    *)
(* called on every entry.                                                  *)
(***************************************************************************)
Grants == [key : TunnelKey, info : Info]
NoGaps(c) == \A i \in 1 .. c.drbCount : c.drb[i] # NoRow
Works == {w \in [tbl : Table, ctx : UeCtx, granted : SUBSET Grants, dead : BOOLEAN] :
            NoGaps(w.ctx)}

LEMMA WorkFields ==
  ASSUME NEW w \in Works
  PROVE  /\ w.tbl \in Table /\ w.ctx \in UeCtx /\ w.granted \in SUBSET Grants
         /\ w.dead \in BOOLEAN /\ NoGaps(w.ctx)
BY DEF Works

LEMMA WorkFrom ==
  ASSUME NEW t \in Table, NEW c \in UeCtx, NEW g \in SUBSET Grants, NEW d \in BOOLEAN,
         NoGaps(c)
  PROVE  [tbl |-> t, ctx |-> c, granted |-> g, dead |-> d] \in Works
BY DEF Works

LEMMA CtxFields ==
  ASSUME NEW c \in UeCtx
  PROVE  /\ c.used \in BOOLEAN /\ c.cuup \in UeIds /\ c.cucp \in CucpIds
         /\ c.pdusCount \in 0 .. MAX_PDUS_PER_UE /\ c.drbCount \in 0 .. MAX_DRB_PER_UE
         /\ c.pdus \in [1 .. MAX_PDUS_PER_UE -> RowOrNull]
         /\ c.drb \in [1 .. MAX_DRB_PER_UE -> RowOrNull]
         /\ MAX_PDUS_PER_UE \in Nat /\ MAX_DRB_PER_UE \in Nat
BY UeCountAssumption DEF UeCtx

(* The two lists of a context, as sequences.                               *)
LEMMA Lists ==
  ASSUME NEW c \in UeCtx
  PROVE  /\ Pdus(c) \in Seq(RowOrNull) /\ Len(Pdus(c)) = c.pdusCount
         /\ \A i \in 1 .. c.pdusCount : Pdus(c)[i] = c.pdus[i]
         /\ Drbs(c) \in Seq(RowOrNull) /\ Len(Drbs(c)) = c.drbCount
         /\ \A i \in 1 .. c.drbCount : Drbs(c)[i] = c.drb[i]
<1>1. ASSUME NEW m \in Nat, NEW s \in [1 .. m -> RowOrNull], NEW n \in 0 .. m
      PROVE  /\ SubSeq(s, 1, n) \in Seq(RowOrNull) /\ Len(SubSeq(s, 1, n)) = n
             /\ \A i \in 1 .. n : SubSeq(s, 1, n)[i] = s[i]
  <2>1. s \in Seq(RowOrNull) /\ Len(s) = m
    OBVIOUS
  <2>2. \A i \in 1 .. n : s[i] \in RowOrNull
    OBVIOUS
  <2>3. QED BY <2>1, <2>2
<1>2. QED BY <1>1, CtxFields DEF Pdus, Drbs

(* A search without a result has seen every entry.                         *)
LEMMA SearchResult ==
  ASSUME NEW n \in Nat, NEW list, DOMAIN list = 1 .. n, NEW read, NEW id
  PROVE  LET j == Search(read, list, id)
         IN  \/ j = 0 /\ \A i \in 1 .. n : list[i] # NoRow /\ read[list[i]] # id
             \/ j \in 1 .. n /\ (list[j] = NoRow \/ read[list[j]] = id)
<1> DEFINE stops == {j \in DOMAIN list : list[j] = NoRow \/ read[list[j]] = id}
<1>1. CASE stops = {}
  BY <1>1 DEF Search
<1>2. CASE stops # {}
  <2>1. PICK m \in stops : \A i \in stops : m <= i
    <3>1. stops \in SUBSET Nat
      OBVIOUS
    <3> HIDE DEF stops
    <3>2. QED BY <1>2, <3>1, LeastNatural
  <2>2. Search(read, list, id) \in stops
    BY <1>2, <2>1 DEF Search
  <2>3. QED BY <2>2
<1>3. QED BY <1>1, <1>2

(* The byte of a row: what is written to its five bits is read back, cut   *)
(* down to them, and what an answer says of a row is a content as well.    *)
LEMMA ByteValue ==
  ASSUME NEW byte \in 0 .. 255, NEW id \in 0 .. 255
  PROVE  /\ DrbId(WithDrbId(byte, id)) = DrbId(id)
         /\ DrbId(DrbId(byte)) = DrbId(byte) /\ WithDrbId(0, id) = DrbId(id)
         /\ id < 32 => DrbId(id) = id
BY SMT DEF DrbId, WithDrbId

LEMMA ReadBack ==
  ASSUME NEW t \in Table, NEW r \in Rows
  PROVE  /\ AsPdus(t)[r] = t.info[r].id /\ AsDrbs(t)[r] = DrbId(t.info[r].id)
         /\ t.info[r].id \in Ids
BY TableFields, ContentAssumption DEF AsPdus, AsDrbs

(* What drb_setup writes to row r of table t.                              *)
DrbInfo(byte) == [kind |-> "drb", id |-> byte]
Cell(t, r, id) == DrbInfo(WithDrbId(t.info[r].id, id))

LEMMA CellType ==
  ASSUME NEW t \in Table, NEW r \in Rows, NEW id \in DrbIds
  PROVE  /\ Cell(t, r, id) \in Info /\ Told(Cell(t, r, id)) \in Info
         /\ Cell(t, r, id).kind = "drb" /\ DrbId(Cell(t, r, id).id) = DrbId(id)
         /\ Told(Cell(t, r, id)) = DrbInfo(DrbId(id))
<1> DEFINE byte == t.info[r].id
<1>1. byte \in Ids /\ byte \in 0 .. 255 /\ id \in 0 .. 255 /\ 0 \in Ids
  BY ReadBack, ByteAssumption
<1>2. WithDrbId(byte, id) \in Ids /\ WithDrbId(0, id) \in Ids
  BY <1>1, ByteAssumption
<1>3. DrbId(WithDrbId(byte, id)) = DrbId(id) /\ WithDrbId(0, id) = DrbId(id)
  BY <1>1, ByteValue
<1>4. Cell(t, r, id) = DrbInfo(WithDrbId(byte, id))
  BY DEF Cell
<1> HIDE DEF byte
<1>5. Told(Cell(t, r, id)) = DrbInfo(DrbId(id))
  BY <1>3, <1>4 DEF Told, DrbInfo
<1>6. QED BY <1>2, <1>3, <1>4, <1>5, ContentAssumption DEF DrbInfo

(* The pair of calls that finds a key and a row.                           *)
KeyFor(t, ip) == tunnel_key_alloc(t, ip).key
TakenFor(t, ip) == tunnel_add(tunnel_key_alloc(t, ip).tbl, KeyFor(t, ip))

LEMMA TakenResult ==
  ASSUME NEW t \in Table, NEW ip \in LocalIps, KeyAvailable(t, ip)
  PROVE  /\ KeyFor(t, ip) \in TunnelKey /\ t.hash[KeyFor(t, ip)] = NoRow
         /\ TakenFor(t, ip).tbl \in Table /\ TakenFor(t, ip).row \in RowOrNull
         /\ \E i \in Rows :
              \/ /\ TakenFor(t, ip).row = NoRow
                 /\ TakenFor(t, ip).tbl = SetLastId(t, i)
              \/ /\ TakenFor(t, ip).row \in Rows /\ ~t.used[TakenFor(t, ip).row]
                 /\ TakenFor(t, ip).tbl =
                      TakeRow(SetLastId(t, i), TakenFor(t, ip).row, KeyFor(t, ip))
<1>1. /\ KeyFor(t, ip) \in TunnelKey /\ t.hash[KeyFor(t, ip)] = NoRow
      /\ \E i \in Rows :
              \/ /\ TakenFor(t, ip).row = NoRow
                 /\ TakenFor(t, ip).tbl = SetLastId(t, i)
              \/ /\ TakenFor(t, ip).row \in Rows /\ ~t.used[TakenFor(t, ip).row]
                 /\ TakenFor(t, ip).tbl =
                      TakeRow(SetLastId(t, i), TakenFor(t, ip).row, KeyFor(t, ip))
  BY SetupResult, Zenon DEF KeyFor, TakenFor
<1>2. PICK i \in Rows :
              \/ /\ TakenFor(t, ip).row = NoRow
                 /\ TakenFor(t, ip).tbl = SetLastId(t, i)
              \/ /\ TakenFor(t, ip).row \in Rows /\ ~t.used[TakenFor(t, ip).row]
                 /\ TakenFor(t, ip).tbl =
                      TakeRow(SetLastId(t, i), TakenFor(t, ip).row, KeyFor(t, ip))
  BY <1>1
<1>3. SetLastId(t, i) \in Table
  BY SetLastIdFields
<1>4. TakenFor(t, ip).tbl \in Table /\ TakenFor(t, ip).row \in RowOrNull
  <2>1. ASSUME NEW r \in Rows
        PROVE  TakeRow(SetLastId(t, i), r, KeyFor(t, ip)) \in Table
    BY <1>1, <1>3, TakeRowFields
  <2>2. QED BY <1>2, <1>3, <2>1 DEF RowOrNull
<1>5. QED BY <1>1, <1>4

(* Putting one more tunnel on a list of a context.                         *)
DrbOn(c, r) == [c EXCEPT !.drb[c.drbCount + 1] = r, !.drbCount = @ + 1]
PdusOn(c, n, r) == [c EXCEPT !.pdus[n + 1] = r, !.pdusCount = n + 1]

LEMMA DrbListed ==
  ASSUME NEW c \in UeCtx, NoGaps(c), c.drbCount # MAX_DRB_PER_UE, NEW r \in Rows
  PROVE  LET d == DrbOn(c, r)
         IN  /\ d \in UeCtx /\ NoGaps(d)
             /\ d.drb = [c.drb EXCEPT ![c.drbCount + 1] = r]
             /\ d.drbCount = c.drbCount + 1 /\ d.drbCount \in 1 .. MAX_DRB_PER_UE
             /\ d.pdus = c.pdus /\ d.pdusCount = c.pdusCount
             /\ d.used = c.used /\ d.cuup = c.cuup /\ d.cucp = c.cucp
<1> DEFINE d == DrbOn(c, r)
           drb == [c.drb EXCEPT ![c.drbCount + 1] = r]
<1>1. c.drbCount + 1 \in 1 .. MAX_DRB_PER_UE /\ r \in RowOrNull /\ r # NoRow
  BY CtxFields, NoRowAssumption DEF RowOrNull, Rows
<1>2. d = [c EXCEPT !.drb = drb, !.drbCount = c.drbCount + 1]
  BY DEF DrbOn
<1>3. drb \in [1 .. MAX_DRB_PER_UE -> RowOrNull]
  BY <1>1, CtxFields
<1>4. \A i \in 1 .. c.drbCount + 1 : drb[i] # NoRow
  BY <1>1, CtxFields DEF NoGaps
<1> HIDE DEF d, drb
<1>8. c.drbCount + 1 \in 0 .. MAX_DRB_PER_UE
  BY <1>1
<1>5. /\ d \in UeCtx /\ d.drb = drb
      /\ d.drbCount = c.drbCount + 1
      /\ d.pdus = c.pdus /\ d.pdusCount = c.pdusCount
      /\ d.used = c.used /\ d.cuup = c.cuup /\ d.cucp = c.cucp
  BY <1>2, <1>3, <1>8 DEF UeCtx
<1>6. NoGaps(d)
  BY <1>4, <1>5 DEF NoGaps
<1>7. QED BY <1>1, <1>5, <1>6 DEF d, drb

LEMMA PdusListed ==
  ASSUME NEW c \in UeCtx, NoGaps(c), NEW n \in Nat, n < MAX_PDUS_PER_UE, NEW r \in Rows
  PROVE  LET d == PdusOn(c, n, r)
         IN  /\ d \in UeCtx /\ NoGaps(d)
             /\ d.pdus = [c.pdus EXCEPT ![n + 1] = r]
             /\ d.pdusCount = n + 1 /\ d.drb = c.drb /\ d.drbCount = c.drbCount
             /\ d.used = c.used /\ d.cuup = c.cuup /\ d.cucp = c.cucp
<1> DEFINE d == PdusOn(c, n, r)
           pdus == [c.pdus EXCEPT ![n + 1] = r]
<1>1. n + 1 \in 1 .. MAX_PDUS_PER_UE /\ r \in RowOrNull
  BY CtxFields DEF RowOrNull
<1>2. d = [c EXCEPT !.pdus = pdus, !.pdusCount = n + 1]
  BY DEF PdusOn
<1>3. pdus \in [1 .. MAX_PDUS_PER_UE -> RowOrNull]
  BY <1>1, CtxFields
<1> HIDE DEF d, pdus
<1>4. n + 1 \in 0 .. MAX_PDUS_PER_UE
  BY <1>1
<1>5. /\ d \in UeCtx /\ d.pdus = pdus
      /\ d.pdusCount = n + 1 /\ d.drb = c.drb /\ d.drbCount = c.drbCount
      /\ d.used = c.used /\ d.cuup = c.cuup /\ d.cucp = c.cucp
  BY <1>2, <1>3, <1>4 DEF UeCtx
<1>6. QED BY <1>5 DEF d, pdus, NoGaps

(* What a set-up writes to a handler in progress.                          *)
Written(w, t, c, g) == [w EXCEPT !.tbl = t, !.ctx = c, !.granted = g]

LEMMA WrittenFields ==
  ASSUME NEW w \in Works, NEW t \in Table, NEW c \in UeCtx, NoGaps(c),
         NEW g \in SUBSET Grants
  PROVE  LET s == Written(w, t, c, g)
         IN  s \in Works /\ s.tbl = t /\ s.ctx = c /\ s.granted = g /\ s.dead = w.dead
BY DEF Works, Written

(* What drb_setup comes to: nothing; an id used up for want of a row; or a *)
(* new tunnel at the end of the list, under a key that is not in the hash. *)
DrbAdded(w, s, k, r, t, id) ==
  /\ w.ctx.drbCount # MAX_DRB_PER_UE /\ Search(AsDrbs(w.tbl), Drbs(w.ctx), id) = 0
  /\ s = Written(w, Fill(t, r, Cell(t, r, id)), DrbOn(w.ctx, r),
                 w.granted \union {Grant(k, Told(Cell(t, r, id)))})

LEMMA DrbSetupCases ==
  ASSUME NEW w \in Works, NEW id \in DrbIds
  PROVE  LET k == KeyFor(w.tbl, F1uIp)
             b == TakenFor(w.tbl, F1uIp)
             s == drb_setup(w, id)
         IN  \/ s = w
             \/ /\ KeyAvailable(w.tbl, F1uIp) /\ b.row = NoRow
                /\ s = [w EXCEPT !.tbl = b.tbl]
             \/ /\ KeyAvailable(w.tbl, F1uIp) /\ b.row # NoRow
                /\ DrbAdded(w, s, k, b.row, b.tbl, id)
<1> DEFINE k == KeyFor(w.tbl, F1uIp)
           b == TakenFor(w.tbl, F1uIp)
           s == drb_setup(w, id)
           v == Cell(b.tbl, b.row, id)
           n == [w EXCEPT !.tbl = Fill(b.tbl, b.row, v),
                          !.ctx.drb[w.ctx.drbCount + 1] = b.row,
                          !.ctx.drbCount = @ + 1,
                          !.granted = @ \union {Grant(k, Told(v))}]
<1>1. CASE \/ w.ctx.drbCount = MAX_DRB_PER_UE
           \/ Search(AsDrbs(w.tbl), Drbs(w.ctx), id) # 0
           \/ ~KeyAvailable(w.tbl, F1uIp)
  BY <1>1 DEF drb_setup
<1>2. CASE /\ w.ctx.drbCount # MAX_DRB_PER_UE
           /\ Search(AsDrbs(w.tbl), Drbs(w.ctx), id) = 0
           /\ KeyAvailable(w.tbl, F1uIp)
  <2>1. s = IF b.row = NoRow THEN [w EXCEPT !.tbl = b.tbl] ELSE n
    BY <1>2, Zenon DEF drb_setup, Cell, DrbInfo, KeyFor, TakenFor
  <2>2. n = Written(w, Fill(b.tbl, b.row, v), DrbOn(w.ctx, b.row),
                    w.granted \union {Grant(k, Told(v))})
    <3> HIDE DEF k, b, v
    <3>1. QED BY DEF Works, UeCtx, DrbOn, Written
  <2>3. DrbAdded(w, n, k, b.row, b.tbl, id)
    <3> HIDE DEF k, b, n
    <3>1. QED BY <1>2, <2>2 DEF DrbAdded, v
  <2>4. QED BY <1>2, <2>1, <2>3
<1>3. QED BY <1>1, <1>2


(* What may be written to a handler in progress.                           *)
LEMMA WriteTbl ==
  ASSUME NEW w \in Works, NEW t \in Table
  PROVE  LET s == [w EXCEPT !.tbl = t]
         IN  s \in Works /\ s.tbl = t /\ s.ctx = w.ctx /\ s.granted = w.granted
             /\ s.dead = w.dead
BY DEF Works

LEMMA WriteCtx ==
  ASSUME NEW w \in Works, NEW t \in Table, NEW c \in UeCtx, NoGaps(c)
  PROVE  LET s == [w EXCEPT !.tbl = t, !.ctx = c]
         IN  s \in Works /\ s.tbl = t /\ s.ctx = c /\ s.granted = w.granted
             /\ s.dead = w.dead
BY DEF Works

LEMMA WriteDead ==
  ASSUME NEW w \in Works
  PROVE  LET s == [w EXCEPT !.dead = TRUE]
         IN  s \in Works /\ s.tbl = w.tbl /\ s.ctx = w.ctx /\ s.granted = w.granted
             /\ s.dead
BY DEF Works

LEMMA DrbSetupType ==
  ASSUME NEW w \in Works, NEW id \in DrbIds
  PROVE  drb_setup(w, id) \in Works
<1> DEFINE k == KeyFor(w.tbl, F1uIp)
           b == TakenFor(w.tbl, F1uIp)
           s == drb_setup(w, id)
<1>1. /\ w.tbl \in Table /\ w.ctx \in UeCtx /\ w.granted \in SUBSET Grants
      /\ w.dead \in BOOLEAN /\ NoGaps(w.ctx) /\ F1uIp \in LocalIps
  BY WorkFields, IdAssumption
<1>2. CASE s = w
  BY <1>2
<1>3. KeyAvailable(w.tbl, F1uIp) =>
        k \in TunnelKey /\ b.tbl \in Table /\ b.row \in RowOrNull
  BY <1>1, TakenResult
<1> HIDE DEF k, b
<1>4. CASE KeyAvailable(w.tbl, F1uIp) /\ s = [w EXCEPT !.tbl = b.tbl]
  BY <1>3, <1>4, WriteTbl
<1>5. CASE /\ KeyAvailable(w.tbl, F1uIp) /\ b.row # NoRow
           /\ DrbAdded(w, s, k, b.row, b.tbl, id)
  <2> DEFINE v == Cell(b.tbl, b.row, id)
  <2>1. b.row \in Rows /\ v \in Info /\ Told(v) \in Info
    BY <1>3, <1>5, CellType DEF RowOrNull
  <2>6. /\ w.ctx.drbCount # MAX_DRB_PER_UE
        /\ s = Written(w, Fill(b.tbl, b.row, v), DrbOn(w.ctx, b.row),
                       w.granted \union {Grant(k, Told(v))})
    BY <1>5 DEF DrbAdded
  <2> HIDE DEF v
  <2>2. Fill(b.tbl, b.row, v) \in Table
    BY <1>3, <1>5, <2>1, FillFields
  <2>3. DrbOn(w.ctx, b.row) \in UeCtx /\ NoGaps(DrbOn(w.ctx, b.row))
    BY <1>1, <2>6, <2>1, DrbListed
  <2>4. w.granted \union {Grant(k, Told(v))} \in SUBSET Grants
    BY <1>1, <1>3, <1>5, <2>1 DEF Grant, Grants
  <2>5. QED BY <2>6, <2>2, <2>3, <2>4, WrittenFields
<1>6. QED BY <1>2, <1>4, <1>5, DrbSetupCases DEF k, b


(* Setting up DRBs leaves the sessions of the context alone.               *)
SameSessions(w, s) ==
  /\ s.ctx.pdus = w.ctx.pdus /\ s.ctx.pdusCount = w.ctx.pdusCount
  /\ s.ctx.used = w.ctx.used /\ s.ctx.cuup = w.ctx.cuup /\ s.ctx.cucp = w.ctx.cucp
  /\ s.dead = w.dead

LEMMA DrbSetupSame ==
  ASSUME NEW w \in Works, NEW id \in DrbIds
  PROVE  SameSessions(w, drb_setup(w, id))
<1> DEFINE k == KeyFor(w.tbl, F1uIp)
           b == TakenFor(w.tbl, F1uIp)
           s == drb_setup(w, id)
<1>1. w.ctx \in UeCtx /\ NoGaps(w.ctx)
  BY WorkFields
<1>2. CASE s = w
  BY <1>2 DEF SameSessions
<1>3. CASE s = [w EXCEPT !.tbl = b.tbl]
  <2> HIDE DEF b
  <2>1. QED BY <1>3 DEF SameSessions, Works
<1>4. CASE KeyAvailable(w.tbl, F1uIp) /\ b.row # NoRow /\ DrbAdded(w, s, k, b.row, b.tbl, id)
  <2>1. b.row \in Rows
    BY <1>4, TakenResult, WorkFields, IdAssumption DEF RowOrNull
  <2> HIDE DEF k, b
  <2>2. /\ s.ctx = DrbOn(w.ctx, b.row) /\ s.dead = w.dead
    BY <1>4 DEF DrbAdded, Written, Works
  <2>3. w.ctx.drbCount # MAX_DRB_PER_UE
    BY <1>4 DEF DrbAdded
  <2> DEFINE d == DrbOn(w.ctx, b.row)
  <2>4. /\ d.pdus = w.ctx.pdus /\ d.pdusCount = w.ctx.pdusCount
        /\ d.used = w.ctx.used /\ d.cuup = w.ctx.cuup /\ d.cucp = w.ctx.cucp
    BY <1>1, <2>1, <2>3, DrbListed
  <2> HIDE DEF d, s
  <2>5. SameSessions(w, s)
    BY <2>2, <2>4 DEF SameSessions, d
  <2>6. QED BY <2>5 DEF s
<1>5. QED BY <1>2, <1>3, <1>4, DrbSetupCases

LEMMA DrbsSetupType ==
  ASSUME NEW w \in Works, NEW ids \in Seq(DrbIds)
  PROVE  FoldLeft(drb_setup, w, ids) \in Works
         /\ SameSessions(w, FoldLeft(drb_setup, w, ids))
<1> DEFINE T == {x \in Works : SameSessions(w, x)}
<1>1. w \in T
  BY DEF SameSessions
<1>2. ASSUME NEW x \in T, NEW i \in 1 .. Len(ids)
      PROVE  drb_setup(x, ids[i]) \in T
  <2>1. ids[i] \in DrbIds
    OBVIOUS
  <2>2. drb_setup(x, ids[i]) \in Works /\ SameSessions(x, drb_setup(x, ids[i]))
    BY <2>1, DrbSetupType, DrbSetupSame
  <2>3. QED BY <1>2, <2>2 DEF SameSessions
<1> HIDE DEF T
<1>3. FoldLeft(drb_setup, w, ids) \in T
  BY <1>1, <1>2, DrbFold
<1>4. QED BY <1>3 DEF T

(* What pdus_setup comes to.  With a row at hand, the DRBs are set up; if  *)
(* none of them succeeds the id of the session is dereferenced, and if it  *)
(* is 0 the session's tunnel is committed on its own.                      *)
PdusInfo(id) == [kind |-> "pdus", id |-> id]
Filled(w, row, q) == [w EXCEPT !.tbl = Fill(@, row, PdusInfo(q.id))]
DrbsDone(w, row, q) == FoldLeft(drb_setup, Filled(w, row, q), q.drbs)

LEMMA SessionCases ==
  ASSUME NEW w \in Works, NEW q \in SessionReq, NEW row \in Rows, NEW key \in TunnelKey
  PROVE  LET s == DrbsDone(w, row, q)
             r == SessionSetup(w, q, key, row)
         IN  /\ Filled(w, row, q) \in Works /\ Filled(w, row, q).ctx = w.ctx
             /\ Filled(w, row, q).tbl = Fill(w.tbl, row, PdusInfo(q.id))
             /\ Filled(w, row, q).granted = w.granted /\ Filled(w, row, q).dead = w.dead
             /\ s \in Works /\ SameSessions(w, s) /\ q.drbs \in Seq(DrbIds)
             /\ \/ r = [s EXCEPT !.dead = TRUE]
                \/ /\ s.ctx.drbCount = w.ctx.drbCount /\ q.id = 0
                   /\ r = [s EXCEPT !.tbl = tunnel_commit(tunnel_remove(s.tbl, key), row)]
                \/ /\ s.ctx.drbCount # w.ctx.drbCount
                   /\ r = Written(s, s.tbl, PdusOn(s.ctx, s.ctx.pdusCount, row),
                                  s.granted \union {Grant(key, PdusInfo(q.id))})
<1> DEFINE s == DrbsDone(w, row, q)
           r == SessionSetup(w, q, key, row)
           c == tunnel_commit(tunnel_remove(s.tbl, key), row)
<1>1. q.id \in Ids /\ q.drbs \in Seq(DrbIds) /\ PdusInfo(q.id) \in Info
  BY ContentAssumption DEF SessionReq, PdusInfo
<1>2. Fill(w.tbl, row, PdusInfo(q.id)) \in Table
  BY <1>1, WorkFields, FillFields
<1>3. /\ Filled(w, row, q) \in Works /\ Filled(w, row, q).ctx = w.ctx
      /\ Filled(w, row, q).tbl = Fill(w.tbl, row, PdusInfo(q.id))
      /\ Filled(w, row, q).granted = w.granted /\ Filled(w, row, q).dead = w.dead
  BY <1>2, WriteTbl DEF Filled
<1>4. s \in Works /\ SameSessions(w, s)
  BY <1>1, <1>3, DrbsSetupType DEF DrbsDone, SameSessions
<1>5. r = IF s.ctx.drbCount = w.ctx.drbCount
          THEN IF q.id # 0 THEN [s EXCEPT !.dead = TRUE]
               ELSE [s EXCEPT !.tbl = tunnel_commit(tunnel_remove(@, key), row)]
          ELSE [s EXCEPT !.ctx.pdus[w.ctx.pdusCount + 1] = row,
                         !.ctx.pdusCount = @ + 1,
                         !.granted = @ \union {Grant(key, PdusInfo(q.id))}]
  BY DEF SessionSetup, DrbsDone, Filled, PdusInfo
<1> HIDE DEF s, r
<1>6. [s EXCEPT !.tbl = tunnel_commit(tunnel_remove(@, key), row)] = [s EXCEPT !.tbl = c]
  BY DEF c
<1>7. [s EXCEPT !.ctx.pdus[w.ctx.pdusCount + 1] = row,
                !.ctx.pdusCount = @ + 1,
                !.granted = @ \union {Grant(key, PdusInfo(q.id))}]
      = Written(s, s.tbl, PdusOn(s.ctx, s.ctx.pdusCount, row),
                s.granted \union {Grant(key, PdusInfo(q.id))})
  BY <1>4 DEF Written, PdusOn, Works, UeCtx, SameSessions
<1>8. QED BY <1>1, <1>3, <1>4, <1>5, <1>6, <1>7 DEF s, r

(* What pdus_setup comes to.                                               *)
PdusTried(w, s, q) ==
  /\ ~w.dead /\ w.ctx.pdusCount # MAX_PDUS_PER_UE
  /\ s = SessionSetup([w EXCEPT !.tbl = TakenFor(w.tbl, q.ip).tbl], q, KeyFor(w.tbl, q.ip),
                      TakenFor(w.tbl, q.ip).row)

LEMMA PdusSetupCases ==
  ASSUME NEW w \in Works, NEW q \in SessionReq
  PROVE  LET b == TakenFor(w.tbl, q.ip)
             s == pdus_setup(w, q)
         IN  \/ /\ w.dead \/ \E i \in 1 .. w.ctx.pdusCount : w.ctx.pdus[i] = NoRow
                /\ s = [w EXCEPT !.dead = TRUE]
             \/ ~w.dead /\ s = w
             \/ /\ ~w.dead /\ q.ip \in LocalIps /\ KeyAvailable(w.tbl, q.ip)
                /\ \/ b.row = NoRow /\ s = [w EXCEPT !.tbl = b.tbl]
                   \/ b.row # NoRow /\ PdusTried(w, s, q)
<1> DEFINE n == Search(AsPdus(w.tbl), Pdus(w.ctx), q.id)
           b == TakenFor(w.tbl, q.ip)
           s == pdus_setup(w, q)
           full == w.ctx.pdusCount = MAX_PDUS_PER_UE
           dies == w.dead \/ (~full /\ Dies(w.ctx.pdus, n))
           refused == full \/ n # 0 \/ q.ip \notin LocalIps \/ ~KeyAvailable(w.tbl, q.ip)
<1>1. s = IF dies THEN [w EXCEPT !.dead = TRUE]
          ELSE IF refused THEN w
          ELSE IF b.row = NoRow THEN [w EXCEPT !.tbl = b.tbl]
          ELSE SessionSetup([w EXCEPT !.tbl = b.tbl], q, KeyFor(w.tbl, q.ip), b.row)
  BY Zenon DEF pdus_setup, TakenFor, KeyFor
<1>2. ASSUME Dies(w.ctx.pdus, n)
      PROVE  \E i \in 1 .. w.ctx.pdusCount : w.ctx.pdus[i] = NoRow
  <2>1. w.ctx \in UeCtx
    BY WorkFields
  <2>2. /\ w.ctx.pdusCount \in Nat /\ DOMAIN Pdus(w.ctx) = 1 .. w.ctx.pdusCount
        /\ \A i \in 1 .. w.ctx.pdusCount : Pdus(w.ctx)[i] = w.ctx.pdus[i]
    BY <2>1, Lists, CtxFields
  <2>3. n = 0 \/ n \in 1 .. w.ctx.pdusCount
    BY <2>2, SearchResult
  <2>4. QED BY <1>2, <2>3 DEF Dies
<1> HIDE DEF n, s, b
<1>3. QED BY <1>1, <1>2, Zenon DEF PdusTried, s, b

(* A session's tunnel under way keeps to the types.                        *)
LEMMA SessionType ==
  ASSUME NEW w \in Works, NEW q \in SessionReq, NEW row \in Rows, NEW key \in TunnelKey,
         w.ctx.pdusCount # MAX_PDUS_PER_UE
  PROVE  /\ SessionSetup(w, q, key, row) \in Works
         /\ SessionSetup(w, q, key, row).dead \/ SessionSetup(w, q, key, row).dead = w.dead
<1> DEFINE s == DrbsDone(w, row, q)
           r == SessionSetup(w, q, key, row)
<1>1. s \in Works /\ SameSessions(w, s)
  BY SessionCases
<1>2. s.tbl \in Table /\ s.ctx \in UeCtx /\ s.granted \in SUBSET Grants /\ NoGaps(s.ctx)
  BY <1>1, WorkFields
<1>3. q.id \in Ids /\ PdusInfo(q.id) \in Info
  BY ContentAssumption DEF SessionReq, PdusInfo
<1>4. \/ r = [s EXCEPT !.dead = TRUE]
      \/ r = [s EXCEPT !.tbl = tunnel_commit(tunnel_remove(s.tbl, key), row)]
      \/ r = Written(s, s.tbl, PdusOn(s.ctx, s.ctx.pdusCount, row),
                     s.granted \union {Grant(key, PdusInfo(q.id))})
  BY SessionCases
<1>5. tunnel_commit(tunnel_remove(s.tbl, key), row) \in Table
  BY <1>2, RemoveKeepsTable, CommitKeepsTable
<1>6. PdusOn(s.ctx, s.ctx.pdusCount, row) \in UeCtx
      /\ NoGaps(PdusOn(s.ctx, s.ctx.pdusCount, row))
  <2>1. s.ctx.pdusCount \in Nat /\ s.ctx.pdusCount < MAX_PDUS_PER_UE
    <3>1. s.ctx.pdusCount \in 0 .. MAX_PDUS_PER_UE /\ MAX_PDUS_PER_UE \in Nat
      BY <1>2, CtxFields
    <3>2. s.ctx.pdusCount # MAX_PDUS_PER_UE
      BY <1>1 DEF SameSessions
    <3>3. QED BY <3>1, <3>2
  <2>2. QED BY <1>2, <2>1, PdusListed
<1>7. s.granted \union {Grant(key, PdusInfo(q.id))} \in SUBSET Grants
  BY <1>2, <1>3 DEF Grant, Grants
<1>8. s.dead = w.dead
  BY <1>1 DEF SameSessions
<1> HIDE DEF s, r
<1>9. CASE r = [s EXCEPT !.tbl = tunnel_commit(tunnel_remove(s.tbl, key), row)]
  <2>1. r \in Works /\ r.dead = s.dead
    BY <1>1, <1>5, <1>9, WriteTbl
  <2>2. QED BY <1>8, <2>1 DEF r
<1>10. CASE r = Written(s, s.tbl, PdusOn(s.ctx, s.ctx.pdusCount, row),
                        s.granted \union {Grant(key, PdusInfo(q.id))})
  <2>1. r \in Works /\ r.dead = s.dead
    BY <1>1, <1>2, <1>6, <1>7, <1>10, WrittenFields
  <2>2. QED BY <1>8, <2>1 DEF r
<1>12. CASE r = [s EXCEPT !.dead = TRUE]
  <2>1. r \in Works /\ r.dead
    BY <1>1, <1>12, WriteDead
  <2>2. QED BY <2>1 DEF r
<1>11. QED BY <1>4, <1>9, <1>10, <1>12

LEMMA PdusSetupType ==
  ASSUME NEW w \in Works, NEW q \in SessionReq
  PROVE  pdus_setup(w, q) \in Works
<1> DEFINE b == TakenFor(w.tbl, q.ip)
           s == pdus_setup(w, q)
<1>1. ASSUME q.ip \in LocalIps, KeyAvailable(w.tbl, q.ip)
      PROVE  /\ KeyFor(w.tbl, q.ip) \in TunnelKey /\ b.tbl \in Table /\ b.row \in RowOrNull
             /\ LET x == [w EXCEPT !.tbl = b.tbl]
                IN  x \in Works /\ x.ctx = w.ctx
  <2>1. w.tbl \in Table
    BY WorkFields
  <2>2. KeyFor(w.tbl, q.ip) \in TunnelKey /\ b.tbl \in Table /\ b.row \in RowOrNull
    BY <1>1, <2>1, TakenResult
  <2> HIDE DEF b
  <2>3. QED BY <2>2, WriteTbl
<1> HIDE DEF b
<1>2. CASE s = w
  BY <1>2
<1>3. CASE s = [w EXCEPT !.dead = TRUE]
  BY <1>3, WriteDead
<1>4. CASE q.ip \in LocalIps /\ KeyAvailable(w.tbl, q.ip) /\ s = [w EXCEPT !.tbl = b.tbl]
  BY <1>1, <1>4
<1>5. CASE q.ip \in LocalIps /\ KeyAvailable(w.tbl, q.ip) /\ b.row # NoRow /\ PdusTried(w, s, q)
  <2> DEFINE x == [w EXCEPT !.tbl = b.tbl]
  <2>1. x \in Works /\ x.ctx = w.ctx /\ b.row \in Rows /\ KeyFor(w.tbl, q.ip) \in TunnelKey
    BY <1>1, <1>5 DEF RowOrNull
  <2>2. s = SessionSetup(x, q, KeyFor(w.tbl, q.ip), b.row) /\ w.ctx.pdusCount # MAX_PDUS_PER_UE
    BY <1>5 DEF PdusTried, b
  <2> HIDE DEF x, s
  <2>3. s \in Works
    BY <2>1, <2>2, SessionType
  <2>4. QED BY <2>3 DEF s
<1>6. QED BY <1>2, <1>3, <1>4, <1>5, PdusSetupCases DEF b

(* The new version of a tunnel.                                            *)
LEMMA ModifyResult ==
  ASSUME NEW t \in Table, NEW r \in Rows
  PROVE  LET b == tunnel_modify(t, t.key[r])
         IN  /\ b.tbl \in Table /\ b.row \in RowOrNull
             /\ b.row # NoRow => Fill(b.tbl, b.row, b.tbl.info[r]) \in Table
<1> DEFINE b == tunnel_modify(t, t.key[r])
<1>1. t.key[r] \in TunnelKey
  BY TableFields
<1>2. \/ b.row = NoRow /\ b.tbl = t
      \/ b.row \in Rows /\ b.tbl = TakeRow(t, b.row, t.key[r])
  BY <1>1, AllocResult DEF tunnel_modify
<1>3. \A x \in Rows : TakeRow(t, x, t.key[r]) \in Table
  BY <1>1, TakeRowFields
<1> HIDE DEF b
<1>5. b.tbl \in Table /\ b.row \in RowOrNull
  BY <1>2, <1>3 DEF RowOrNull
<1>4. ASSUME b.row # NoRow
      PROVE  Fill(b.tbl, b.row, b.tbl.info[r]) \in Table
  <2>1. b.row \in Rows /\ b.tbl.info[r] \in Info
    BY <1>5, <1>4, TableFields DEF RowOrNull
  <2>2. QED BY <1>5, <2>1, FillFields
<1>6. QED BY <1>4, <1>5 DEF b

(* An entry of a list is a row unless it is NULL.                          *)
LEMMA Entry ==
  ASSUME NEW c \in UeCtx
  PROVE  /\ \A j \in 1 .. MAX_DRB_PER_UE : c.drb[j] # NoRow => c.drb[j] \in Rows
         /\ \A j \in 1 .. MAX_PDUS_PER_UE : c.pdus[j] # NoRow => c.pdus[j] \in Rows
BY CtxFields DEF RowOrNull

(* Another version of a tunnel in its place.                               *)
LEMMA PlacedFields ==
  ASSUME NEW c \in UeCtx, NEW r \in Rows
  PROVE  /\ \A j \in 1 .. MAX_DRB_PER_UE :
              LET d == [c EXCEPT !.drb[j] = r]
              IN  d \in UeCtx /\ (NoGaps(c) => NoGaps(d))
         /\ \A j \in 1 .. MAX_PDUS_PER_UE :
              LET d == [c EXCEPT !.pdus[j] = r]
              IN  d \in UeCtx /\ (NoGaps(c) => NoGaps(d))
<1>1. r \in RowOrNull /\ r # NoRow
  BY NoRowAssumption DEF RowOrNull, Rows
<1>2. ASSUME NEW j \in 1 .. MAX_DRB_PER_UE
      PROVE  LET d == [c EXCEPT !.drb[j] = r]
             IN  d \in UeCtx /\ (NoGaps(c) => NoGaps(d))
  <2> DEFINE drb == [c.drb EXCEPT ![j] = r]
             d == [c EXCEPT !.drb = drb]
  <2>1. drb \in [1 .. MAX_DRB_PER_UE -> RowOrNull]
    BY <1>1, CtxFields
  <2>2. \A i \in 1 .. MAX_DRB_PER_UE : c.drb[i] # NoRow => drb[i] # NoRow
    BY <1>1, CtxFields
  <2> HIDE DEF drb
  <2>3. d \in UeCtx /\ d.drb = drb /\ d.drbCount = c.drbCount
    BY <2>1 DEF UeCtx
  <2> HIDE DEF d
  <2>4. NoGaps(c) => NoGaps(d)
    BY <2>2, <2>3, CtxFields DEF NoGaps
  <2>5. QED BY <2>3, <2>4 DEF d, drb
<1>3. ASSUME NEW j \in 1 .. MAX_PDUS_PER_UE
      PROVE  LET d == [c EXCEPT !.pdus[j] = r]
             IN  d \in UeCtx /\ (NoGaps(c) => NoGaps(d))
  BY <1>1, CtxFields DEF UeCtx, NoGaps
<1>4. QED BY <1>2, <1>3

LEMMA DrbModificationType ==
  ASSUME NEW w \in Works, NEW id \in DrbIds
  PROVE  DrbModification(w, id) \in Works
<1> DEFINE j == Search(AsDrbs(w.tbl), Drbs(w.ctx), id)
           old == w.ctx.drb[j]
           b == tunnel_modify(w.tbl, w.tbl.key[old])
           t == SetUsed(Fill(b.tbl, b.row, b.tbl.info[old]), b.row, b.tbl.used[old])
           c == [w.ctx EXCEPT !.drb[j] = b.row]
<1>1. w.tbl \in Table /\ w.ctx \in UeCtx /\ NoGaps(w.ctx)
  BY WorkFields
<1>2. j = 0 \/ j \in 1 .. w.ctx.drbCount
  <2>1. w.ctx.drbCount \in Nat /\ DOMAIN Drbs(w.ctx) = 1 .. w.ctx.drbCount
    BY <1>1, Lists, CtxFields
  <2>2. QED BY <2>1, SearchResult
<1>3. CASE j = 0 \/ b.row = NoRow
  BY <1>3 DEF DrbModification, drb_modify
<1>4. CASE j # 0 /\ b.row # NoRow
  <2>1. j \in 1 .. MAX_DRB_PER_UE /\ old # NoRow
    BY <1>1, <1>2, <1>4, CtxFields DEF NoGaps
  <2>2. old \in Rows
    BY <1>1, <2>1, Entry
  <2>3. b.tbl \in Table /\ b.row \in Rows /\ Fill(b.tbl, b.row, b.tbl.info[old]) \in Table
    BY <1>1, <1>4, <2>2, ModifyResult DEF RowOrNull
  <2> HIDE DEF b
  <2>4. b.tbl.used[old] \in BOOLEAN
    BY <2>2, <2>3, TableFields
  <2>5. t \in Table
    BY <2>3, <2>4, SetUsedFields
  <2>6. c \in UeCtx /\ NoGaps(c)
    BY <1>1, <2>1, <2>3, PlacedFields
  <2>7. DrbModification(w, id) = [w EXCEPT !.tbl = t, !.ctx.drb[j] = b.row]
    BY <1>4, Zenon DEF DrbModification, drb_modify, b
  <2> HIDE DEF j, old, t
  <2>8. [w EXCEPT !.tbl = t, !.ctx.drb[j] = b.row] = [w EXCEPT !.tbl = t, !.ctx = c]
    BY DEF Works
  <2> HIDE DEF c
  <2>9. [w EXCEPT !.tbl = t, !.ctx = c] \in Works
    BY <2>5, <2>6, WriteCtx
  <2>10. QED BY <2>7, <2>8, <2>9, Zenon
<1>5. QED BY <1>3, <1>4

LEMMA DrbRemovalType ==
  ASSUME NEW w \in Works, NEW ids \in Seq(DrbIds), Len(ids) <= MAX_DRB_PER_UE,
         NEW i \in 1 .. Len(ids)
  PROVE  DrbRemoval(w, ids, i) \in Works
<1> DEFINE r == w.ctx.drb[i]
           t == tunnel_remove(w.tbl, w.tbl.key[r])
<1>1. w.tbl \in Table /\ w.ctx \in UeCtx
  BY WorkFields
<1>2. i \in 1 .. MAX_DRB_PER_UE
  BY UeCountAssumption
<1>3. r \in RowOrNull
  BY <1>1, <1>2, CtxFields
<1>4. r # NoRow => t \in Table
  BY <1>1, <1>3, RemoveKeepsTable, TableFields DEF RowOrNull
<1>5. \/ DrbRemoval(w, ids, i) = w
      \/ DrbRemoval(w, ids, i) = [w EXCEPT !.dead = TRUE]
      \/ r # NoRow /\ DrbRemoval(w, ids, i) = [w EXCEPT !.tbl = t]
  BY DEF DrbRemoval
<1> HIDE DEF t
<1>6. QED BY <1>4, <1>5, WriteDead, WriteTbl

LEMMA PdusRemovalType ==
  ASSUME NEW w \in Works, NEW id \in Ids
  PROVE  PdusRemoval(w, id) \in Works
<1> DEFINE j == Search(AsPdus(w.tbl), Pdus(w.ctx), id)
           r == w.ctx.pdus[j]
           t == tunnel_remove(w.tbl, w.tbl.key[r])
<1>1. w.tbl \in Table /\ w.ctx \in UeCtx
  BY WorkFields
<1>2. j = 0 \/ j \in 1 .. w.ctx.pdusCount
  <2>1. w.ctx.pdusCount \in Nat /\ DOMAIN Pdus(w.ctx) = 1 .. w.ctx.pdusCount
    BY <1>1, Lists, CtxFields
  <2>2. QED BY <2>1, SearchResult
<1>3. ASSUME j # 0, r # NoRow
      PROVE  t \in Table
  <2>1. j \in 1 .. MAX_PDUS_PER_UE
    BY <1>1, <1>2, <1>3, CtxFields
  <2>2. r \in Rows
    BY <1>1, <1>3, <2>1, Entry
  <2>3. QED BY <1>1, <2>2, RemoveKeepsTable, TableFields
<1>4. \/ PdusRemoval(w, id) = w
      \/ PdusRemoval(w, id) = [w EXCEPT !.dead = TRUE]
      \/ j # 0 /\ r # NoRow /\ PdusRemoval(w, id) = [w EXCEPT !.tbl = t]
  BY DEF PdusRemoval, Dies
<1> HIDE DEF j, r, t
<1>5. QED BY <1>3, <1>4, WriteDead, WriteTbl

(* A session that is modified: its own new version, and the three lists of *)
(* DRB changes on the way.                                                 *)
Cloned(w, i) ==
  LET b == tunnel_modify(w.tbl, w.tbl.key[w.ctx.pdus[i]])
  IN  [w EXCEPT !.tbl = Fill(b.tbl, b.row, b.tbl.info[w.ctx.pdus[i]])]
DrbsChanged(w, q) == FoldLeft(drb_setup, DrbModifications(w, q.modify), q.setup)

LEMMA ChangeFields ==
  ASSUME NEW q \in SessionChange
  PROVE  q.id \in Ids /\ q.remove \in Seq(DrbIds) /\ q.modify \in Seq(DrbIds) /\ q.setup \in Seq(DrbIds)
BY DEF SessionChange

LEMMA DrbsChangedType ==
  ASSUME NEW w \in Works, NEW q \in SessionChange
  PROVE  DrbsChanged(w, q) \in Works
<1>1. \A i \in 1 .. Len(q.modify), a \in Works : DrbModification(a, q.modify[i]) \in Works
  <2>1. \A i \in 1 .. Len(q.modify) : q.modify[i] \in DrbIds
    BY ChangeFields
  <2>2. QED BY <2>1, DrbModificationType
<1>2. DrbModifications(w, q.modify) \in Works
  BY <1>1, DrbModificationFold, ChangeFields
<1>3. QED BY <1>2, DrbsSetupType, ChangeFields DEF DrbsChanged

LEMMA PdusModifyType ==
  ASSUME NEW w \in Works, NEW q \in SessionChange, Len(q.remove) <= MAX_DRB_PER_UE,
         NEW i \in 1 .. MAX_PDUS_PER_UE, w.ctx.pdus[i] # NoRow
  PROVE  pdus_modify(w, q, i) \in Works
<1> DEFINE old == w.ctx.pdus[i]
           b == tunnel_modify(w.tbl, w.tbl.key[old])
           s1 == DrbRemovals(Cloned(w, i), q.remove)
           s2 == DrbsChanged(s1, q)
           c == [s2.ctx EXCEPT !.pdus[i] = b.row]
<1>1. w.tbl \in Table /\ w.ctx \in UeCtx
  BY WorkFields
<1>2. old \in Rows
  BY <1>1, Entry
<1>3. pdus_modify(w, q, i) = IF b.row = NoRow THEN w
                             ELSE IF s1.dead THEN s1
                             ELSE [s2 EXCEPT !.ctx.pdus[i] = b.row]
  BY Zenon DEF pdus_modify, Cloned, DrbsChanged
<1>4. CASE b.row = NoRow
  BY <1>3, <1>4
<1>5. CASE b.row # NoRow
  <2>1. b.row \in Rows /\ Fill(b.tbl, b.row, b.tbl.info[old]) \in Table
    BY <1>1, <1>2, <1>5, ModifyResult DEF RowOrNull
  <2>2. Cloned(w, i) \in Works
    BY <2>1, WriteTbl DEF Cloned
  <2>3. s1 \in Works
    <3>1. \A j \in 1 .. Len(q.remove), a \in Works :
             DrbRemoval(a, q.remove, Positions(Len(q.remove))[j]) \in Works
      BY DrbRemovalType, ChangeFields DEF Positions
    <3>2. QED BY <2>2, <3>1, DrbRemovalFold, ChangeFields
  <2> HIDE DEF b, s1
  <2>4. s2 \in Works
    BY <2>3, DrbsChangedType
  <2> HIDE DEF s2
  <2>5. c \in UeCtx /\ NoGaps(c)
    BY <2>1, <2>4, WorkFields, PlacedFields
  <2>6. [s2 EXCEPT !.ctx.pdus[i] = b.row] = [s2 EXCEPT !.tbl = s2.tbl, !.ctx = c]
    BY <2>4 DEF Works
  <2> HIDE DEF c
  <2>7. [s2 EXCEPT !.tbl = s2.tbl, !.ctx = c] \in Works
    BY <2>4, <2>5, WriteCtx, WorkFields
  <2>8. QED BY <1>3, <1>5, <2>3, <2>6, <2>7, Zenon
<1>6. QED BY <1>4, <1>5

LEMMA PdusModificationType ==
  ASSUME NEW w \in Works, NEW q \in SessionChange, Len(q.remove) <= MAX_DRB_PER_UE
  PROVE  PdusModification(w, q) \in Works
<1> DEFINE j == Search(AsPdus(w.tbl), Pdus(w.ctx), q.id)
<1>1. w.ctx \in UeCtx
  BY WorkFields
<1>2. j = 0 \/ j \in 1 .. MAX_PDUS_PER_UE
  <2>1. /\ w.ctx.pdusCount \in Nat /\ DOMAIN Pdus(w.ctx) = 1 .. w.ctx.pdusCount
        /\ w.ctx.pdusCount \in 0 .. MAX_PDUS_PER_UE
    BY <1>1, Lists, CtxFields
  <2>2. j = 0 \/ j \in 1 .. w.ctx.pdusCount
    BY <2>1, SearchResult
  <2> HIDE DEF j
  <2>3. QED BY <2>1, <2>2, UeCountAssumption
<1>3. \/ PdusModification(w, q) = w
      \/ PdusModification(w, q) = [w EXCEPT !.dead = TRUE]
      \/ j # 0 /\ w.ctx.pdus[j] # NoRow /\ PdusModification(w, q) = pdus_modify(w, q, j)
  BY Zenon DEF PdusModification, Dies
<1> HIDE DEF j
<1>4. QED BY <1>2, <1>3, WriteDead, PdusModifyType

(* Committing a list whose entries are rows.                               *)
LEMMA CommitListType ==
  ASSUME NEW t \in Table, NEW m \in Nat, NEW list \in [1 .. m -> RowOrNull],
         NEW n \in 0 .. m, \A i \in 1 .. n : list[i] # NoRow
  PROVE  LET d == CommitList(t, list, n)
         IN  d.tbl \in Table /\ d.list \in [1 .. m -> RowOrNull]
<1> DEFINE States == [tbl : Table, list : [1 .. m -> RowOrNull]]
           T == [i \in 0 .. n |-> {s \in States : \A j \in i + 1 .. n : s.list[j] = list[j]}]
           s0 == [tbl |-> t, list |-> list]
<1>0. n \in Nat
  OBVIOUS
<1>1. s0 \in T[0]
  OBVIOUS
<1>2. \A i \in 1 .. n : T[i - 1] \subseteq T[i]
  <2> SUFFICES ASSUME NEW i \in 1 .. n, NEW s \in T[i - 1] PROVE s \in T[i]
    OBVIOUS
  <2>1. i - 1 \in 0 .. n /\ i \in 0 .. n /\ \A j \in i + 1 .. n : j \in (i - 1) + 1 .. n
    OBVIOUS
  <2>2. QED BY <2>1
<1>3. ASSUME NEW i \in 1 .. n, NEW s \in T[i - 1]
      PROVE  CommitOne(s, i) \in T[i]
  <2>1. /\ i - 1 \in 0 .. n /\ i \in 0 .. n /\ i \in (i - 1) + 1 .. n /\ i \in 1 .. m
        /\ \A j \in i + 1 .. n : j \in (i - 1) + 1 .. n /\ j # i /\ j \in 1 .. m
    OBVIOUS
  <2>2. s \in States /\ \A j \in (i - 1) + 1 .. n : s.list[j] = list[j]
    BY <2>1
  <2>3. s.tbl \in Table /\ s.list \in [1 .. m -> RowOrNull] /\ s.list[i] \in Rows
    BY <2>1, <2>2 DEF RowOrNull
  <2>4. tunnel_commit(s.tbl, s.list[i]) \in Table
    BY <2>3, CommitKeepsTable
  <2> DEFINE l == IF tunnel_commit(s.tbl, s.list[i]).used[s.list[i]] THEN s.list
                  ELSE [s.list EXCEPT ![i] = NoRow]
  <2>5. l \in [1 .. m -> RowOrNull] /\ \A j \in i + 1 .. n : l[j] = list[j]
    BY <2>1, <2>2, <2>3 DEF RowOrNull
  <2>6. CommitOne(s, i) = [tbl |-> tunnel_commit(s.tbl, s.list[i]), list |-> l]
    BY DEF CommitOne
  <2> HIDE DEF l
  <2>7. QED BY <2>1, <2>4, <2>5, <2>6
<1>4. T[n] \subseteq States
  BY <1>0
<1> HIDE DEF T, s0
<1>5. PICK f : CommitLine(f, T, s0, n)
  <2>1. \A i \in 1 .. n : \A s \in T[i - 1] : CommitOne(s, i) \in T[i]
    BY <1>3
  <2>2. QED BY <1>0, <1>1, <1>2, <2>1, CommitFold, Zenon
<1>6. CommitList(t, list, n) \in States
  <2>1. f[n] \in T[n]
    BY <1>0, <1>5 DEF CommitLine
  <2>2. QED BY <1>4, <1>5, <2>1 DEF CommitList, CommitLine, s0
<1>7. QED BY <1>6

LEMMA PresentType ==
  ASSUME NEW m \in Nat, NEW list \in [1 .. m -> RowOrNull], NEW n \in 0 .. m
  PROVE  Present(list, n) \in Seq(Rows) /\ Len(Present(list, n)) <= n
<1> DEFINE T == [i \in 0 .. n |-> {s \in Seq(Rows) : Len(s) <= i}]
           part == SubSeq(list, 1, n)
<1>1. part \in Seq(RowOrNull) /\ Len(part) = n
  <2>1. list \in Seq(RowOrNull) /\ Len(list) = m
    OBVIOUS
  <2>2. \A i \in 1 .. n : list[i] \in RowOrNull
    OBVIOUS
  <2>3. QED BY <2>1, <2>2
<1>2. <<>> \in T[0]
  OBVIOUS
<1>3. \A i \in 1 .. n : T[i - 1] \subseteq T[i]
  OBVIOUS
<1>4. ASSUME NEW i \in 1 .. n, NEW s \in T[i - 1], NEW r \in RowOrNull
      PROVE  PackOne(s, r) \in T[i]
  <2>1. s \in Seq(Rows) /\ Len(s) <= i - 1 /\ i \in 0 .. n
    OBVIOUS
  <2>2. r # NoRow => r \in Rows
    BY DEF RowOrNull
  <2>3. PackOne(s, r) \in Seq(Rows) /\ Len(PackOne(s, r)) <= i
    BY <2>1, <2>2 DEF PackOne
  <2>4. QED BY <2>1, <2>3
<1>5. T[n] = {s \in Seq(Rows) : Len(s) <= n}
  OBVIOUS
<1> HIDE DEF T, part
<1>6. \A i \in 1 .. Len(part) : part[i] \in RowOrNull
  BY <1>1
<1>7. PICK f : PackLine(f, T, <<>>, part)
  <2>1. \A i \in 1 .. Len(part) : \A a \in T[i - 1] : PackOne(a, part[i]) \in T[i]
    BY <1>1, <1>4, <1>6
  <2>2. QED BY <1>1, <1>2, <1>3, <2>1, PackFold
<1>8. QED BY <1>1, <1>5, <1>7 DEF PackLine, Present, part

LEMMA OverwrittenType ==
  ASSUME NEW m \in Nat, NEW array \in [1 .. m -> RowOrNull], NEW list \in Seq(RowOrNull),
         Len(list) <= m
  PROVE  /\ Overwritten(array, list) \in [1 .. m -> RowOrNull]
         /\ \A i \in 1 .. Len(list) : Overwritten(array, list)[i] = list[i]
         /\ \A i \in Len(list) + 1 .. m : Overwritten(array, list)[i] = array[i]
<1> DEFINE k == Len(list)
           rest == SubSeq(array, k + 1, m)
<1>1. array \in Seq(RowOrNull) /\ Len(array) = m /\ k \in 0 .. m
  OBVIOUS
<1>2. rest \in Seq(RowOrNull) /\ Len(rest) = m - k
      /\ \A i \in 1 .. m - k : rest[i] = array[k + i]
  BY <1>1
<1>3. Overwritten(array, list) = list \o rest
  BY <1>1 DEF Overwritten
<1> HIDE DEF rest
<1>4. list \o rest \in Seq(RowOrNull) /\ Len(list \o rest) = m
  BY <1>1, <1>2
<1>5. \A i \in 1 .. k : (list \o rest)[i] = list[i]
  BY <1>1, <1>2
<1>6. \A i \in k + 1 .. m : (list \o rest)[i] = rest[i - k]
  BY <1>1, <1>2
<1>7. \A i \in k + 1 .. m : i - k \in 1 .. m - k /\ k + (i - k) = i
  BY <1>1
<1>8. \A i \in k + 1 .. m : (list \o rest)[i] = array[i]
  BY <1>2, <1>6, <1>7
<1>9. list \o rest \in [1 .. m -> RowOrNull]
  <2>1. \A s \in Seq(RowOrNull) : Len(s) = m => s \in [1 .. m -> RowOrNull]
    OBVIOUS
  <2>2. QED BY <1>4, <2>1
<1>10. QED BY <1>3, <1>5, <1>8, <1>9

-----------------------------------------------------------------------------
(***************************************************************************)
(* The UE table: the writes the code makes to it, then its operations.     *)
(***************************************************************************)
LEMMA UeFields ==
  ASSUME NEW u \in UeTable
  PROVE  /\ u.ctx \in [UeRows -> UeCtx] /\ u.hash \in [UeIds -> UeRows \union {NoRow}]
         /\ u.lastSlot \in UeRows /\ u.lastId \in UeRows /\ u.zero \in 0 .. LastFree
BY DEF UeTable

SetCtx(u, r, c) == [u EXCEPT !.ctx[r] = c]
UsedAs(c, b) == [c EXCEPT !.used = b]

LEMMA SetCtxFields ==
  ASSUME NEW u \in UeTable, NEW r \in UeRows, NEW c \in UeCtx
  PROVE  LET v == SetCtx(u, r, c)
         IN  /\ v \in UeTable /\ v.hash = u.hash
             /\ v.ctx = [u.ctx EXCEPT ![r] = c]
BY DEF SetCtx, UeTable

LEMMA UsedAsFields ==
  ASSUME NEW c \in UeCtx, NEW b \in BOOLEAN
  PROVE  LET d == UsedAs(c, b)
         IN  /\ d \in UeCtx /\ d.used = b /\ d.cuup = c.cuup /\ d.cucp = c.cucp
             /\ d.pdus = c.pdus /\ d.drb = c.drb
             /\ d.pdusCount = c.pdusCount /\ d.drbCount = c.drbCount
BY DEF UsedAs, UeCtx

LEMMA MarkUsed ==
  ASSUME NEW u \in UeTable, NEW r \in UeRows, NEW b \in BOOLEAN
  PROVE  /\ [u EXCEPT !.ctx[r].used = b] = SetCtx(u, r, UsedAs(u.ctx[r], b))
         /\ SetCtx(u, r, UsedAs(u.ctx[r], b)) \in UeTable
<1>1. u.ctx[r] \in UeCtx
  BY UeFields
<1>2. UsedAs(u.ctx[r], b) \in UeCtx
  BY <1>1, UsedAsFields
<1>3. [u EXCEPT !.ctx[r].used = b] = SetCtx(u, r, UsedAs(u.ctx[r], b))
  BY <1>1 DEF SetCtx, UsedAs, UeTable
<1>4. QED BY <1>2, <1>3, SetCtxFields

LEMMA UeHashAddFields ==
  ASSUME NEW u \in UeTable, NEW id \in UeIds, NEW r \in UeRows
  PROVE  LET v == UeHashAdd(u, id, r)
         IN  v \in UeTable /\ v.ctx = u.ctx /\ v.hash = [u.hash EXCEPT ![id] = r]
<1>1. id \in 0 .. LastFree
  BY UeCountAssumption DEF UeIds, UeRows, LastFree
<1>2. PICK z \in 0 .. LastFree : UeHashAdd(u, id, r) = [u EXCEPT !.hash[id] = r, !.zero = z]
  <2> DEFINE others == {i \in UeIds \ {id} : u.hash[i] = NoRow}
             getsZero == u.hash[id] = NoRow
                         /\ (u.zero = NextFree \/ (u.zero = LastFree /\ others = {}))
  <2>1. UeHashAdd(u, id, r) = [u EXCEPT !.hash[id] = r, !.zero = IF getsZero THEN id ELSE u.zero]
    BY DEF UeHashAdd
  <2> HIDE DEF getsZero
  <2>2. QED BY <1>1, <2>1, UeFields
<1>3. QED BY <1>2 DEF UeTable

LEMMA UeHashDelFields ==
  ASSUME NEW u \in UeTable, NEW id \in UeIds
  PROVE  LET v == UeHashDel(u, id)
         IN  v \in UeTable /\ v.ctx = u.ctx /\ v.hash = [u.hash EXCEPT ![id] = NoRow]
<1>1. LastFree \in 0 .. LastFree
  BY UeCountAssumption DEF LastFree
<1>2. PICK z \in 0 .. LastFree : UeHashDel(u, id) = [u EXCEPT !.hash[id] = NoRow, !.zero = z]
  <2>1. UeHashDel(u, id) = [u EXCEPT !.hash[id] = NoRow,
                                     !.zero = IF u.zero = id THEN LastFree ELSE u.zero]
    BY DEF UeHashDel
  <2>2. QED BY <1>1, <2>1, UeFields
<1>3. QED BY <1>2 DEF UeTable

(* An id for a new context, and a row for a new version of one.            *)
LEMMA UeIdFound ==
  ASSUME NEW u \in UeTable, UeIdAvailable(u)
  PROVE  LET a == ue_ctx_id_alloc(u)
         IN  /\ a.id \in UeIds /\ u.hash[a.id] = NoRow
             /\ a.ues \in UeTable /\ a.ues.ctx = u.ctx /\ a.ues.hash = u.hash
<1> DEFINE id == NextInScan(MAX_UE_COUNT, u.lastId, FreeUeIds(u))
<1>1. u.lastId \in UeRows /\ FreeUeIds(u) \in SUBSET UeRows
  BY UeFields DEF FreeUeIds, UeIds
<1>2. id \in FreeUeIds(u)
  BY <1>1, NextInScanFound, UeCountAssumption DEF UeIdAvailable, UeRows
<1>3. ue_ctx_id_alloc(u) = [ues |-> [u EXCEPT !.lastId = id], id |-> id]
  BY DEF ue_ctx_id_alloc
<1> HIDE DEF id
<1>4. id \in UeIds /\ id \in UeRows /\ u.hash[id] = NoRow
  BY <1>2 DEF FreeUeIds, UeIds
<1>5. QED BY <1>3, <1>4 DEF UeTable

Taken(c, id) == [c EXCEPT !.cuup = id, !.used = TRUE]

LEMMA UeRowFound ==
  ASSUME NEW u \in UeTable, NEW id \in UeIds, UeRowAvailable(u)
  PROVE  LET a == ue_ctx_alloc(u, id)
         IN  /\ a = [ues |-> a.ues, row |-> a.row]
             /\ a.row \in UeRows /\ ~u.ctx[a.row].used
             /\ a.ues \in UeTable /\ a.ues.hash = u.hash
             /\ a.ues.ctx = [u.ctx EXCEPT ![a.row] = Taken(@, id)]
             /\ Taken(u.ctx[a.row], id) \in UeCtx
<1> DEFINE r == NextInScan(MAX_UE_COUNT, u.lastSlot, FreeUeRows(u))
           v == [u EXCEPT !.ctx[r].cuup = id, !.ctx[r].used = TRUE, !.lastSlot = r]
<1>1. u.lastSlot \in UeRows /\ FreeUeRows(u) \in SUBSET UeRows
  BY UeFields DEF FreeUeRows
<1>2. r \in FreeUeRows(u)
  BY <1>1, NextInScanFound, UeCountAssumption DEF UeRowAvailable, UeRows
<1>3. ue_ctx_alloc(u, id) = [ues |-> v, row |-> r]
  BY DEF ue_ctx_alloc
<1> HIDE DEF r
<1>4. r \in UeRows /\ ~u.ctx[r].used /\ u.ctx[r] \in UeCtx
  BY <1>2, UeFields DEF FreeUeRows
<1>5. Taken(u.ctx[r], id) \in UeCtx
  BY <1>4 DEF Taken, UeCtx
<1>6. v = [u EXCEPT !.ctx = [u.ctx EXCEPT ![r] = Taken(u.ctx[r], id)], !.lastSlot = r]
  BY <1>4 DEF Taken, UeTable
<1>7. [u.ctx EXCEPT ![r] = Taken(u.ctx[r], id)] \in [UeRows -> UeCtx]
  BY <1>4, <1>5, UeFields
<1>8. /\ v \in UeTable /\ v.hash = u.hash
      /\ v.ctx = [u.ctx EXCEPT ![r] = Taken(u.ctx[r], id)]
  BY <1>4, <1>6, <1>7 DEF UeTable
<1> HIDE DEF v
<1>9. QED BY <1>3, <1>4, <1>5, <1>8

LEMMA TakenFields ==
  ASSUME NEW c \in UeCtx, NEW id \in UeIds
  PROVE  LET d == Taken(c, id)
         IN  /\ d \in UeCtx /\ d.used /\ d.cuup = id /\ d.cucp = c.cucp
             /\ d.pdus = c.pdus /\ d.drb = c.drb
             /\ d.pdusCount = c.pdusCount /\ d.drbCount = c.drbCount
BY DEF Taken, UeCtx

(* The new version of a context: the lists of the old one up to its        *)
(* counts, or nothing if it is the row of the old version that is taken.   *)
Emptied(c) == [c EXCEPT !.pdusCount = 0, !.drbCount = 0]
Copied(c, old) ==
  [c EXCEPT !.pdusCount = old.pdusCount, !.drbCount = old.drbCount,
            !.pdus = Overwritten(@, Pdus(old)), !.drb = Overwritten(@, Drbs(old))]

LEMMA EmptiedFields ==
  ASSUME NEW c \in UeCtx
  PROVE  LET d == Emptied(c)
         IN  /\ d \in UeCtx /\ d.used = c.used /\ d.cuup = c.cuup /\ d.cucp = c.cucp
             /\ d.pdusCount = 0 /\ d.drbCount = 0 /\ NoGaps(d)
<1>1. 0 \in 0 .. MAX_PDUS_PER_UE /\ 0 \in 0 .. MAX_DRB_PER_UE
  BY UeCountAssumption
<1>2. LET d == Emptied(c)
      IN  /\ d \in UeCtx /\ d.used = c.used /\ d.cuup = c.cuup /\ d.cucp = c.cucp
          /\ d.pdusCount = 0 /\ d.drbCount = 0
  BY <1>1 DEF Emptied, UeCtx
<1>3. QED BY <1>2 DEF NoGaps

LEMMA CopiedFields ==
  ASSUME NEW c \in UeCtx, NEW old \in UeCtx
  PROVE  LET d == Copied(c, old)
         IN  /\ d \in UeCtx /\ d.used = c.used /\ d.cuup = c.cuup /\ d.cucp = c.cucp
             /\ d.pdusCount = old.pdusCount /\ d.drbCount = old.drbCount
             /\ \A i \in 1 .. old.pdusCount : d.pdus[i] = old.pdus[i]
             /\ \A i \in 1 .. old.drbCount : d.drb[i] = old.drb[i]
             /\ NoGaps(old) => NoGaps(d)
<1> DEFINE d == Copied(c, old)
           pdus == Overwritten(c.pdus, Pdus(old))
           drb == Overwritten(c.drb, Drbs(old))
<1>1. /\ pdus \in [1 .. MAX_PDUS_PER_UE -> RowOrNull]
      /\ \A i \in 1 .. old.pdusCount : pdus[i] = old.pdus[i]
  <2>1. /\ Pdus(old) \in Seq(RowOrNull) /\ Len(Pdus(old)) = old.pdusCount
        /\ \A i \in 1 .. old.pdusCount : Pdus(old)[i] = old.pdus[i]
    BY Lists
  <2>2. Len(Pdus(old)) <= MAX_PDUS_PER_UE
    BY <2>1, CtxFields
  <2>3. c.pdus \in [1 .. MAX_PDUS_PER_UE -> RowOrNull] /\ MAX_PDUS_PER_UE \in Nat
    BY CtxFields
  <2>4. /\ pdus \in [1 .. MAX_PDUS_PER_UE -> RowOrNull]
        /\ \A i \in 1 .. Len(Pdus(old)) : pdus[i] = Pdus(old)[i]
    BY <2>1, <2>2, <2>3, OverwrittenType
  <2>5. QED BY <2>1, <2>4
<1>2. /\ drb \in [1 .. MAX_DRB_PER_UE -> RowOrNull]
      /\ \A i \in 1 .. old.drbCount : drb[i] = old.drb[i]
  <2>1. /\ Drbs(old) \in Seq(RowOrNull) /\ Len(Drbs(old)) = old.drbCount
        /\ \A i \in 1 .. old.drbCount : Drbs(old)[i] = old.drb[i]
    BY Lists
  <2>2. Len(Drbs(old)) <= MAX_DRB_PER_UE
    BY <2>1, CtxFields
  <2>3. c.drb \in [1 .. MAX_DRB_PER_UE -> RowOrNull] /\ MAX_DRB_PER_UE \in Nat
    BY CtxFields
  <2>4. /\ drb \in [1 .. MAX_DRB_PER_UE -> RowOrNull]
        /\ \A i \in 1 .. Len(Drbs(old)) : drb[i] = Drbs(old)[i]
    BY <2>1, <2>2, <2>3, OverwrittenType
  <2>5. QED BY <2>1, <2>4
<1>3. d = [c EXCEPT !.pdusCount = old.pdusCount, !.drbCount = old.drbCount,
                    !.pdus = pdus, !.drb = drb]
  BY DEF Copied, UeCtx
<1> HIDE DEF d, pdus, drb
<1>4. /\ old.pdusCount \in 0 .. MAX_PDUS_PER_UE /\ old.drbCount \in 0 .. MAX_DRB_PER_UE
  BY CtxFields
<1>5. /\ d \in UeCtx /\ d.used = c.used /\ d.cuup = c.cuup /\ d.cucp = c.cucp
      /\ d.pdusCount = old.pdusCount /\ d.drbCount = old.drbCount
      /\ d.pdus = pdus /\ d.drb = drb
  BY <1>1, <1>2, <1>3, <1>4 DEF UeCtx
<1>6. NoGaps(old) => NoGaps(d)
  BY <1>2, <1>5 DEF NoGaps
<1>7. /\ \A i \in 1 .. old.pdusCount : d.pdus[i] = old.pdus[i]
      /\ \A i \in 1 .. old.drbCount : d.drb[i] = old.drb[i]
  BY <1>1, <1>2, <1>5
<1>8. QED BY <1>5, <1>6, <1>7 DEF d

(* What ue_ctx_modify makes of the UE table.                               *)
NewVersion(u, id, r) ==
  IF r = u.hash[id] THEN Emptied(Taken(u.ctx[r], id))
  ELSE Copied(Taken(u.ctx[r], id), u.ctx[u.hash[id]])

LEMMA UeModifyResult ==
  ASSUME NEW u \in UeTable, NEW id \in UeIds, u.hash[id] # NoRow, UeRowAvailable(u)
  PROVE  LET m == ue_ctx_modify(u, id)
             c == NewVersion(u, id, m.row)
         IN  /\ m.row \in UeRows /\ ~u.ctx[m.row].used
             /\ m.ues \in UeTable /\ m.ues.hash = u.hash
             /\ c \in UeCtx /\ m.ues.ctx = [u.ctx EXCEPT ![m.row] = c]
<1> DEFINE a == ue_ctx_alloc(u, id)
           m == ue_ctx_modify(u, id)
           t == Taken(u.ctx[a.row], id)
           old == a.ues.ctx[a.row]
<1>1. /\ a = [ues |-> a.ues, row |-> a.row]
      /\ a.row \in UeRows /\ ~u.ctx[a.row].used
      /\ a.ues \in UeTable /\ a.ues.hash = u.hash
      /\ a.ues.ctx = [u.ctx EXCEPT ![a.row] = t]
      /\ t \in UeCtx
  BY UeRowFound
<1>2. u.hash[id] \in UeRows /\ u.ctx[u.hash[id]] \in UeCtx
  BY UeFields
<1>3. m = IF a.row = u.hash[id]
          THEN [a EXCEPT !.ues.ctx[a.row].pdusCount = 0, !.ues.ctx[a.row].drbCount = 0]
          ELSE [a EXCEPT !.ues.ctx[a.row].pdusCount = u.ctx[u.hash[id]].pdusCount,
                         !.ues.ctx[a.row].drbCount = u.ctx[u.hash[id]].drbCount,
                         !.ues.ctx[a.row].pdus = Overwritten(@, Pdus(u.ctx[u.hash[id]])),
                         !.ues.ctx[a.row].drb = Overwritten(@, Drbs(u.ctx[u.hash[id]]))]
  BY Zenon DEF ue_ctx_modify
<1> HIDE DEF a, m
<1>4. a.ues.ctx[a.row] = t
  BY <1>1, UeFields
<1>5. m = [ues |-> SetCtx(a.ues, a.row, NewVersion(u, id, a.row)), row |-> a.row]
  <2>1. CASE a.row = u.hash[id]
    <3>1. m = [ues |-> [a.ues EXCEPT !.ctx[a.row].pdusCount = 0, !.ctx[a.row].drbCount = 0],
               row |-> a.row]
      BY <1>1, <1>3, <2>1
    <3>2. [a.ues EXCEPT !.ctx[a.row].pdusCount = 0, !.ctx[a.row].drbCount = 0]
            = SetCtx(a.ues, a.row, Emptied(t))
      BY <1>1, <1>4 DEF SetCtx, Emptied, UeTable
    <3>3. QED BY <2>1, <3>1, <3>2 DEF NewVersion
  <2>2. CASE a.row # u.hash[id]
    <3> DEFINE o == u.ctx[u.hash[id]]
    <3>1. m = [ues |-> [a.ues EXCEPT !.ctx[a.row].pdusCount = o.pdusCount,
                         !.ctx[a.row].drbCount = o.drbCount,
                         !.ctx[a.row].pdus = Overwritten(@, Pdus(o)),
                         !.ctx[a.row].drb = Overwritten(@, Drbs(o))],
               row |-> a.row]
      <4> HIDE DEF o
      <4>1. QED BY <1>1, <1>3, <2>2 DEF o
    <3> HIDE DEF o
    <3>2. [a.ues EXCEPT !.ctx[a.row].pdusCount = o.pdusCount,
                         !.ctx[a.row].drbCount = o.drbCount,
                         !.ctx[a.row].pdus = Overwritten(@, Pdus(o)),
                         !.ctx[a.row].drb = Overwritten(@, Drbs(o))]
            = SetCtx(a.ues, a.row, Copied(t, o))
      <4> DEFINE New(x, r, np, nd, p, q) ==
                   [x EXCEPT !.ctx[r].pdusCount = np, !.ctx[r].drbCount = nd,
                             !.ctx[r].pdus = p, !.ctx[r].drb = q]
                 Merged(c, np, nd, p, q) ==
                   [c EXCEPT !.pdusCount = np, !.drbCount = nd, !.pdus = p, !.drb = q]
      <4>1. ASSUME NEW x \in UeTable, NEW r \in UeRows, NEW np, NEW nd, NEW p, NEW q
            PROVE  New(x, r, np, nd, p, q)
                     = SetCtx(x, r, Merged(x.ctx[r], np, nd, p, q))
        BY ZenonT(40) DEF SetCtx, UeTable, UeCtx
      <4>2. Copied(t, o) = Merged(t, o.pdusCount, o.drbCount, Overwritten(t.pdus, Pdus(o)),
                                  Overwritten(t.drb, Drbs(o)))
        BY DEF Copied
      <4>3. New(a.ues, a.row, o.pdusCount, o.drbCount, Overwritten(t.pdus, Pdus(o)),
                Overwritten(t.drb, Drbs(o))) = SetCtx(a.ues, a.row, Copied(t, o))
        <5> HIDE DEF New, Merged, t, old
        <5>1. a.ues \in UeTable /\ a.row \in UeRows
          BY <1>1
        <5>2. \A np, nd, p, q : New(a.ues, a.row, np, nd, p, q)
                = SetCtx(a.ues, a.row, Merged(a.ues.ctx[a.row], np, nd, p, q))
          BY <4>1, <5>1
        <5> QED BY <1>4, <4>2, <5>2
      <4>4. QED BY <1>4, <4>3, Zenon
    <3>3. QED BY <2>2, <3>1, <3>2 DEF NewVersion, o
  <2>3. QED BY <2>1, <2>2
<1>6. NewVersion(u, id, a.row) \in UeCtx
  BY <1>1, <1>2, EmptiedFields, CopiedFields DEF NewVersion
<1>7. LET v == SetCtx(a.ues, a.row, NewVersion(u, id, a.row))
      IN  v \in UeTable /\ v.hash = u.hash /\ v.ctx = [u.ctx EXCEPT ![a.row] = NewVersion(u, id, a.row)]
  <2> DEFINE c == NewVersion(u, id, a.row)
  <2> HIDE DEF c
  <2>1. c \in UeCtx
    BY <1>6 DEF c
  <2>2. LET v == SetCtx(a.ues, a.row, c)
        IN  v \in UeTable /\ v.hash = a.ues.hash /\ v.ctx = [a.ues.ctx EXCEPT ![a.row] = c]
    BY <1>1, <2>1, SetCtxFields
  <2>3. [a.ues.ctx EXCEPT ![a.row] = c] = [u.ctx EXCEPT ![a.row] = c]
    BY <1>1, UeFields
  <2>4. QED BY <1>1, <2>2, <2>3 DEF c
<1>8. QED BY <1>1, <1>5, <1>6, <1>7 DEF m

(* What committing makes of a context and of the tunnel table.             *)
DrbsCommitted(t, c) == CommitList(t, c.drb, c.drbCount)
PdusCommitted(t, c) == CommitList(DrbsCommitted(t, c).tbl, c.pdus, c.pdusCount)
DrbKept(t, c) == Present(DrbsCommitted(t, c).list, c.drbCount)
DrbPacked(t, c) == Overwritten(DrbsCommitted(t, c).list, DrbKept(t, c))
PdusPacked(t, c) ==
  Overwritten(PdusCommitted(t, c).list, Present(DrbPacked(t, c), c.pdusCount))
CtxCommitted(t, c) ==
  [c EXCEPT !.drb = DrbPacked(t, c), !.drbCount = Len(DrbKept(t, c)),
            !.pdus = PdusPacked(t, c)]

LEMMA CtxCommittedFields ==
  ASSUME NEW t \in Table, NEW c \in UeCtx, NoGaps(c), ~Missing(c)
  PROVE  LET d == CtxCommitted(t, c)
         IN  /\ PdusCommitted(t, c).tbl \in Table
             /\ d \in UeCtx /\ NoGaps(d)
             /\ d.used = c.used /\ d.cuup = c.cuup /\ d.cucp = c.cucp
             /\ d.drb = DrbPacked(t, c) /\ d.drbCount = Len(DrbKept(t, c))
             /\ d.pdus = PdusPacked(t, c) /\ d.pdusCount = c.pdusCount
<1>1. /\ c.pdusCount \in 0 .. MAX_PDUS_PER_UE /\ c.drbCount \in 0 .. MAX_DRB_PER_UE
      /\ c.pdus \in [1 .. MAX_PDUS_PER_UE -> RowOrNull]
      /\ c.drb \in [1 .. MAX_DRB_PER_UE -> RowOrNull]
      /\ MAX_PDUS_PER_UE \in Nat /\ MAX_DRB_PER_UE \in Nat
      /\ MAX_PDUS_PER_UE <= MAX_DRB_PER_UE
  BY CtxFields, UeCountAssumption
<1>2. /\ \A i \in 1 .. c.drbCount : c.drb[i] # NoRow
      /\ \A i \in 1 .. c.pdusCount : c.pdus[i] # NoRow
  BY DEF NoGaps, Missing
<1>3. /\ DrbsCommitted(t, c).tbl \in Table
      /\ DrbsCommitted(t, c).list \in [1 .. MAX_DRB_PER_UE -> RowOrNull]
  BY <1>1, <1>2, CommitListType DEF DrbsCommitted
<1>4. /\ PdusCommitted(t, c).tbl \in Table
      /\ PdusCommitted(t, c).list \in [1 .. MAX_PDUS_PER_UE -> RowOrNull]
  BY <1>1, <1>2, <1>3, CommitListType DEF PdusCommitted
<1>5. DrbKept(t, c) \in Seq(Rows) /\ Len(DrbKept(t, c)) <= c.drbCount
  BY <1>1, <1>3, PresentType DEF DrbKept
<1>6. \A s \in Seq(Rows) : s \in Seq(RowOrNull) /\ \A i \in 1 .. Len(s) : s[i] # NoRow
  <2> SUFFICES ASSUME NEW s \in Seq(Rows)
               PROVE  s \in Seq(RowOrNull) /\ \A i \in 1 .. Len(s) : s[i] # NoRow
    OBVIOUS
  <2>1. \A r \in Rows : r \in RowOrNull /\ r # NoRow
    BY NoRowAssumption DEF RowOrNull, Rows
  <2>2. \A i \in 1 .. Len(s) : s[i] \in Rows
    OBVIOUS
  <2>3. QED BY <2>1, <2>2
<1>7. Len(DrbKept(t, c)) \in 0 .. MAX_DRB_PER_UE
  BY <1>1, <1>5
<1>8. /\ DrbPacked(t, c) \in [1 .. MAX_DRB_PER_UE -> RowOrNull]
      /\ \A i \in 1 .. Len(DrbKept(t, c)) : DrbPacked(t, c)[i] # NoRow
  <2>1. DrbKept(t, c) \in Seq(RowOrNull) /\ Len(DrbKept(t, c)) <= MAX_DRB_PER_UE
    BY <1>5, <1>6, <1>7
  <2>2. /\ DrbPacked(t, c) \in [1 .. MAX_DRB_PER_UE -> RowOrNull]
        /\ \A i \in 1 .. Len(DrbKept(t, c)) : DrbPacked(t, c)[i] = DrbKept(t, c)[i]
    BY <1>1, <1>3, <2>1, OverwrittenType DEF DrbPacked
  <2>3. QED BY <1>5, <1>6, <2>2
<1>9. PdusPacked(t, c) \in [1 .. MAX_PDUS_PER_UE -> RowOrNull]
  <2> DEFINE list == Present(DrbPacked(t, c), c.pdusCount)
  <2>1. c.pdusCount \in 0 .. MAX_DRB_PER_UE
    BY <1>1
  <2>2. list \in Seq(Rows) /\ Len(list) <= c.pdusCount
    BY <1>1, <1>8, <2>1, PresentType
  <2> HIDE DEF list
  <2>3. list \in Seq(RowOrNull) /\ Len(list) <= MAX_PDUS_PER_UE
    BY <1>1, <1>6, <2>2
  <2>4. QED BY <1>1, <1>4, <2>3, OverwrittenType DEF PdusPacked, list
<1> DEFINE d == CtxCommitted(t, c)
<1>10. /\ d \in UeCtx
       /\ d.used = c.used /\ d.cuup = c.cuup /\ d.cucp = c.cucp
       /\ d.drb = DrbPacked(t, c) /\ d.drbCount = Len(DrbKept(t, c))
       /\ d.pdus = PdusPacked(t, c) /\ d.pdusCount = c.pdusCount
  BY <1>7, <1>8, <1>9 DEF CtxCommitted, UeCtx
<1> HIDE DEF d
<1>11. NoGaps(d)
  BY <1>8, <1>10 DEF NoGaps
<1>12. QED BY <1>4, <1>10, <1>11 DEF d

LEMMA UeCommitValue ==
  ASSUME NEW t, NEW u, NEW r
  PROVE  ue_ctx_commit(t, u, r) =
           [tbl |-> PdusCommitted(t, u.ctx[r]).tbl,
            ues |-> UeHashCommit(SetCtx(u, r, CtxCommitted(t, u.ctx[r])), r)]
BY Zenon DEF ue_ctx_commit, PdusCommitted, DrbsCommitted, CtxCommitted, DrbPacked,
             PdusPacked, DrbKept, SetCtx

(* The commit enters a context in the hash or takes it out, and frees the  *)
(* row of an old version.                                                  *)
LEMMA UeHashCommitFields ==
  ASSUME NEW u \in UeTable, NEW r \in UeRows
  PROVE  LET v  == UeHashCommit(u, r)
             id == u.ctx[r].cuup
         IN  /\ v \in UeTable
             /\ \/ /\ u.hash[id] = NoRow
                   /\ v.ctx = u.ctx /\ v.hash = [u.hash EXCEPT ![id] = r]
                \/ /\ u.hash[id] \in UeRows \ {r}
                   /\ v.ctx = [u.ctx EXCEPT ![u.hash[id]] = UsedAs(@, FALSE)]
                   /\ v.hash = [u.hash EXCEPT ![id] = r]
                \/ u.hash[id] = r /\ u.ctx[r].used /\ v = u
                \/ /\ u.hash[id] = r /\ ~u.ctx[r].used
                   /\ v.ctx = u.ctx /\ v.hash = [u.hash EXCEPT ![id] = NoRow]
<1> DEFINE id == u.ctx[r].cuup
           e == u.hash[id]
           v == UeHashCommit(u, r)
<1>1. id \in UeIds /\ e \in UeRows \union {NoRow} /\ u.ctx[r] \in UeCtx
  BY UeFields, CtxFields
<1>2. v = IF e = NoRow THEN UeHashAdd(u, id, r)
          ELSE IF e # r THEN UeHashAdd([u EXCEPT !.ctx[e].used = FALSE], id, r)
          ELSE IF u.ctx[r].used THEN u ELSE UeHashDel(u, id)
  BY Zenon DEF UeHashCommit
<1> HIDE DEF v
<1>3. CASE e = NoRow
  BY <1>1, <1>2, <1>3, UeHashAddFields DEF v
<1>4. CASE e # NoRow /\ e # r
  <2>1. e \in UeRows /\ e \in UeRows \ {r}
    BY <1>1, <1>4
  <2>2. [u EXCEPT !.ctx[e].used = FALSE] = SetCtx(u, e, UsedAs(u.ctx[e], FALSE))
        /\ SetCtx(u, e, UsedAs(u.ctx[e], FALSE)) \in UeTable
    BY <2>1, MarkUsed
  <2> DEFINE x == SetCtx(u, e, UsedAs(u.ctx[e], FALSE))
  <2>3. x \in UeTable /\ x.hash = u.hash /\ x.ctx = [u.ctx EXCEPT ![e] = UsedAs(u.ctx[e], FALSE)]
    <3>1. UsedAs(u.ctx[e], FALSE) \in UeCtx
      BY <2>1, UsedAsFields, UeFields
    <3> HIDE DEF e
    <3>2. QED BY <2>1, <3>1, SetCtxFields, ZenonT(40)
  <2>4. v = UeHashAdd(x, id, r)
    BY <1>2, <1>4, <2>2
  <2> HIDE DEF x, e, id
  <2>5. v \in UeTable /\ v.ctx = x.ctx /\ v.hash = [x.hash EXCEPT ![id] = r]
    BY <1>1, <2>3, <2>4, UeHashAddFields
  <2>6. v \in UeTable /\ v.ctx = [u.ctx EXCEPT ![e] = UsedAs(u.ctx[e], FALSE)]
        /\ v.hash = [u.hash EXCEPT ![id] = r]
    BY <2>3, <2>5
  <2>7. QED BY <2>1, <2>6 DEF v, e, id
<1>5. CASE e = r /\ e # NoRow
  <2>1. CASE u.ctx[r].used
    BY <1>2, <1>5, <2>1 DEF v
  <2>2. CASE ~u.ctx[r].used
    BY <1>1, <1>2, <1>5, <2>2, UeHashDelFields DEF v
  <2>3. QED BY <2>1, <2>2
<1>6. QED BY <1>3, <1>4, <1>5

LEMMA UsedAsGaps ==
  ASSUME NEW c \in UeCtx, NoGaps(c), NEW b \in BOOLEAN
  PROVE  UsedAs(c, b) \in UeCtx /\ NoGaps(UsedAs(c, b))
<1>1. LET d == UsedAs(c, b) IN d \in UeCtx /\ d.drb = c.drb /\ d.drbCount = c.drbCount
  BY UsedAsFields
<1>2. QED BY <1>1 DEF NoGaps

AllNoGaps(u) == \A r \in UeRows : NoGaps(u.ctx[r])

LEMMA UeCommitType ==
  ASSUME NEW t \in Table, NEW u \in UeTable, AllNoGaps(u), NEW r \in UeRows,
         ~Missing(u.ctx[r])
  PROVE  LET d == ue_ctx_commit(t, u, r)
         IN  d.tbl \in Table /\ d.ues \in UeTable /\ AllNoGaps(d.ues)
<1> DEFINE c == CtxCommitted(t, u.ctx[r])
           x == SetCtx(u, r, c)
           v == UeHashCommit(x, r)
<1>1. u.ctx \in [UeRows -> UeCtx] /\ u.ctx[r] \in UeCtx /\ NoGaps(u.ctx[r])
  BY UeFields DEF AllNoGaps
<1>2. PdusCommitted(t, u.ctx[r]).tbl \in Table /\ c \in UeCtx /\ NoGaps(c)
  BY <1>1, CtxCommittedFields
<1> HIDE DEF c
<1>3. x \in UeTable /\ x.ctx = [u.ctx EXCEPT ![r] = c]
  BY <1>2, SetCtxFields
<1> HIDE DEF x
<1>4. AllNoGaps(x)
  BY <1>1, <1>2, <1>3 DEF AllNoGaps
<1>5. v \in UeTable /\ (v.ctx = x.ctx \/ \E e \in UeRows : v.ctx = [x.ctx EXCEPT ![e] = UsedAs(@, FALSE)])
  <2> DEFINE e0 == x.hash[x.ctx[r].cuup]
  <2>1. /\ v \in UeTable
        /\ v.ctx = x.ctx \/ (e0 \in UeRows /\ v.ctx = [x.ctx EXCEPT ![e0] = UsedAs(@, FALSE)])
    BY <1>3, UeHashCommitFields
  <2> HIDE DEF e0, v
  <2>2. QED BY <2>1
<1> HIDE DEF v
<1>6. AllNoGaps(v)
  <2>1. CASE v.ctx = x.ctx
    BY <1>4, <2>1 DEF AllNoGaps
  <2>2. ASSUME NEW e \in UeRows, v.ctx = [x.ctx EXCEPT ![e] = UsedAs(@, FALSE)]
        PROVE  AllNoGaps(v)
    <3>1. x.ctx \in [UeRows -> UeCtx] /\ x.ctx[e] \in UeCtx
      BY <1>3, UeFields
    <3>2. NoGaps(UsedAs(x.ctx[e], FALSE))
      BY <1>4, <3>1, UsedAsGaps DEF AllNoGaps
    <3>3. QED BY <1>4, <2>2, <3>1, <3>2 DEF AllNoGaps
  <2>3. QED BY <1>5, <2>1, <2>2
<1>7. ue_ctx_commit(t, u, r) = [tbl |-> PdusCommitted(t, u.ctx[r]).tbl, ues |-> v]
  BY UeCommitValue DEF v, x, c
<1>8. QED BY <1>2, <1>5, <1>6, <1>7

(* The two lists of a context none of whose pointers is NULL.              *)
LEMMA BothLists ==
  ASSUME NEW c \in UeCtx, NoGaps(c), ~Missing(c)
  PROVE  Pdus(c) \o Drbs(c) \in Seq(Rows)
<1>1. /\ Pdus(c) \in Seq(RowOrNull) /\ Drbs(c) \in Seq(RowOrNull)
      /\ \A i \in 1 .. Len(Pdus(c)) : Pdus(c)[i] # NoRow
      /\ \A i \in 1 .. Len(Drbs(c)) : Drbs(c)[i] # NoRow
  BY Lists DEF NoGaps, Missing
<1>2. ASSUME NEW list \in Seq(RowOrNull), \A i \in 1 .. Len(list) : list[i] # NoRow
      PROVE  list \in Seq(Rows)
  <2>1. \A i \in 1 .. Len(list) : list[i] \in RowOrNull
    OBVIOUS
  <2>2. \A i \in 1 .. Len(list) : list[i] \in Rows
    BY <1>2, <2>1 DEF RowOrNull
  <2>3. QED BY <2>2
<1>3. Pdus(c) \in Seq(Rows) /\ Drbs(c) \in Seq(Rows)
  BY <1>1, <1>2
<1>4. QED BY <1>3

LEMMA RemoveAllType ==
  ASSUME NEW t \in Table, NEW list \in Seq(Rows)
  PROVE  RemoveAll(t, list) \in Table
<1>1. ASSUME NEW i \in 1 .. Len(list), NEW a \in Table
      PROVE  RemoveOne(a, list[i]) \in Table
  <2>1. list[i] \in Rows
    OBVIOUS
  <2>2. a.key[list[i]] \in TunnelKey
    BY <2>1, TableFields
  <2>3. QED BY <2>2, RemoveKeepsTable DEF RemoveOne
<1>2. QED BY <1>1, RemoveFold

LEMMA RollbackAllType ==
  ASSUME NEW t \in Table, NEW list \in Seq(Rows)
  PROVE  RollbackAll(t, list) \in Table
<1>1. ASSUME NEW i \in 1 .. Len(list), NEW a \in Table
      PROVE  tunnel_rollback(a, list[i]) \in Table
  <2>1. list[i] \in Rows
    OBVIOUS
  <2>2. QED BY <2>1, RollbackKeepsTable
<1>2. QED BY <1>1, RollbackFold

LEMMA MarkUsedGaps ==
  ASSUME NEW u \in UeTable, AllNoGaps(u), NEW r \in UeRows, NEW b \in BOOLEAN
  PROVE  LET v == [u EXCEPT !.ctx[r].used = b]
         IN  /\ v \in UeTable /\ AllNoGaps(v) /\ v.hash = u.hash
             /\ v.ctx = [u.ctx EXCEPT ![r] = UsedAs(@, b)]
<1> DEFINE c == UsedAs(u.ctx[r], b)
           v == SetCtx(u, r, c)
<1>1. [u EXCEPT !.ctx[r].used = b] = v /\ v \in UeTable
  BY MarkUsed
<1>2. u.ctx \in [UeRows -> UeCtx] /\ u.ctx[r] \in UeCtx
  BY UeFields
<1>3. c \in UeCtx /\ NoGaps(c)
  BY <1>2, UsedAsGaps DEF AllNoGaps
<1> HIDE DEF c
<1>4. v.hash = u.hash /\ v.ctx = [u.ctx EXCEPT ![r] = c]
  BY <1>3, SetCtxFields
<1> HIDE DEF v
<1>5. AllNoGaps(v)
  BY <1>2, <1>3, <1>4 DEF AllNoGaps
<1>6. QED BY <1>1, <1>4, <1>5, Zenon DEF c

LEMMA UeRollbackType ==
  ASSUME NEW t \in Table, NEW u \in UeTable, AllNoGaps(u), NEW r \in UeRows,
         u.hash[u.ctx[r].cuup] # NoRow, u.ctx[r].used,
         LET old == u.ctx[u.hash[u.ctx[r].cuup]] IN ~(old.used /\ Missing(old))
  PROVE  LET d == ue_ctx_rollback(t, u, r)
         IN  d.tbl \in Table /\ d.ues \in UeTable /\ AllNoGaps(d.ues)
<1> DEFINE e == u.hash[u.ctx[r].cuup]
           Undo(x) == RollbackAll(t, Pdus(x) \o Drbs(x))
           Free(b) == [u EXCEPT !.ctx[r].used = b]
           d == ue_ctx_rollback(t, u, r)
<1>1. u.ctx[r] \in UeCtx /\ u.ctx[e] \in UeCtx
  <2>1. u.ctx[r] \in UeCtx /\ u.ctx[r].cuup \in UeIds
    BY UeFields, CtxFields
  <2>2. e \in UeRows
    BY <2>1, UeFields
  <2>3. QED BY <2>1, <2>2, UeFields
<1>2. u.ctx[e].used => Undo(u.ctx[e]) \in Table
  <2>1. u.hash[u.ctx[r].cuup] \in UeRows
    BY UeFields, CtxFields
  <2>2. NoGaps(u.ctx[e])
    BY <2>1 DEF AllNoGaps
  <2>3. QED BY <1>1, <2>2, BothLists, RollbackAllType
<1>3. Free(FALSE) \in UeTable /\ AllNoGaps(Free(FALSE))
  BY MarkUsedGaps
<1>4. \/ d = [tbl |-> t, ues |-> u]
      \/ u.ctx[e].used /\ d = [tbl |-> Undo(u.ctx[e]), ues |-> Free(FALSE)]
  BY Zenon DEF ue_ctx_rollback
<1> HIDE DEF Undo, Free, e, d
<1>5. d.tbl \in Table /\ d.ues \in UeTable /\ AllNoGaps(d.ues)
  <2>1. CASE d = [tbl |-> t, ues |-> u]
    BY <2>1
  <2>2. CASE u.ctx[e].used /\ d = [tbl |-> Undo(u.ctx[e]), ues |-> Free(FALSE)]
    BY <1>2, <1>3, <2>2
  <2>3. QED BY <1>4, <2>1, <2>2
<1>6. QED BY <1>5 DEF d

LEMMA UeRemoveType ==
  ASSUME NEW t \in Table, NEW u \in UeTable, AllNoGaps(u), NEW id \in UeIds,
         u.hash[id] # NoRow, ~Missing(u.ctx[u.hash[id]])
  PROVE  LET d == ue_ctx_remove(t, u, id)
         IN  /\ d.tbl \in Table /\ d.ues \in UeTable /\ AllNoGaps(d.ues)
             /\ d.ues.hash = u.hash
             /\ d.ues.ctx = [u.ctx EXCEPT ![u.hash[id]] = UsedAs(@, FALSE)]
<1> DEFINE r == u.hash[id]
           list == Pdus(u.ctx[r]) \o Drbs(u.ctx[r])
           v == [u EXCEPT !.ctx[r].used = FALSE]
<1>1. r \in UeRows /\ u.ctx[r] \in UeCtx /\ NoGaps(u.ctx[r])
  BY UeFields DEF AllNoGaps
<1>2. RemoveAll(t, list) \in Table
  BY <1>1, BothLists, RemoveAllType
<1>3. ue_ctx_remove(t, u, id) = [tbl |-> RemoveAll(t, list), ues |-> v]
  BY DEF ue_ctx_remove
<1>4. /\ v \in UeTable /\ AllNoGaps(v) /\ v.hash = u.hash
      /\ v.ctx = [u.ctx EXCEPT ![r] = UsedAs(@, FALSE)]
  BY <1>1, MarkUsedGaps
<1> DEFINE d == ue_ctx_remove(t, u, id)
<1> HIDE DEF list, v, r
<1>5. /\ d.tbl \in Table /\ d.ues \in UeTable /\ AllNoGaps(d.ues) /\ d.ues.hash = u.hash
      /\ d.ues.ctx = [u.ctx EXCEPT ![r] = UsedAs(@, FALSE)]
  BY <1>2, <1>3, <1>4
<1>6. QED BY <1>5, Zenon DEF r

-----------------------------------------------------------------------------
(***************************************************************************)
(* Type correctness, for every kind of request.  What makes it inductive   *)
(* is that no DRB list has a NULL entry below its count: ue_ctx_commit     *)
(* calls tunnel_commit on each of them.  (The PDU session list does have   *)
(* NULL entries there, which is why a commit can crash; see phase.)        *)
(***************************************************************************)
BearerInv == TypeOK /\ AllNoGaps(ues)

LEMMA AnswerType ==
  ASSUME NEW cause \in Causes, NEW i \in AnyUeId, NEW j \in CucpIds,
         NEW g \in SUBSET Grants
  PROVE  Answer(cause, i, j, g) \in [cause : Causes, cuup : AnyUeId, cucp : CucpIds,
                                     granted : SUBSET [key : TunnelKey, info : Info]]
BY DEF Answer, Grants

LEMMA Requests ==
  /\ \A q \in SetupReqs : q.cucp \in CucpIds /\ q.pdus \in Seq(SessionReq)
  /\ \A q \in ModifyReqs : /\ q.cuup \in UeIds /\ q.cucp \in CucpIds /\ q.remove \in Seq(Ids)
                           /\ q.modify \in Seq(SessionChange) /\ q.setup \in Seq(SessionReq)
                           /\ \A i \in 1 .. Len(q.modify) :
                                Len(q.modify[i].remove) <= MAX_DRB_PER_UE
  /\ \A id \in ReleaseIds : id \in UeIds
<1>1. \A q \in SetupReqs : q.cucp \in CucpIds /\ q.pdus \in Seq(SessionReq)
  BY RequestAssumption
<1>2. ASSUME NEW q \in ModifyReqs
      PROVE  /\ q.cuup \in UeIds /\ q.cucp \in CucpIds /\ q.remove \in Seq(Ids)
             /\ q.modify \in Seq(SessionChange) /\ q.setup \in Seq(SessionReq)
  BY RequestAssumption
<1>3. ASSUME NEW q \in ModifyReqs
      PROVE  \A i \in 1 .. Len(q.modify) : Len(q.modify[i].remove) <= MAX_DRB_PER_UE
  <2>1. DOMAIN q.modify = 1 .. Len(q.modify)
    BY <1>2
  <2>2. QED BY <2>1, RequestAssumption
<1>4. QED BY <1>1, <1>2, <1>3, RequestAssumption

(* The sessions of a request, one after the other.                         *)
LEMMA SessionsType ==
  ASSUME NEW w \in Works, NEW list \in Seq(SessionReq)
  PROVE  FoldLeft(pdus_setup, w, list) \in Works
<1>1. ASSUME NEW i \in 1 .. Len(list), NEW a \in Works
      PROVE  pdus_setup(a, list[i]) \in Works
  <2>1. list[i] \in SessionReq
    OBVIOUS
  <2>2. QED BY <2>1, PdusSetupType
<1>2. QED BY <1>1, PdusFold

LEMMA InitInv == Init => BearerInv
<1> SUFFICES ASSUME Init PROVE BearerInv
  OBVIOUS
<1>1. tbl \in Table
  <2>1. 0 \in Rows
    BY TunnelCountAssumption DEF Rows
  <2>2. [kind |-> "pdus", id |-> 0] \in Info
    BY ByteAssumption, ContentAssumption
  <2>3. (CHOOSE k \in TunnelKey : TRUE) \in TunnelKey
    <3>1. PICK ip : ip \in LocalIps
      BY NonEmptyAssumption
    <3>2. [ip_addr |-> ip, te_id |-> 0] \in TunnelKey
      BY <2>1, <3>1 DEF TunnelKey
    <3>3. QED BY <3>2
  <2> DEFINE k0 == CHOOSE k \in TunnelKey : TRUE
             i0 == [kind |-> "pdus", id |-> 0]
  <2>4. tbl = EmptyTable(k0, i0)
    BY DEF Init
  <2> HIDE DEF k0, i0
  <2>5. k0 \in TunnelKey /\ i0 \in Info
    BY <2>2, <2>3 DEF k0, i0
  <2>6. QED BY <2>1, <2>4, <2>5 DEF EmptyTable, Table
<1>2. ues \in UeTable /\ AllNoGaps(ues)
  <2> DEFINE c0 == [used |-> FALSE, cuup |-> 0, cucp |-> 0, pdusCount |-> 0, drbCount |-> 0,
                    pdus |-> [i \in 1 .. MAX_PDUS_PER_UE |-> NoRow],
                    drb |-> [i \in 1 .. MAX_DRB_PER_UE |-> NoRow]]
  <2>1. 0 \in UeRows /\ 0 \in UeIds /\ NextFree \in 0 .. LastFree
        /\ 0 \in 0 .. MAX_PDUS_PER_UE /\ 0 \in 0 .. MAX_DRB_PER_UE
    BY UeCountAssumption DEF UeRows, UeIds, NextFree, LastFree
  <2>2. c0 \in UeCtx
    BY <2>1, IdAssumption DEF UeCtx, RowOrNull
  <2>3. NoGaps(c0)
    BY DEF NoGaps
  <2>4. ues = [ctx |-> [r \in UeRows |-> c0], hash |-> [i \in UeIds |-> NoRow],
               lastSlot |-> 0, lastId |-> 0, zero |-> NextFree]
    BY DEF Init, EmptyUeTable
  <2> HIDE DEF c0
  <2>5. QED BY <2>1, <2>2, <2>3, <2>4 DEF UeTable, AllNoGaps
<1>3. phase \in {"down", "up", "dead"}
  BY DEF Init
<1>4. rsp \in [cause : Causes, cuup : AnyUeId, cucp : CucpIds,
               granted : SUBSET [key : TunnelKey, info : Info]]
  BY IdAssumption, AnswerType DEF Init, Causes, AnyUeId
<1>5. QED BY <1>1, <1>2, <1>3, <1>4 DEF BearerInv, TypeOK

(* A new context, before its sessions are set up, and the work on them.    *)
LEMMA FreshFields ==
  ASSUME NEW c \in UeCtx, NEW cucp \in CucpIds
  PROVE  LET d == Fresh(c, cucp)
         IN  /\ d \in UeCtx /\ NoGaps(d) /\ d.used = c.used /\ d.cuup = c.cuup
             /\ d.cucp = cucp /\ d.pdusCount = 0 /\ d.drbCount = 0
<1>1. 0 \in 0 .. MAX_PDUS_PER_UE /\ 0 \in 0 .. MAX_DRB_PER_UE
  BY UeCountAssumption
<1>2. LET d == Fresh(c, cucp)
      IN  /\ d \in UeCtx /\ d.used = c.used /\ d.cuup = c.cuup
          /\ d.cucp = cucp /\ d.pdusCount = 0 /\ d.drbCount = 0
  BY <1>1 DEF Fresh, UeCtx
<1>3. QED BY <1>2 DEF NoGaps

LEMMA WorkType ==
  ASSUME NEW t \in Table, NEW c \in UeCtx, NoGaps(c)
  PROVE  LET w == Work(t, c)
         IN  w \in Works /\ w.tbl = t /\ w.ctx = c /\ w.granted = {} /\ ~w.dead
BY DEF Work, Works

LEMMA SetCtxGaps ==
  ASSUME NEW u \in UeTable, AllNoGaps(u), NEW r \in UeRows, NEW c \in UeCtx, NoGaps(c)
  PROVE  LET v == SetCtx(u, r, c)
         IN  /\ v \in UeTable /\ AllNoGaps(v) /\ v.hash = u.hash
             /\ v.ctx[r] = c /\ \A x \in UeRows \ {r} : v.ctx[x] = u.ctx[x]
<1> DEFINE v == SetCtx(u, r, c)
<1>1. v \in UeTable /\ v.hash = u.hash /\ v.ctx = [u.ctx EXCEPT ![r] = c]
  BY SetCtxFields
<1>2. u.ctx \in [UeRows -> UeCtx]
  BY UeFields
<1> HIDE DEF v
<1>3. /\ v.ctx[r] = c /\ \A x \in UeRows \ {r} : v.ctx[x] = u.ctx[x]
      /\ AllNoGaps(v)
  BY <1>1, <1>2 DEF AllNoGaps
<1>4. QED BY <1>1, <1>3 DEF v

(* What a set-up lists are rows: it never meets a NULL pointer.            *)
Whole(w) == ~Missing(w.ctx)

LEMMA SessionWhole ==
  ASSUME NEW w \in Works, NEW q \in SessionReq, NEW row \in Rows, NEW key \in TunnelKey,
         w.ctx.pdusCount # MAX_PDUS_PER_UE, Whole(w)
  PROVE  Whole(SessionSetup(w, q, key, row))
<1> DEFINE s == DrbsDone(w, row, q)
           r == SessionSetup(w, q, key, row)
<1>1. s \in Works /\ SameSessions(w, s)
  BY SessionCases
<1>2. s.tbl \in Table /\ s.ctx \in UeCtx /\ s.granted \in SUBSET Grants /\ NoGaps(s.ctx)
  BY <1>1, WorkFields
<1>3. \/ r = [s EXCEPT !.dead = TRUE]
      \/ r = [s EXCEPT !.tbl = tunnel_commit(tunnel_remove(s.tbl, key), row)]
      \/ r = Written(s, s.tbl, PdusOn(s.ctx, s.ctx.pdusCount, row),
                     s.granted \union {Grant(key, PdusInfo(q.id))})
  BY SessionCases
<1>4. \A i \in 1 .. s.ctx.pdusCount : s.ctx.pdus[i] # NoRow
  BY <1>1 DEF SameSessions, Whole, Missing
<1> HIDE DEF s
<1>5. CASE r = [s EXCEPT !.tbl = tunnel_commit(tunnel_remove(s.tbl, key), row)]
  <2>1. r.ctx = s.ctx
    BY <1>1, <1>5 DEF Works
  <2>2. QED BY <1>4, <2>1 DEF Whole, Missing
<1>6. CASE r = Written(s, s.tbl, PdusOn(s.ctx, s.ctx.pdusCount, row),
                       s.granted \union {Grant(key, PdusInfo(q.id))})
  <2> DEFINE d == PdusOn(s.ctx, s.ctx.pdusCount, row)
  <2>1. s.ctx.pdusCount \in Nat /\ s.ctx.pdusCount < MAX_PDUS_PER_UE
    <3>1. s.ctx.pdusCount \in 0 .. MAX_PDUS_PER_UE /\ MAX_PDUS_PER_UE \in Nat
      BY <1>2, CtxFields
    <3>2. s.ctx.pdusCount # MAX_PDUS_PER_UE
      BY <1>1 DEF SameSessions
    <3>3. QED BY <3>1, <3>2
  <2>2. /\ d.pdus = [s.ctx.pdus EXCEPT ![s.ctx.pdusCount + 1] = row]
        /\ d.pdusCount = s.ctx.pdusCount + 1
    BY <1>2, <2>1, PdusListed
  <2>3. r.ctx = d
    BY <1>1, <1>6 DEF Works, Written
  <2> HIDE DEF d, r
  <2>4. row # NoRow /\ s.ctx.pdus \in [1 .. MAX_PDUS_PER_UE -> RowOrNull]
    BY <1>2, NoRowAssumption, CtxFields DEF Rows
  <2>5. \A i \in 1 .. s.ctx.pdusCount + 1 : d.pdus[i] # NoRow
    BY <1>4, <2>1, <2>2, <2>4, UeCountAssumption
  <2>6. QED BY <1>4, <2>2, <2>3, <2>5 DEF Whole, Missing, r
<1>8. CASE r = [s EXCEPT !.dead = TRUE]
  <2>1. r.ctx = s.ctx
    BY <1>1, <1>8 DEF Works
  <2>2. QED BY <1>4, <2>1 DEF Whole, Missing
<1>7. QED BY <1>3, <1>5, <1>6, <1>8

LEMMA PdusSetupWhole ==
  ASSUME NEW w \in Works, NEW q \in SessionReq, Whole(w)
  PROVE  Whole(pdus_setup(w, q))
<1> DEFINE b == TakenFor(w.tbl, q.ip)
           s == pdus_setup(w, q)
           x == [w EXCEPT !.tbl = b.tbl]
<1>1. CASE s = [w EXCEPT !.dead = TRUE]
  <2>1. s.ctx = w.ctx
    BY <1>1 DEF Works
  <2>2. QED BY <2>1 DEF Whole
<1>2. CASE s = w
  BY <1>2
<1>3. ASSUME q.ip \in LocalIps, KeyAvailable(w.tbl, q.ip)
      PROVE  KeyFor(w.tbl, q.ip) \in TunnelKey /\ b.tbl \in Table /\ b.row \in RowOrNull
  BY <1>3, TakenResult, WorkFields
<1> HIDE DEF b
<1>4. ASSUME q.ip \in LocalIps, KeyAvailable(w.tbl, q.ip)
      PROVE  x \in Works /\ x.ctx = w.ctx /\ Whole(x)
  BY <1>3, <1>4, WriteTbl DEF Whole
<1>5. CASE q.ip \in LocalIps /\ KeyAvailable(w.tbl, q.ip) /\ s = [w EXCEPT !.tbl = b.tbl]
  BY <1>4, <1>5
<1>6. CASE q.ip \in LocalIps /\ KeyAvailable(w.tbl, q.ip) /\ b.row # NoRow /\ PdusTried(w, s, q)
  <2>1. b.row \in Rows /\ KeyFor(w.tbl, q.ip) \in TunnelKey
    BY <1>3, <1>6 DEF RowOrNull
  <2>2. s = SessionSetup(x, q, KeyFor(w.tbl, q.ip), b.row) /\ w.ctx.pdusCount # MAX_PDUS_PER_UE
    BY <1>6 DEF PdusTried, b
  <2>3. x \in Works /\ x.ctx = w.ctx /\ Whole(x)
    BY <1>4, <1>6
  <2> HIDE DEF x, s
  <2>4. Whole(s)
    BY <2>1, <2>2, <2>3, SessionWhole
  <2>5. QED BY <2>4 DEF s
<1>7. QED BY <1>1, <1>2, <1>5, <1>6, PdusSetupCases DEF b

LEMMA SessionsWhole ==
  ASSUME NEW w \in Works, NEW list \in Seq(SessionReq), Whole(w)
  PROVE  LET s == FoldLeft(pdus_setup, w, list) IN s \in Works /\ Whole(s)
<1> DEFINE T == {x \in Works : Whole(x)}
<1>1. ASSUME NEW i \in 1 .. Len(list), NEW a \in T
      PROVE  pdus_setup(a, list[i]) \in T
  <2>1. list[i] \in SessionReq
    OBVIOUS
  <2>2. QED BY <2>1, PdusSetupType, PdusSetupWhole
<1>2. w \in T
  OBVIOUS
<1> HIDE DEF T
<1>3. FoldLeft(pdus_setup, w, list) \in T
  BY <1>1, <1>2, PdusFold
<1>4. QED BY <1>3 DEF T

(* The context a set-up starts from.                                       *)
NewRow(u) == ue_ctx_alloc(ue_ctx_id_alloc(u).ues, ue_ctx_id_alloc(u).id)

LEMMA NewRowResult ==
  ASSUME NEW u \in UeTable, AllNoGaps(u), UeIdAvailable(u), UeRowAvailable(u),
         NEW cucp \in CucpIds
  PROVE  LET id == ue_ctx_id_alloc(u).id
             b  == NewRow(u)
             c  == Fresh(b.ues.ctx[b.row], cucp)
         IN  /\ id \in UeIds /\ u.hash[id] = NoRow
             /\ b.row \in UeRows /\ ~u.ctx[b.row].used
             /\ b.ues \in UeTable /\ AllNoGaps(b.ues) /\ b.ues.hash = u.hash
             /\ \A r \in UeRows \ {b.row} : b.ues.ctx[r] = u.ctx[r]
             /\ c \in UeCtx /\ NoGaps(c) /\ c.used /\ c.cuup = id /\ c.cucp = cucp
             /\ c.pdusCount = 0 /\ c.drbCount = 0
<1> DEFINE a == ue_ctx_id_alloc(u)
           b == ue_ctx_alloc(a.ues, a.id)
           d == Taken(a.ues.ctx[b.row], a.id)
           c == Fresh(b.ues.ctx[b.row], cucp)
<1>1. a.id \in UeIds /\ u.hash[a.id] = NoRow
      /\ a.ues \in UeTable /\ a.ues.ctx = u.ctx /\ a.ues.hash = u.hash
  BY UeIdFound
<1>2. UeRowAvailable(a.ues)
  <2>1. a.ues.lastSlot = u.lastSlot
    BY UeFields DEF ue_ctx_id_alloc, UeTable
  <2>2. QED BY <1>1, <2>1 DEF UeRowAvailable, FreeUeRows
<1> HIDE DEF a
<1>3. /\ b.row \in UeRows /\ ~a.ues.ctx[b.row].used
      /\ b.ues \in UeTable /\ b.ues.hash = a.ues.hash
      /\ b.ues.ctx = [a.ues.ctx EXCEPT ![b.row] = d]
  BY <1>1, <1>2, UeRowFound
<1>4. u.ctx \in [UeRows -> UeCtx] /\ u.ctx[b.row] \in UeCtx
  BY <1>3, UeFields
<1>5. d \in UeCtx /\ d.used /\ d.cuup = a.id /\ NoGaps(d)
  <2>1. /\ d \in UeCtx /\ d.used /\ d.cuup = a.id
        /\ d.drb = u.ctx[b.row].drb /\ d.drbCount = u.ctx[b.row].drbCount
    BY <1>1, <1>4, TakenFields
  <2>2. NoGaps(u.ctx[b.row])
    BY <1>3 DEF AllNoGaps
  <2>3. QED BY <2>1, <2>2 DEF NoGaps
<1> HIDE DEF b, d
<1>6. /\ b.ues.ctx[b.row] = d
      /\ \A r \in UeRows \ {b.row} : b.ues.ctx[r] = u.ctx[r]
  BY <1>1, <1>3, <1>4
<1>7. AllNoGaps(b.ues)
  BY <1>3, <1>5, <1>6 DEF AllNoGaps
<1>8. /\ c \in UeCtx /\ NoGaps(c) /\ c.used /\ c.cuup = a.id /\ c.cucp = cucp
      /\ c.pdusCount = 0 /\ c.drbCount = 0
  BY <1>5, <1>6, FreshFields
<1> HIDE DEF c
<1>9. QED BY <1>1, <1>3, <1>6, <1>7, <1>8, Zenon DEF NewRow, a, b, c

(* The three handlers as one equation each.                                *)
SetupWork(q) ==
  FoldLeft(pdus_setup, Work(tbl, Fresh(NewRow(ues).ues.ctx[NewRow(ues).row], q.cucp)), q.pdus)
SetupDone(q) ==
  ue_ctx_commit(SetupWork(q).tbl, SetCtx(NewRow(ues).ues, NewRow(ues).row, SetupWork(q).ctx),
                NewRow(ues).row)

LEMMA SetupValue ==
  ASSUME NEW q, SetupBearer(q)
  PROVE  /\ phase = "up" /\ UeIdAvailable(ues) /\ UeRowAvailable(ues)
         /\ \/ SetupWork(q).dead /\ phase' = "dead" /\ UNCHANGED <<tbl, ues, rsp>>
            \/ /\ ~SetupWork(q).dead
               /\ tbl' = SetupDone(q).tbl /\ ues' = SetupDone(q).ues
               /\ rsp' = IF SetupWork(q).ctx.pdusCount = 0
                         THEN Answer("unspecified", SetupWork(q).ctx.cucp, q.cucp, {})
                         ELSE Answer("success", ue_ctx_id_alloc(ues).id, q.cucp,
                                     SetupWork(q).granted)
               /\ phase' = phase
BY Zenon DEF SetupBearer, SetupDone, SetupWork, NewRow, Fresh, SetCtx

LEMMA SetupWorkType ==
  ASSUME BearerInv, NEW q \in SetupReqs, UeIdAvailable(ues), UeRowAvailable(ues)
  PROVE  /\ SetupWork(q) \in Works /\ Whole(SetupWork(q))
         /\ NewRow(ues).row \in UeRows /\ NewRow(ues).ues \in UeTable
         /\ AllNoGaps(NewRow(ues).ues) /\ ue_ctx_id_alloc(ues).id \in UeIds
<1> DEFINE c == Fresh(NewRow(ues).ues.ctx[NewRow(ues).row], q.cucp)
           w == Work(tbl, c)
<1>1. tbl \in Table /\ ues \in UeTable /\ AllNoGaps(ues)
      /\ q.cucp \in CucpIds /\ q.pdus \in Seq(SessionReq)
  BY Requests DEF BearerInv, TypeOK
<1>2. /\ ue_ctx_id_alloc(ues).id \in UeIds
      /\ NewRow(ues).row \in UeRows /\ NewRow(ues).ues \in UeTable /\ AllNoGaps(NewRow(ues).ues)
      /\ c \in UeCtx /\ NoGaps(c) /\ c.pdusCount = 0
  BY <1>1, NewRowResult
<1> HIDE DEF c
<1>3. w \in Works /\ w.ctx = c /\ ~w.dead
  BY <1>1, <1>2, WorkType
<1> HIDE DEF w
<1>4. Whole(w)
  BY <1>2, <1>3 DEF Whole, Missing
<1>5. FoldLeft(pdus_setup, w, q.pdus) \in Works /\ Whole(FoldLeft(pdus_setup, w, q.pdus))
  BY <1>1, <1>3, <1>4, SessionsWhole
<1>6. QED BY <1>2, <1>5 DEF SetupWork, w, c

LEMMA SetupKeepsInv ==
  ASSUME BearerInv, NEW q \in SetupReqs, SetupBearer(q)
  PROVE  BearerInv'
<1> DEFINE w == SetupWork(q)
           b == NewRow(ues)
           x == SetCtx(b.ues, b.row, w.ctx)
<1>0. phase \in {"down", "up", "dead"} /\ q.cucp \in CucpIds
  BY Requests DEF BearerInv, TypeOK
<1>1. phase = "up" /\ UeIdAvailable(ues) /\ UeRowAvailable(ues)
  BY SetupValue
<1>9. CASE phase' = "dead" /\ UNCHANGED <<tbl, ues, rsp>>
  BY <1>9 DEF BearerInv, TypeOK, AllNoGaps
<1>10. CASE /\ tbl' = SetupDone(q).tbl /\ ues' = SetupDone(q).ues
            /\ rsp' = IF w.ctx.pdusCount = 0
                      THEN Answer("unspecified", w.ctx.cucp, q.cucp, {})
                      ELSE Answer("success", ue_ctx_id_alloc(ues).id, q.cucp, w.granted)
            /\ phase' = phase
  <2>2. /\ w \in Works /\ Whole(w) /\ b.row \in UeRows /\ b.ues \in UeTable
        /\ AllNoGaps(b.ues) /\ ue_ctx_id_alloc(ues).id \in UeIds
    BY <1>1, SetupWorkType
  <2> HIDE DEF w, b
  <2>3. w.tbl \in Table /\ w.ctx \in UeCtx /\ NoGaps(w.ctx) /\ w.granted \in SUBSET Grants
        /\ ~Missing(w.ctx) /\ w.ctx.cucp \in CucpIds
    BY <2>2, WorkFields, CtxFields DEF Whole
  <2>4. x \in UeTable /\ AllNoGaps(x) /\ x.ctx[b.row] = w.ctx
    <3>1. b.ues \in UeTable /\ AllNoGaps(b.ues) /\ b.row \in UeRows /\ w.ctx \in UeCtx /\ NoGaps(w.ctx)
      BY <2>2, <2>3
    <3>2. LET v == SetCtx(b.ues, b.row, w.ctx)
          IN  v \in UeTable /\ AllNoGaps(v) /\ v.ctx[b.row] = w.ctx
      BY <3>1, SetCtxGaps
    <3>3. QED BY <3>2
  <2> HIDE DEF x
  <2>5. LET d == ue_ctx_commit(w.tbl, x, b.row)
        IN  d.tbl \in Table /\ d.ues \in UeTable /\ AllNoGaps(d.ues)
    BY <2>2, <2>3, <2>4, UeCommitType
  <2>6. tbl' \in Table /\ ues' \in UeTable /\ AllNoGaps(ues')
    BY <1>10, <2>5 DEF SetupDone, w, b, x
  <2>7. rsp' \in [cause : Causes, cuup : AnyUeId, cucp : CucpIds,
                  granted : SUBSET [key : TunnelKey, info : Info]]
    <3>1. Answer("unspecified", w.ctx.cucp, q.cucp, {}) \in
            [cause : Causes, cuup : AnyUeId, cucp : CucpIds,
             granted : SUBSET [key : TunnelKey, info : Info]]
      BY <1>0, <2>3, AnswerType DEF Causes, AnyUeId
    <3>2. Answer("success", ue_ctx_id_alloc(ues).id, q.cucp, w.granted) \in
            [cause : Causes, cuup : AnyUeId, cucp : CucpIds,
             granted : SUBSET [key : TunnelKey, info : Info]]
      BY <1>0, <2>2, <2>3, AnswerType DEF Causes, AnyUeId
    <3>3. QED BY <1>10, <3>1, <3>2
  <2>8. QED BY <1>0, <1>10, <2>6, <2>7 DEF BearerInv, TypeOK, AllNoGaps
<1>11. QED BY <1>9, <1>10, SetupValue

ModifyWork(q) ==
  LET m == ue_ctx_modify(ues, q.cuup)
      r == PdusRemovals(Work(tbl, m.ues.ctx[m.row]), q.remove)
  IN  FoldLeft(pdus_setup, PdusModifications(r, q.modify), q.setup)
ModifyDone(q) ==
  LET m == ue_ctx_modify(ues, q.cuup)
  IN  ue_ctx_commit(ModifyWork(q).tbl, SetCtx(m.ues, m.row, ModifyWork(q).ctx), m.row)

LEMMA ModifyValue ==
  ASSUME NEW q, ModifyBearer(q)
  PROVE  /\ Known(q.cuup) /\ UeRowAvailable(ues)
         /\ ue_ctx_modify(ues, q.cuup).ues.ctx[ue_ctx_modify(ues, q.cuup).row].cucp = q.cucp
         /\ \/ phase' = "dead" /\ UNCHANGED <<tbl, ues, rsp>>
            \/ /\ ~ModifyWork(q).dead /\ ~Missing(ModifyWork(q).ctx)
               /\ tbl' = ModifyDone(q).tbl /\ ues' = ModifyDone(q).ues
               /\ rsp' = Answer("success", q.cuup, q.cucp, ModifyWork(q).granted)
               /\ phase' = phase
BY Zenon DEF ModifyBearer, ModifyDone, ModifyWork, SetCtx

LEMMA ModifyRow ==
  ASSUME NEW u \in UeTable, AllNoGaps(u), NEW id \in UeIds, u.hash[id] # NoRow,
         UeRowAvailable(u)
  PROVE  LET m == ue_ctx_modify(u, id)
             c == m.ues.ctx[m.row]
         IN  /\ m.row \in UeRows /\ ~u.ctx[m.row].used
             /\ m.ues \in UeTable /\ AllNoGaps(m.ues) /\ m.ues.hash = u.hash
             /\ \A r \in UeRows \ {m.row} : m.ues.ctx[r] = u.ctx[r]
             /\ c = NewVersion(u, id, m.row)
             /\ c \in UeCtx /\ NoGaps(c) /\ c.used /\ c.cuup = id
<1> DEFINE m == ue_ctx_modify(u, id)
           t == Taken(u.ctx[m.row], id)
           c == NewVersion(u, id, m.row)
<1>1. /\ m.row \in UeRows /\ ~u.ctx[m.row].used
      /\ m.ues \in UeTable /\ m.ues.hash = u.hash
      /\ c \in UeCtx /\ m.ues.ctx = [u.ctx EXCEPT ![m.row] = c]
  BY UeModifyResult
<1> HIDE DEF m
<1>2. /\ u.ctx \in [UeRows -> UeCtx] /\ u.ctx[m.row] \in UeCtx
      /\ u.ctx[u.hash[id]] \in UeCtx /\ NoGaps(u.ctx[u.hash[id]])
  <2>1. u.hash[id] \in UeRows
    BY UeFields
  <2>2. QED BY <1>1, <2>1, UeFields DEF AllNoGaps
<1>3. t \in UeCtx /\ t.used /\ t.cuup = id
  BY <1>2, TakenFields
<1> HIDE DEF t
<1>4. NoGaps(c) /\ c.used /\ c.cuup = id
  <2>1. CASE m.row = u.hash[id]
    <3>1. c = Emptied(t)
      BY <2>1 DEF NewVersion, t
    <3>2. QED BY <1>3, <3>1, EmptiedFields
  <2>2. CASE m.row # u.hash[id]
    <3>1. c = Copied(t, u.ctx[u.hash[id]])
      BY <2>2 DEF NewVersion, t
    <3>2. QED BY <1>2, <1>3, <3>1, CopiedFields
  <2>3. QED BY <2>1, <2>2
<1> HIDE DEF c
<1>5. m.ues.ctx[m.row] = c /\ \A r \in UeRows \ {m.row} : m.ues.ctx[r] = u.ctx[r]
  BY <1>1, <1>2
<1>6. AllNoGaps(m.ues)
  BY <1>4, <1>5 DEF AllNoGaps
<1>7. QED BY <1>1, <1>4, <1>5, <1>6, Zenon DEF m, c

LEMMA ModifyWorkType ==
  ASSUME BearerInv, NEW q \in ModifyReqs, Known(q.cuup), UeRowAvailable(ues)
  PROVE  ModifyWork(q) \in Works
<1> DEFINE m == ue_ctx_modify(ues, q.cuup)
           w == Work(tbl, m.ues.ctx[m.row])
<1>1. /\ tbl \in Table /\ ues \in UeTable /\ AllNoGaps(ues)
      /\ q.cuup \in UeIds /\ ues.hash[q.cuup] # NoRow
      /\ q.remove \in Seq(Ids) /\ q.modify \in Seq(SessionChange) /\ q.setup \in Seq(SessionReq)
      /\ \A i \in 1 .. Len(q.modify) : Len(q.modify[i].remove) <= MAX_DRB_PER_UE
  BY Requests DEF BearerInv, TypeOK, Known
<1>2. m.ues.ctx[m.row] \in UeCtx /\ NoGaps(m.ues.ctx[m.row])
  BY <1>1, ModifyRow
<1> HIDE DEF m
<1>3. w \in Works
  BY <1>1, <1>2, WorkType
<1> HIDE DEF w
<1>4. PdusRemovals(w, q.remove) \in Works
  <2>1. \A i \in 1 .. Len(q.remove) : q.remove[i] \in Ids
    BY <1>1
  <2>2. \A i \in 1 .. Len(q.remove), a \in Works : PdusRemoval(a, q.remove[i]) \in Works
    BY <2>1, PdusRemovalType
  <2>3. QED BY <1>1, <1>3, <2>2, PdusRemovalFold
<1>5. PdusModifications(PdusRemovals(w, q.remove), q.modify) \in Works
  <2>1. \A i \in 1 .. Len(q.modify) : q.modify[i] \in SessionChange
    BY <1>1
  <2>2. \A i \in 1 .. Len(q.modify), a \in Works : PdusModification(a, q.modify[i]) \in Works
    BY <1>1, <2>1, PdusModificationType
  <2>3. QED BY <1>1, <1>4, <2>2, PdusModificationFold
<1>6. QED BY <1>1, <1>5, SessionsType DEF ModifyWork, m, w

LEMMA ModifyKeepsInv ==
  ASSUME BearerInv, NEW q \in ModifyReqs, ModifyBearer(q)
  PROVE  BearerInv'
<1> DEFINE m == ue_ctx_modify(ues, q.cuup)
           w == ModifyWork(q)
           x == SetCtx(m.ues, m.row, w.ctx)
<1>0. /\ q.cuup \in UeIds /\ q.cucp \in CucpIds
      /\ ues \in UeTable /\ AllNoGaps(ues)
  BY Requests DEF BearerInv, TypeOK
<1>1. Known(q.cuup) /\ UeRowAvailable(ues)
  BY ModifyValue
<1>2. CASE phase' = "dead" /\ UNCHANGED <<tbl, ues, rsp>>
  BY <1>2 DEF BearerInv, TypeOK, AllNoGaps
<1>3. CASE /\ ~w.dead /\ ~Missing(w.ctx)
           /\ tbl' = ModifyDone(q).tbl /\ ues' = ModifyDone(q).ues
           /\ rsp' = Answer("success", q.cuup, q.cucp, w.granted)
           /\ phase' = phase
  <2>1. w \in Works
    BY <1>1, ModifyWorkType
  <2>2. m.row \in UeRows /\ m.ues \in UeTable /\ AllNoGaps(m.ues)
    BY <1>0, <1>1, ModifyRow DEF Known
  <2> HIDE DEF w, m
  <2>3. w.tbl \in Table /\ w.ctx \in UeCtx /\ NoGaps(w.ctx) /\ w.granted \in SUBSET Grants
    BY <2>1, WorkFields
  <2>4. x \in UeTable /\ AllNoGaps(x) /\ x.ctx[m.row] = w.ctx
    BY <2>2, <2>3, SetCtxGaps, ZenonT(40)
  <2> HIDE DEF x
  <2>5. LET d == ue_ctx_commit(w.tbl, x, m.row)
        IN  d.tbl \in Table /\ d.ues \in UeTable /\ AllNoGaps(d.ues)
    BY <1>3, <2>2, <2>3, <2>4, UeCommitType
  <2>6. tbl' \in Table /\ ues' \in UeTable /\ AllNoGaps(ues')
    BY <1>3, <2>5 DEF ModifyDone, w, m, x
  <2>7. rsp' \in [cause : Causes, cuup : AnyUeId, cucp : CucpIds,
                  granted : SUBSET [key : TunnelKey, info : Info]]
    BY <1>0, <1>3, <2>3, AnswerType DEF Causes, AnyUeId
  <2>8. phase' \in {"down", "up", "dead"}
    BY <1>3 DEF BearerInv, TypeOK
  <2>9. QED BY <2>6, <2>7, <2>8 DEF BearerInv, TypeOK, AllNoGaps
<1>4. QED BY <1>2, <1>3, ModifyValue

LEMMA MismatchKeepsInv ==
  ASSUME BearerInv, NEW q \in ModifyReqs, ModifyMismatch(q)
  PROVE  BearerInv'
<1> DEFINE m == ue_ctx_modify(ues, q.cuup)
           b == ue_ctx_rollback(tbl, m.ues, m.row)
<1>0. /\ q.cuup \in UeIds /\ q.cucp \in CucpIds /\ phase \in {"down", "up", "dead"}
      /\ tbl \in Table /\ ues \in UeTable /\ AllNoGaps(ues)
  BY Requests DEF BearerInv, TypeOK
<1> DEFINE old == m.ues.ctx[ues.hash[q.cuup]]
<1>1. /\ Known(q.cuup) /\ UeRowAvailable(ues)
      /\ \/ phase' = "dead" /\ UNCHANGED <<tbl, ues, rsp>>
         \/ /\ ~(old.used /\ Missing(old))
            /\ tbl' = b.tbl /\ ues' = b.ues
            /\ rsp' = Answer("unknown_pair", q.cuup, q.cucp, {})
            /\ phase' = phase
  BY Zenon DEF ModifyMismatch
<1>2. /\ m.row \in UeRows /\ m.ues \in UeTable /\ AllNoGaps(m.ues)
      /\ m.ues.hash[m.ues.ctx[m.row].cuup] # NoRow /\ m.ues.ctx[m.row].used
      /\ m.ues.hash[m.ues.ctx[m.row].cuup] = ues.hash[q.cuup]
  <2>1. ues.hash[q.cuup] # NoRow
    BY <1>1 DEF Known
  <2>2. /\ m.row \in UeRows /\ m.ues \in UeTable /\ AllNoGaps(m.ues)
        /\ m.ues.hash = ues.hash
        /\ m.ues.ctx[m.row].used /\ m.ues.ctx[m.row].cuup = q.cuup
    <3>1. ues \in UeTable /\ AllNoGaps(ues) /\ q.cuup \in UeIds /\ UeRowAvailable(ues)
      BY <1>0, <1>1
    <3>2. LET x == ue_ctx_modify(ues, q.cuup)
          IN  /\ x.row \in UeRows /\ x.ues \in UeTable /\ AllNoGaps(x.ues)
              /\ x.ues.hash = ues.hash
              /\ x.ues.ctx[x.row].used /\ x.ues.ctx[x.row].cuup = q.cuup
      BY <2>1, <3>1, ModifyRow
    <3>3. QED BY <3>2
  <2> HIDE DEF m
  <2>3. QED BY <2>1, <2>2
<1> HIDE DEF m
<1>3. ~(old.used /\ Missing(old)) => b.tbl \in Table /\ b.ues \in UeTable /\ AllNoGaps(b.ues)
  BY <1>0, <1>2, UeRollbackType
<1>4. Answer("unknown_pair", q.cuup, q.cucp, {}) \in
        [cause : Causes, cuup : AnyUeId, cucp : CucpIds,
         granted : SUBSET [key : TunnelKey, info : Info]]
  BY <1>0, AnswerType DEF Causes, AnyUeId
<1> HIDE DEF b, old
<1>5. QED BY <1>0, <1>1, <1>3, <1>4 DEF BearerInv, TypeOK, AllNoGaps

LEMMA ReleaseKeepsInv ==
  ASSUME BearerInv, NEW id \in ReleaseIds, ReleaseMissed(id) \/ ReleaseBearer(id)
  PROVE  BearerInv'
<1> DEFINE x == ue_ctx_remove(tbl, ues, id)
           r == ues.hash[id]
           d == ue_ctx_commit(x.tbl, x.ues, r)
<1>0. /\ id \in UeIds /\ phase \in {"down", "up", "dead"} /\ 0 \in CucpIds
      /\ tbl \in Table /\ ues \in UeTable /\ AllNoGaps(ues)
  BY Requests, IdAssumption DEF BearerInv, TypeOK
<1>1. Known(id)
  BY DEF ReleaseMissed, ReleaseBearer
<1>2. r \in UeRows /\ ues.ctx \in [UeRows -> UeCtx]
  BY <1>0, <1>1, UeFields DEF Known
<1>3. ~Missing(ues.ctx[r]) =>
        /\ x.tbl \in Table /\ x.ues \in UeTable /\ AllNoGaps(x.ues)
        /\ x.ues.ctx = [ues.ctx EXCEPT ![r] = UsedAs(@, FALSE)]
  BY <1>0, <1>1, UeRemoveType, ZenonT(40) DEF Known
<1>4. \A c \in {"release_failed", "released"} :
         Answer(c, id, 0, {}) \in [cause : Causes, cuup : AnyUeId, cucp : CucpIds,
                                   granted : SUBSET [key : TunnelKey, info : Info]]
  BY <1>0, AnswerType DEF Causes, AnyUeId
<1>5. CASE ReleaseMissed(id)
  <2>1. \/ phase' = "dead" /\ UNCHANGED <<tbl, ues, rsp>>
        \/ /\ ~Missing(ues.ctx[r])
           /\ tbl' = x.tbl /\ ues' = x.ues /\ phase' = phase
           /\ rsp' = Answer("release_failed", id, 0, {})
    BY <1>5 DEF ReleaseMissed
  <2> HIDE DEF x
  <2>2. QED BY <1>0, <1>3, <1>4, <2>1 DEF BearerInv, TypeOK, AllNoGaps
<1>6. CASE ReleaseBearer(id)
  <2>1. \/ phase' = "dead" /\ UNCHANGED <<tbl, ues, rsp>>
        \/ /\ ~Missing(ues.ctx[r]) /\ tbl' = d.tbl /\ ues' = d.ues /\ phase' = phase
           /\ \E c \in {"release_failed", "released"} : rsp' = Answer(c, id, 0, {})
    <3> HIDE DEF d
    <3>1. QED BY <1>6 DEF ReleaseBearer, d
  <2>2. CASE phase' = "dead" /\ UNCHANGED <<tbl, ues, rsp>>
    BY <2>2 DEF BearerInv, TypeOK, AllNoGaps
  <2>3. CASE /\ ~Missing(ues.ctx[r]) /\ tbl' = d.tbl /\ ues' = d.ues /\ phase' = phase
             /\ \E c \in {"release_failed", "released"} : rsp' = Answer(c, id, 0, {})
    <3>1. ~Missing(x.ues.ctx[r])
      <4>1. x.ues.ctx[r] = UsedAs(ues.ctx[r], FALSE) /\ ues.ctx[r] \in UeCtx
        BY <1>2, <1>3, <2>3
      <4> HIDE DEF x, r
      <4>2. /\ x.ues.ctx[r].pdus = ues.ctx[r].pdus
            /\ x.ues.ctx[r].pdusCount = ues.ctx[r].pdusCount
        BY <4>1, UsedAsFields, ZenonT(40)
      <4>3. QED BY <2>3, <4>2 DEF Missing
    <3> HIDE DEF x, r
    <3>2. d.tbl \in Table /\ d.ues \in UeTable /\ AllNoGaps(d.ues)
      BY <1>2, <1>3, <2>3, <3>1, UeCommitType
    <3> HIDE DEF d
    <3>3. QED BY <1>0, <1>4, <2>3, <3>2 DEF BearerInv, TypeOK, AllNoGaps
  <2>4. QED BY <2>1, <2>2, <2>3
<1>7. QED BY <1>5, <1>6

LEMMA RefusedKeepsInv ==
  ASSUME BearerInv, NEW q \in SetupReqs, FirstSetup(q) \/ SetupRefused(q)
  PROVE  BearerInv'
<1>0. /\ q.cucp \in CucpIds /\ MAX_UE_COUNT \in AnyUeId /\ phase \in {"down", "up", "dead"}
      /\ tbl \in Table /\ ues \in UeTable /\ AllNoGaps(ues)
  BY Requests DEF BearerInv, TypeOK, AnyUeId
<1>1. Answer("resource", MAX_UE_COUNT, q.cucp, {}) \in
        [cause : Causes, cuup : AnyUeId, cucp : CucpIds,
         granted : SUBSET [key : TunnelKey, info : Info]]
  BY <1>0, AnswerType DEF Causes
<1>2. ues' \in UeTable /\ AllNoGaps(ues')
  <2>1. CASE ues' = ues
    BY <1>0, <2>1
  <2>2. CASE UeIdAvailable(ues) /\ ues' = ue_ctx_id_alloc(ues).ues
    <3>1. ues' \in UeTable /\ ues'.ctx = ues.ctx
      BY <1>0, <2>2, UeIdFound
    <3>2. QED BY <1>0, <3>1 DEF AllNoGaps
  <2>3. QED BY <2>1, <2>2 DEF FirstSetup, SetupRefused
<1>3. /\ tbl' = tbl /\ phase' \in {"down", "up", "dead"}
      /\ rsp' = Answer("resource", MAX_UE_COUNT, q.cucp, {})
  BY <1>0 DEF FirstSetup, SetupRefused
<1>4. QED BY <1>0, <1>1, <1>2, <1>3 DEF BearerInv, TypeOK, AllNoGaps

LEMMA UnknownKeepsInv ==
  ASSUME BearerInv,
         \/ \E q \in ModifyReqs : ModifyUnknown(q)
         \/ \E id \in ReleaseIds : ReleaseUnknown(id)
  PROVE  BearerInv'
<1>0. 0 \in CucpIds
  BY IdAssumption
<1>1. ASSUME NEW q \in ModifyReqs, ModifyUnknown(q)
      PROVE  BearerInv'
  <2>1. q.cuup \in UeIds /\ q.cucp \in CucpIds
    BY Requests
  <2>2. Answer("unknown_id", q.cuup, q.cucp, {}) \in
          [cause : Causes, cuup : AnyUeId, cucp : CucpIds,
           granted : SUBSET [key : TunnelKey, info : Info]]
    BY <2>1, AnswerType DEF Causes, AnyUeId
  <2>3. QED BY <1>1, <2>2 DEF ModifyUnknown, BearerInv, TypeOK, AllNoGaps
<1>2. ASSUME NEW id \in ReleaseIds, ReleaseUnknown(id)
      PROVE  BearerInv'
  <2>1. Answer("release_failed", id, 0, {}) \in
          [cause : Causes, cuup : AnyUeId, cucp : CucpIds,
           granted : SUBSET [key : TunnelKey, info : Info]]
    BY <1>0, Requests, AnswerType DEF Causes, AnyUeId
  <2>2. QED BY <1>2, <2>1 DEF ReleaseUnknown, BearerInv, TypeOK, AllNoGaps
<1>3. QED BY <1>1, <1>2

LEMMA StepKeepsInv ==
  ASSUME BearerInv, [Next]_vars
  PROVE  BearerInv'
<1>1. CASE \E q \in SetupReqs : FirstSetup(q) \/ SetupRefused(q) \/ SetupBearer(q)
  BY <1>1, RefusedKeepsInv, SetupKeepsInv
<1>2. CASE \E q \in ModifyReqs : ModifyUnknown(q) \/ ModifyMismatch(q) \/ ModifyBearer(q)
  BY <1>2, UnknownKeepsInv, MismatchKeepsInv, ModifyKeepsInv
<1>3. CASE \E id \in ReleaseIds : ReleaseUnknown(id) \/ ReleaseMissed(id) \/ ReleaseBearer(id)
  BY <1>3, UnknownKeepsInv, ReleaseKeepsInv
<1>4. CASE UNCHANGED vars
  BY <1>4 DEF vars, BearerInv, TypeOK, AllNoGaps
<1>5. QED BY <1>1, <1>2, <1>3, <1>4 DEF Next

(* The inductive invariant of the handlers, whatever the requests are.     *)
THEOREM BearerInvariant == Spec => []BearerInv
<1>1. Init => BearerInv
  BY InitInv
<1>2. BearerInv /\ [Next]_vars => BearerInv'
  BY StepKeepsInv
<1>3. QED BY <1>1, <1>2, PTL DEF Spec

(* Whatever the CU-CP asks for, the handlers leave tables of the right     *)
(* type behind: no NULL or stray index is written where a row belongs, and *)
(* tunnel_commit is never called on a NULL DRB.                            *)
THEOREM BearerTypeOK == Spec => []TypeOK
<1>1. BearerInv => TypeOK
  BY DEF BearerInv
<1>2. QED BY <1>1, BearerInvariant, PTL

-----------------------------------------------------------------------------
(***************************************************************************)
(* A set-up only adds.  t0 is the table it starts from: the rows it takes  *)
(* are free in t0 and their keys are not in t0's hash, so no write of it   *)
(* can reach what t0 has in use or what t0's hash leads to.                *)
(***************************************************************************)
Adds(t0, t) ==
  /\ t \in Table
  /\ \A k \in TunnelKey : t0.hash[k] # NoRow => t.hash[k] = t0.hash[k]
  /\ \A k \in TunnelKey : t0.hash[k] = NoRow /\ t.hash[k] # NoRow => ~t0.used[t.hash[k]]
  /\ \A r \in Rows : t0.used[r] => t.used[r] /\ t.key[r] = t0.key[r] /\ t.info[r] = t0.info[r]

IsNew(t0, t, r) == r \in Rows /\ ~t0.used[r] /\ t0.hash[t.key[r]] = NoRow

(* From t to u, something is added and the new rows stay new.              *)
Goes(t0, t, u) == Adds(t0, u) /\ \A r \in Rows : IsNew(t0, t, r) => IsNew(t0, u, r)

LEMMA GoesOn ==
  ASSUME NEW t0, NEW t, NEW u, NEW v, Goes(t0, t, u), Goes(t0, u, v)
  PROVE  Goes(t0, t, v)
BY DEF Goes

LEMMA AddsLastId ==
  ASSUME NEW t0 \in Table, NEW t, Adds(t0, t), NEW i \in Rows
  PROVE  Goes(t0, t, SetLastId(t, i))
BY SetLastIdFields DEF Adds, Goes, IsNew

LEMMA AddsTaken ==
  ASSUME NEW t0 \in Table, NEW t, Adds(t0, t), NEW r \in Rows, ~t.used[r],
         NEW k \in TunnelKey, t.hash[k] = NoRow
  PROVE  Goes(t0, t, TakeRow(t, r, k)) /\ IsNew(t0, TakeRow(t, r, k), r)
<1> DEFINE u == TakeRow(t, r, k)
<1>1. t \in Table /\ ~t0.used[r] /\ t0.hash[k] = NoRow
  BY DEF Adds
<1>2. /\ u \in Table /\ u.used = [t.used EXCEPT ![r] = TRUE]
      /\ u.key = [t.key EXCEPT ![r] = k] /\ u.info = t.info /\ u.hash = t.hash
  BY <1>1, TakeRowFields
<1> HIDE DEF u
<1>3. u.key[r] = k /\ \A x \in Rows \ {r} : u.key[x] = t.key[x] /\ u.used[x] = t.used[x]
  BY <1>1, <1>2, TableFields
<1>4. Adds(t0, u)
  BY <1>1, <1>2, <1>3 DEF Adds
<1>5. IsNew(t0, u, r) /\ \A x \in Rows : IsNew(t0, t, x) => IsNew(t0, u, x)
  BY <1>1, <1>3 DEF IsNew
<1>6. QED BY <1>4, <1>5 DEF Goes, u

LEMMA AddsFill ==
  ASSUME NEW t0 \in Table, NEW t, Adds(t0, t), NEW r \in Rows, ~t0.used[r], NEW v \in Info
  PROVE  Goes(t0, t, Fill(t, r, v))
<1> DEFINE u == Fill(t, r, v)
<1>1. t \in Table
  BY DEF Adds
<1>2. /\ u \in Table /\ u.used = t.used /\ u.key = t.key /\ u.hash = t.hash
      /\ u.info = [t.info EXCEPT ![r] = v]
  BY <1>1, FillFields
<1> HIDE DEF u
<1>3. \A x \in Rows \ {r} : u.info[x] = t.info[x]
  BY <1>1, <1>2, TableFields
<1>4. QED BY <1>2, <1>3 DEF Adds, Goes, IsNew, u

LEMMA AddsFreed ==
  ASSUME NEW t0 \in Table, NEW t, Adds(t0, t), NEW r \in Rows, ~t0.used[r]
  PROVE  Goes(t0, t, SetUsed(t, r, FALSE))
<1> DEFINE u == SetUsed(t, r, FALSE)
<1>1. t \in Table
  BY DEF Adds
<1>2. /\ u \in Table /\ u.info = t.info /\ u.key = t.key /\ u.hash = t.hash
      /\ u.used = [t.used EXCEPT ![r] = FALSE]
  BY <1>1, SetUsedFields
<1> HIDE DEF u
<1>3. \A x \in Rows \ {r} : u.used[x] = t.used[x]
  BY <1>1, <1>2, TableFields
<1>4. Adds(t0, u)
  BY <1>2, <1>3 DEF Adds
<1>5. \A x \in Rows : IsNew(t0, t, x) => IsNew(t0, u, x)
  BY <1>2 DEF IsNew
<1>6. QED BY <1>4, <1>5 DEF Goes, u

LEMMA AddsHash ==
  ASSUME NEW t0 \in Table, NEW t, Adds(t0, t), NEW k \in TunnelKey, t0.hash[k] = NoRow,
         NEW r \in RowOrNull, r # NoRow => ~t0.used[r]
  PROVE  Goes(t0, t, SetHash(t, k, r))
<1> DEFINE u == SetHash(t, k, r)
<1>1. t \in Table
  BY DEF Adds
<1>2. /\ u \in Table /\ u.info = t.info /\ u.key = t.key /\ u.used = t.used
      /\ u.hash = [t.hash EXCEPT ![k] = r]
  BY <1>1, SetHashFields DEF RowOrNull
<1> HIDE DEF u
<1>3. u.hash[k] = r /\ \A x \in TunnelKey \ {k} : u.hash[x] = t.hash[x]
  BY <1>1, <1>2, TableFields
<1>4. Adds(t0, u)
  BY <1>2, <1>3 DEF Adds
<1>5. QED BY <1>2, <1>4 DEF Goes, IsNew, u

(* The pair of calls that finds a key and a row.                           *)
LEMMA AddsTakenFor ==
  ASSUME NEW t0 \in Table, NEW t, Adds(t0, t), NEW ip \in LocalIps, KeyAvailable(t, ip)
  PROVE  LET b == TakenFor(t, ip)
         IN  /\ KeyFor(t, ip) \in TunnelKey /\ t0.hash[KeyFor(t, ip)] = NoRow
             /\ b.row \in RowOrNull /\ Goes(t0, t, b.tbl)
             /\ b.row # NoRow => IsNew(t0, b.tbl, b.row)
<1> DEFINE k == KeyFor(t, ip)
           b == TakenFor(t, ip)
<1>1. t \in Table
  BY DEF Adds
<1>2. k \in TunnelKey /\ t.hash[k] = NoRow /\ b.row \in RowOrNull
  BY <1>1, TakenResult
<1>3. PICK i \in Rows :
        \/ b.row = NoRow /\ b.tbl = SetLastId(t, i)
        \/ b.row \in Rows /\ ~t.used[b.row] /\ b.tbl = TakeRow(SetLastId(t, i), b.row, k)
  BY <1>1, TakenResult
<1> HIDE DEF k, b
<1> DEFINE x == SetLastId(t, i)
<1>4. /\ Goes(t0, t, x) /\ Adds(t0, x) /\ x.used = t.used /\ x.hash = t.hash
  BY <1>1, AddsLastId, SetLastIdFields DEF Goes
<1> HIDE DEF x
<1>5. t0.hash[k] = NoRow
  BY <1>2 DEF Adds
<1>6. CASE b.row = NoRow /\ b.tbl = x
  BY <1>2, <1>4, <1>5, <1>6 DEF k, b
<1>7. CASE b.row \in Rows /\ ~t.used[b.row] /\ b.tbl = TakeRow(x, b.row, k)
  <2>1. Goes(t0, x, b.tbl) /\ IsNew(t0, b.tbl, b.row)
    BY <1>2, <1>4, <1>7, AddsTaken
  <2>2. Goes(t0, t, b.tbl)
    BY <1>4, <2>1, GoesOn
  <2>3. QED BY <1>2, <1>5, <2>1, <2>2 DEF k, b
<1>8. QED BY <1>3, <1>6, <1>7 DEF x

LEMMA AddsRemove ==
  ASSUME NEW t0 \in Table, NEW t, Adds(t0, t), NEW k \in TunnelKey, t0.hash[k] = NoRow
  PROVE  Goes(t0, t, tunnel_remove(t, k))
<1>1. t \in Table /\ t.hash[k] \in Rows \union {NoRow}
  BY TableFields DEF Adds
<1>2. CASE t.hash[k] = NoRow
  BY <1>2 DEF tunnel_remove, Goes
<1>3. CASE t.hash[k] # NoRow
  <2>1. ~t0.used[t.hash[k]]
    BY <1>3 DEF Adds
  <2>2. QED BY <1>1, <1>3, <2>1, AddsFreed DEF tunnel_remove
<1>4. QED BY <1>2, <1>3

LEMMA AddsCommit ==
  ASSUME NEW t0 \in Table, NEW t, Adds(t0, t), NEW r, IsNew(t0, t, r)
  PROVE  Goes(t0, t, tunnel_commit(t, r))
<1> DEFINE k == t.key[r]
           e == t.hash[k]
           x == SetUsed(t, e, FALSE)
<1>1. /\ t \in Table /\ r \in Rows /\ ~t0.used[r] /\ t0.hash[k] = NoRow
      /\ k \in TunnelKey /\ e \in Rows \union {NoRow} /\ r \in RowOrNull /\ NoRow \in RowOrNull
  BY TableFields DEF Adds, IsNew, RowOrNull
<1>2. e # NoRow => ~t0.used[e]
  BY <1>1 DEF Adds
<1>3. tunnel_commit(t, r) = IF e = NoRow THEN SetHash(t, k, r)
                            ELSE IF e # r THEN SetHash(x, k, r)
                            ELSE IF t.used[r] THEN t ELSE SetHash(t, k, NoRow)
  BY Zenon DEF tunnel_commit
<1> HIDE DEF k, e, x
<1>4. Goes(t0, t, SetHash(t, k, r)) /\ Goes(t0, t, SetHash(t, k, NoRow)) /\ Goes(t0, t, t)
  BY <1>1, AddsHash DEF Goes
<1>5. e # NoRow => Goes(t0, t, SetHash(x, k, r))
  <2> SUFFICES ASSUME e # NoRow PROVE Goes(t0, t, SetHash(x, k, r))
    OBVIOUS
  <2>1. Goes(t0, t, x)
    BY <1>1, <1>2, AddsFreed DEF x
  <2>2. Goes(t0, x, SetHash(x, k, r))
    BY <1>1, <2>1, AddsHash DEF Goes
  <2>3. QED BY <2>1, <2>2, GoesOn
<1>6. QED BY <1>3, <1>4, <1>5

-----------------------------------------------------------------------------
(***************************************************************************)
(* The same of a handler in progress: every row its context lists is new,  *)
(* and so is every key it announces.                                       *)
(***************************************************************************)
ListsNew(t0, w) ==
  /\ w \in Works /\ Adds(t0, w.tbl)
  /\ \A i \in 1 .. w.ctx.drbCount : IsNew(t0, w.tbl, w.ctx.drb[i])
  /\ \A i \in 1 .. w.ctx.pdusCount : IsNew(t0, w.tbl, w.ctx.pdus[i])
  /\ \A g \in w.granted : t0.hash[g.key] = NoRow

LEMMA ListsNewTable ==
  ASSUME NEW t0, NEW w, ListsNew(t0, w), NEW s \in Works, Goes(t0, w.tbl, s.tbl),
         s.ctx = w.ctx, s.granted = w.granted
  PROVE  ListsNew(t0, s)
<1>1. w.ctx \in UeCtx /\ Adds(t0, s.tbl)
  BY WorkFields DEF ListsNew, Goes
<1>2. \A i \in 1 .. s.ctx.drbCount : IsNew(t0, s.tbl, s.ctx.drb[i])
  <2> SUFFICES ASSUME NEW i \in 1 .. w.ctx.drbCount
               PROVE  IsNew(t0, s.tbl, w.ctx.drb[i])
    OBVIOUS
  <2>1. IsNew(t0, w.tbl, w.ctx.drb[i])
    BY DEF ListsNew
  <2>2. QED BY <2>1 DEF Goes, IsNew
<1>3. \A i \in 1 .. s.ctx.pdusCount : IsNew(t0, s.tbl, s.ctx.pdus[i])
  <2> SUFFICES ASSUME NEW i \in 1 .. w.ctx.pdusCount
               PROVE  IsNew(t0, s.tbl, w.ctx.pdus[i])
    OBVIOUS
  <2>1. IsNew(t0, w.tbl, w.ctx.pdus[i])
    BY DEF ListsNew
  <2>2. QED BY <2>1 DEF Goes, IsNew
<1>4. QED BY <1>1, <1>2, <1>3 DEF ListsNew

LEMMA DrbSetupAdds ==
  ASSUME NEW t0 \in Table, NEW w, ListsNew(t0, w), NEW id \in DrbIds
  PROVE  ListsNew(t0, drb_setup(w, id)) /\ Goes(t0, w.tbl, drb_setup(w, id).tbl)
<1> DEFINE k == KeyFor(w.tbl, F1uIp)
           b == TakenFor(w.tbl, F1uIp)
           s == drb_setup(w, id)
           v == Cell(b.tbl, b.row, id)
<1>1. /\ w \in Works /\ w.tbl \in Table /\ w.ctx \in UeCtx /\ NoGaps(w.ctx)
      /\ Adds(t0, w.tbl) /\ F1uIp \in LocalIps /\ s \in Works
  BY WorkFields, IdAssumption, DrbSetupType DEF ListsNew
<1>2. KeyAvailable(w.tbl, F1uIp) =>
        /\ k \in TunnelKey /\ t0.hash[k] = NoRow
        /\ b.row \in RowOrNull /\ Goes(t0, w.tbl, b.tbl)
        /\ b.row # NoRow => IsNew(t0, b.tbl, b.row)
  BY <1>1, AddsTakenFor
<1>3. \/ s = w
      \/ KeyAvailable(w.tbl, F1uIp) /\ s = [w EXCEPT !.tbl = b.tbl]
      \/ /\ KeyAvailable(w.tbl, F1uIp) /\ b.row # NoRow
         /\ DrbAdded(w, s, k, b.row, b.tbl, id)
  BY <1>1, DrbSetupCases
<1> HIDE DEF k, b, s, v
<1>4. CASE s = w
  <2>1. Goes(t0, w.tbl, w.tbl)
    BY <1>1 DEF Goes
  <2>2. QED BY <1>4, <2>1 DEF s
<1>5. CASE KeyAvailable(w.tbl, F1uIp) /\ s = [w EXCEPT !.tbl = b.tbl]
  <2>1. b.tbl \in Table
    BY <1>2, <1>5 DEF Goes, Adds
  <2>2. s.tbl = b.tbl /\ s.ctx = w.ctx /\ s.granted = w.granted
    BY <1>1, <1>5, <2>1, WriteTbl
  <2>3. Goes(t0, w.tbl, s.tbl)
    BY <1>2, <1>5, <2>2
  <2>4. QED BY <1>1, <2>2, <2>3, ListsNewTable DEF s
<1>6. CASE /\ KeyAvailable(w.tbl, F1uIp) /\ b.row # NoRow
           /\ DrbAdded(w, s, k, b.row, b.tbl, id)
  <2> DEFINE u == Fill(b.tbl, b.row, v)
             d == DrbOn(w.ctx, b.row)
             g == w.granted \union {Grant(k, Told(v))}
  <2>1. /\ b.row \in Rows /\ v \in Info /\ Told(v) \in Info
        /\ w.ctx.drbCount # MAX_DRB_PER_UE
    <3>1. b.row \in Rows /\ b.tbl \in Table
      BY <1>2, <1>6 DEF RowOrNull, Goes, Adds
    <3>2. v \in Info /\ Told(v) \in Info
      BY <3>1, CellType DEF v
    <3>3. QED BY <1>6, <3>1, <3>2 DEF DrbAdded
  <2>2. Adds(t0, b.tbl) /\ b.tbl \in Table /\ ~t0.used[b.row]
    BY <1>2, <1>6 DEF Goes, Adds, IsNew
  <2>3. Goes(t0, b.tbl, u) /\ u \in Table
    <3>1. Goes(t0, b.tbl, u)
      BY <2>1, <2>2, AddsFill
    <3>2. QED BY <3>1 DEF Goes, Adds
  <2>4. /\ d \in UeCtx /\ NoGaps(d) /\ d.drb = [w.ctx.drb EXCEPT ![w.ctx.drbCount + 1] = b.row]
        /\ d.drbCount = w.ctx.drbCount + 1 /\ d.drbCount \in 1 .. MAX_DRB_PER_UE
        /\ d.pdus = w.ctx.pdus /\ d.pdusCount = w.ctx.pdusCount
    BY <1>1, <2>1, DrbListed
  <2>5. g \in SUBSET Grants
    BY <1>1, <1>2, <1>6, <2>1, WorkFields DEF Grant, Grants
  <2>6. s = Written(w, u, d, g)
    BY <1>6 DEF DrbAdded, v
  <2> HIDE DEF u, d, g
  <2>7. s.tbl = u /\ s.ctx = d /\ s.granted = g
    BY <1>1, <2>3, <2>4, <2>5, <2>6, WrittenFields
  <2>8. Goes(t0, w.tbl, u)
    BY <1>2, <1>6, <2>3, GoesOn
  <2>9. IsNew(t0, u, b.row)
    BY <1>2, <1>6, <2>1, <2>3 DEF Goes
  <2>10. \A i \in 1 .. s.ctx.drbCount : IsNew(t0, s.tbl, s.ctx.drb[i])
    <3> SUFFICES ASSUME NEW i \in 1 .. d.drbCount
                 PROVE  IsNew(t0, u, d.drb[i])
      BY <2>7
    <3>1. CASE i = d.drbCount
      <4>1. d.drb[i] = b.row
        BY <1>1, <2>4, <3>1, CtxFields
      <4>2. QED BY <2>9, <4>1
    <3>2. CASE i # d.drbCount
      <4>1. i \in 1 .. w.ctx.drbCount /\ d.drb[i] = w.ctx.drb[i]
        BY <1>1, <2>4, <3>2, CtxFields
      <4>2. IsNew(t0, w.tbl, w.ctx.drb[i])
        BY <4>1 DEF ListsNew
      <4>3. IsNew(t0, u, w.ctx.drb[i])
        BY <2>8, <4>2 DEF Goes, IsNew
      <4>4. QED BY <4>1, <4>3
    <3>3. QED BY <3>1, <3>2
  <2>11. \A i \in 1 .. s.ctx.pdusCount : IsNew(t0, s.tbl, s.ctx.pdus[i])
    <3> SUFFICES ASSUME NEW i \in 1 .. w.ctx.pdusCount
                 PROVE  IsNew(t0, u, w.ctx.pdus[i])
      BY <2>4, <2>7
    <3>1. IsNew(t0, w.tbl, w.ctx.pdus[i])
      BY DEF ListsNew
    <3>2. QED BY <2>8, <3>1 DEF Goes, IsNew
  <2>12. \A x \in s.granted : t0.hash[x.key] = NoRow
    <3>1. Grant(k, Told(v)).key = k
      BY DEF Grant
    <3>2. QED BY <1>2, <1>6, <2>7, <3>1 DEF ListsNew, g
  <2>13. ListsNew(t0, s)
    BY <1>1, <2>7, <2>8, <2>10, <2>11, <2>12 DEF ListsNew, Goes
  <2>14. QED BY <2>7, <2>8, <2>13 DEF s
<1>7. QED BY <1>3, <1>4, <1>5, <1>6

(* Over the DRBs of a session, with the row of the session itself.         *)
LEMMA DrbsSetupAdds ==
  ASSUME NEW t0 \in Table, NEW w, ListsNew(t0, w), NEW ids \in Seq(DrbIds), NEW r,
         IsNew(t0, w.tbl, r)
  PROVE  LET s == FoldLeft(drb_setup, w, ids)
         IN  ListsNew(t0, s) /\ IsNew(t0, s.tbl, r)
<1> DEFINE T == {x \in Works : ListsNew(t0, x) /\ IsNew(t0, x.tbl, r)}
<1>1. w \in T
  BY DEF ListsNew
<1>2. ASSUME NEW x \in T, NEW i \in 1 .. Len(ids)
      PROVE  drb_setup(x, ids[i]) \in T
  <2>1. ids[i] \in DrbIds /\ ListsNew(t0, x) /\ IsNew(t0, x.tbl, r)
    BY <1>2
  <2>2. ListsNew(t0, drb_setup(x, ids[i])) /\ Goes(t0, x.tbl, drb_setup(x, ids[i]).tbl)
    BY <2>1, DrbSetupAdds
  <2>3. IsNew(t0, drb_setup(x, ids[i]).tbl, r)
    BY <2>1, <2>2 DEF Goes, IsNew
  <2>4. QED BY <2>2, <2>3 DEF ListsNew
<1> HIDE DEF T
<1>3. FoldLeft(drb_setup, w, ids) \in T
  BY <1>1, <1>2, DrbFold
<1>4. QED BY <1>3 DEF T

LEMMA SessionAdds ==
  ASSUME NEW t0 \in Table, NEW w, ListsNew(t0, w), NEW q \in SessionReq, NEW row,
         IsNew(t0, w.tbl, row), NEW key \in TunnelKey, t0.hash[key] = NoRow,
         w.ctx.pdusCount # MAX_PDUS_PER_UE
  PROVE  ListsNew(t0, SessionSetup(w, q, key, row))
<1> DEFINE f == Filled(w, row, q)
           s == DrbsDone(w, row, q)
           r == SessionSetup(w, q, key, row)
           v == PdusInfo(q.id)
<1>1. /\ w \in Works /\ row \in Rows /\ ~t0.used[row] /\ r \in Works
      /\ v \in Info /\ q.drbs \in Seq(DrbIds) /\ Adds(t0, w.tbl)
  <2>1. w \in Works /\ row \in Rows /\ ~t0.used[row] /\ Adds(t0, w.tbl)
    BY DEF ListsNew, IsNew
  <2>2. v \in Info /\ q.drbs \in Seq(DrbIds)
    BY ContentAssumption DEF SessionReq, PdusInfo
  <2>3. QED BY <2>1, <2>2, SessionType
<1>2. /\ f \in Works /\ f.ctx = w.ctx /\ f.tbl = Fill(w.tbl, row, v)
      /\ f.granted = w.granted /\ s \in Works /\ SameSessions(w, s)
      /\ \/ r = [s EXCEPT !.dead = TRUE]
         \/ r = [s EXCEPT !.tbl = tunnel_commit(tunnel_remove(s.tbl, key), row)]
         \/ r = Written(s, s.tbl, PdusOn(s.ctx, s.ctx.pdusCount, row),
                        s.granted \union {Grant(key, v)})
  BY <1>1, SessionCases, ZenonT(40)
<1>3. ListsNew(t0, f) /\ IsNew(t0, f.tbl, row)
  <2>1. Goes(t0, w.tbl, f.tbl)
    BY <1>1, <1>2, AddsFill
  <2> HIDE DEF f
  <2>2. QED BY <1>1, <1>2, <2>1, ListsNewTable DEF Goes
<1>4. ListsNew(t0, s) /\ IsNew(t0, s.tbl, row)
  BY <1>1, <1>3, DrbsSetupAdds DEF DrbsDone
<1>5. s.tbl \in Table /\ s.ctx \in UeCtx /\ NoGaps(s.ctx) /\ s.granted \in SUBSET Grants
  BY <1>2, WorkFields
<1> HIDE DEF f, s, r, v
<1>6. CASE r = [s EXCEPT !.tbl = tunnel_commit(tunnel_remove(s.tbl, key), row)]
  <2> DEFINE x == tunnel_remove(s.tbl, key)
             y == tunnel_commit(x, row)
  <2>1. Goes(t0, s.tbl, x)
    BY <1>4, AddsRemove DEF ListsNew
  <2>2. Adds(t0, x) /\ IsNew(t0, x, row)
    BY <1>1, <1>4, <2>1 DEF Goes
  <2> HIDE DEF x
  <2>3. Goes(t0, x, y)
    BY <2>2, AddsCommit
  <2>4. Goes(t0, s.tbl, y) /\ y \in Table
    BY <2>1, <2>3, GoesOn DEF Goes, Adds
  <2>5. r = [s EXCEPT !.tbl = y]
    BY <1>6 DEF x
  <2> HIDE DEF y
  <2>6. r.tbl = y /\ r.ctx = s.ctx /\ r.granted = s.granted
    BY <1>2, <2>4, <2>5, WriteTbl
  <2>7. ListsNew(t0, r)
    BY <1>1, <1>4, <2>4, <2>6, ListsNewTable
  <2>8. QED BY <2>7 DEF r
<1>7. CASE r = Written(s, s.tbl, PdusOn(s.ctx, s.ctx.pdusCount, row),
                       s.granted \union {Grant(key, v)})
  <2> DEFINE d == PdusOn(s.ctx, s.ctx.pdusCount, row)
             g == s.granted \union {Grant(key, v)}
  <2>1. s.ctx.pdusCount \in Nat /\ s.ctx.pdusCount < MAX_PDUS_PER_UE
    <3>1. s.ctx.pdusCount \in 0 .. MAX_PDUS_PER_UE /\ MAX_PDUS_PER_UE \in Nat
      BY <1>5, CtxFields
    <3>2. s.ctx.pdusCount # MAX_PDUS_PER_UE
      BY <1>2 DEF SameSessions
    <3>3. QED BY <3>1, <3>2
  <2>2. /\ d \in UeCtx /\ NoGaps(d)
        /\ d.pdus = [s.ctx.pdus EXCEPT ![s.ctx.pdusCount + 1] = row]
        /\ d.pdusCount = s.ctx.pdusCount + 1
        /\ d.drb = s.ctx.drb /\ d.drbCount = s.ctx.drbCount
    BY <1>1, <1>5, <2>1, PdusListed
  <2>3. g \in SUBSET Grants
    BY <1>1, <1>5 DEF Grant, Grants
  <2> HIDE DEF d, g
  <2>4. r.tbl = s.tbl /\ r.ctx = d /\ r.granted = g
    BY <1>2, <1>5, <1>7, <2>2, <2>3, WrittenFields DEF d, g
  <2>5. \A i \in 1 .. r.ctx.drbCount : IsNew(t0, r.tbl, r.ctx.drb[i])
    BY <1>4, <2>2, <2>4 DEF ListsNew
  <2>6. \A i \in 1 .. r.ctx.pdusCount : IsNew(t0, r.tbl, r.ctx.pdus[i])
    <3> SUFFICES ASSUME NEW i \in 1 .. d.pdusCount
                 PROVE  IsNew(t0, s.tbl, d.pdus[i])
      BY <2>4
    <3>1. CASE i = d.pdusCount
      <4>1. d.pdus[i] = row
        BY <1>5, <2>1, <2>2, <3>1, CtxFields
      <4>2. QED BY <1>4, <4>1
    <3>2. CASE i # d.pdusCount
      <4>1. i \in 1 .. s.ctx.pdusCount /\ d.pdus[i] = s.ctx.pdus[i]
        BY <1>5, <2>1, <2>2, <3>2, CtxFields
      <4>2. QED BY <1>4, <4>1 DEF ListsNew
    <3>3. QED BY <3>1, <3>2
  <2>7. \A x \in r.granted : t0.hash[x.key] = NoRow
    <3>1. Grant(key, v).key = key
      BY DEF Grant
    <3>2. QED BY <1>4, <2>4, <3>1 DEF ListsNew, g
  <2>8. ListsNew(t0, r)
    BY <1>1, <1>4, <2>4, <2>5, <2>6, <2>7 DEF ListsNew, r
  <2>9. QED BY <2>8 DEF r
<1>9. CASE r = [s EXCEPT !.dead = TRUE]
  <2>1. r.tbl = s.tbl /\ r.ctx = s.ctx /\ r.granted = s.granted
    BY <1>2, <1>9, WriteDead
  <2>2. Goes(t0, s.tbl, s.tbl)
    BY <1>4 DEF ListsNew, Goes
  <2>3. ListsNew(t0, r)
    BY <1>1, <1>4, <2>1, <2>2, ListsNewTable DEF r
  <2>4. QED BY <2>3 DEF r
<1>8. QED BY <1>2, <1>6, <1>7, <1>9 DEF r, s, v

LEMMA PdusSetupAdds ==
  ASSUME NEW t0 \in Table, NEW w, ListsNew(t0, w), NEW q \in SessionReq
  PROVE  ListsNew(t0, pdus_setup(w, q))
<1> DEFINE k == KeyFor(w.tbl, q.ip)
           b == TakenFor(w.tbl, q.ip)
           s == pdus_setup(w, q)
<1>1. w \in Works /\ w.tbl \in Table /\ Adds(t0, w.tbl)
  BY WorkFields DEF ListsNew
<1>2. ASSUME q.ip \in LocalIps, KeyAvailable(w.tbl, q.ip)
      PROVE  /\ k \in TunnelKey /\ t0.hash[k] = NoRow
             /\ b.row \in RowOrNull /\ Goes(t0, w.tbl, b.tbl) /\ b.tbl \in Table
             /\ b.row # NoRow => IsNew(t0, b.tbl, b.row)
  <2>1. /\ k \in TunnelKey /\ t0.hash[k] = NoRow
        /\ b.row \in RowOrNull /\ Goes(t0, w.tbl, b.tbl)
        /\ b.row # NoRow => IsNew(t0, b.tbl, b.row)
    BY <1>1, <1>2, AddsTakenFor
  <2>2. b.tbl \in Table
    BY <2>1 DEF Goes, Adds
  <2>3. QED BY <2>1, <2>2
<1>3. \/ s = [w EXCEPT !.dead = TRUE]
      \/ s = w
      \/ /\ q.ip \in LocalIps /\ KeyAvailable(w.tbl, q.ip)
         /\ s = [w EXCEPT !.tbl = b.tbl] \/ (b.row # NoRow /\ PdusTried(w, s, q))
  BY <1>1, PdusSetupCases
<1>4. CASE s = [w EXCEPT !.dead = TRUE]
  <2>1. [w EXCEPT !.dead = TRUE] \in Works /\ Goes(t0, w.tbl, w.tbl)
    BY <1>1, WriteDead DEF Goes
  <2> DEFINE x == [w EXCEPT !.dead = TRUE]
  <2>2. x \in Works /\ x.tbl = w.tbl /\ x.ctx = w.ctx /\ x.granted = w.granted
    BY <1>1, WriteDead
  <2> HIDE DEF x
  <2>3. ListsNew(t0, x)
    BY <2>1, <2>2, ListsNewTable
  <2>4. QED BY <1>4, <2>3 DEF x
<1>5. CASE s = w
  BY <1>5
<1> DEFINE x == [w EXCEPT !.tbl = b.tbl]
<1>6. ASSUME q.ip \in LocalIps, KeyAvailable(w.tbl, q.ip)
      PROVE  x \in Works /\ x.tbl = b.tbl /\ x.ctx = w.ctx /\ ListsNew(t0, x)
  <2>1. Goes(t0, w.tbl, b.tbl) /\ b.tbl \in Table
    BY <1>2, <1>6
  <2> HIDE DEF b
  <2>2. x \in Works /\ x.tbl = b.tbl /\ x.ctx = w.ctx /\ x.granted = w.granted
    BY <1>1, <2>1, WriteTbl
  <2> HIDE DEF x
  <2>3. QED BY <2>1, <2>2, ListsNewTable
<1> HIDE DEF b, k, x
<1>7. CASE q.ip \in LocalIps /\ KeyAvailable(w.tbl, q.ip) /\ s = x
  BY <1>6, <1>7
<1>8. CASE q.ip \in LocalIps /\ KeyAvailable(w.tbl, q.ip) /\ b.row # NoRow /\ PdusTried(w, s, q)
  <2>1. s = SessionSetup(x, q, k, b.row) /\ x.ctx.pdusCount # MAX_PDUS_PER_UE
    BY <1>6, <1>8 DEF PdusTried, b, k, x
  <2>2. ListsNew(t0, x) /\ IsNew(t0, x.tbl, b.row) /\ k \in TunnelKey /\ t0.hash[k] = NoRow
    BY <1>2, <1>6, <1>8
  <2> HIDE DEF s
  <2>3. ListsNew(t0, s)
    BY <2>1, <2>2, SessionAdds
  <2>4. QED BY <2>3 DEF s
<1>9. QED BY <1>3, <1>4, <1>5, <1>7, <1>8 DEF x

LEMMA SessionsSetupAdds ==
  ASSUME NEW t0 \in Table, NEW w, ListsNew(t0, w), NEW list \in Seq(SessionReq)
  PROVE  ListsNew(t0, FoldLeft(pdus_setup, w, list))
<1> DEFINE T == {x \in Works : ListsNew(t0, x)}
<1>1. w \in T
  BY DEF ListsNew
<1>2. ASSUME NEW x \in T, NEW i \in 1 .. Len(list)
      PROVE  pdus_setup(x, list[i]) \in T
  <2>1. list[i] \in SessionReq /\ ListsNew(t0, x)
    BY <1>2
  <2>2. ListsNew(t0, pdus_setup(x, list[i]))
    BY <2>1, PdusSetupAdds
  <2>3. QED BY <2>2 DEF ListsNew
<1> HIDE DEF T
<1>3. FoldLeft(pdus_setup, w, list) \in T
  BY <1>1, <1>2, PdusFold
<1>4. QED BY <1>3 DEF T

(* Committing a list of new rows.                                          *)
LEMMA CommitListAdds ==
  ASSUME NEW t0 \in Table, NEW t, Adds(t0, t), NEW m \in Nat,
         NEW list \in [1 .. m -> RowOrNull], NEW n \in 0 .. m,
         \A i \in 1 .. n : IsNew(t0, t, list[i])
  PROVE  Goes(t0, t, CommitList(t, list, n).tbl)
<1> DEFINE States == [tbl : {u \in Table : Goes(t0, t, u)}, list : [1 .. m -> RowOrNull]]
           T == [i \in 0 .. n |-> {s \in States : \A j \in i + 1 .. n : s.list[j] = list[j]}]
           s0 == [tbl |-> t, list |-> list]
<1>0. n \in Nat
  OBVIOUS
<1>1. s0 \in T[0]
  <2>1. t \in Table /\ Goes(t0, t, t)
    BY DEF Adds, Goes
  <2>2. QED BY <2>1
<1>2. \A i \in 1 .. n : T[i - 1] \subseteq T[i]
  <2> SUFFICES ASSUME NEW i \in 1 .. n, NEW s \in T[i - 1] PROVE s \in T[i]
    OBVIOUS
  <2>1. i - 1 \in 0 .. n /\ i \in 0 .. n /\ \A j \in i + 1 .. n : j \in (i - 1) + 1 .. n
    OBVIOUS
  <2>2. QED BY <2>1
<1>3. ASSUME NEW i \in 1 .. n, NEW s \in T[i - 1]
      PROVE  CommitOne(s, i) \in T[i]
  <2>1. /\ i - 1 \in 0 .. n /\ i \in 0 .. n /\ i \in (i - 1) + 1 .. n /\ i \in 1 .. m
        /\ \A j \in i + 1 .. n : j \in (i - 1) + 1 .. n /\ j # i /\ j \in 1 .. m
    OBVIOUS
  <2>2. s \in States /\ \A j \in (i - 1) + 1 .. n : s.list[j] = list[j]
    BY <2>1
  <2>3. Goes(t0, t, s.tbl) /\ s.list \in [1 .. m -> RowOrNull] /\ s.list[i] = list[i]
    BY <2>1, <2>2
  <2>4. IsNew(t0, s.tbl, list[i]) /\ Adds(t0, s.tbl)
    BY <2>3 DEF Goes, IsNew
  <2> DEFINE c == tunnel_commit(s.tbl, s.list[i])
             l == IF c.used[s.list[i]] THEN s.list ELSE [s.list EXCEPT ![i] = NoRow]
  <2>5. Goes(t0, s.tbl, c)
    BY <2>3, <2>4, AddsCommit
  <2>6. Goes(t0, t, c) /\ c \in Table
    BY <2>3, <2>5, GoesOn DEF Goes, Adds
  <2>7. CommitOne(s, i) = [tbl |-> c, list |-> l]
    BY DEF CommitOne
  <2> HIDE DEF c
  <2>8. l \in [1 .. m -> RowOrNull] /\ \A j \in i + 1 .. n : l[j] = list[j]
    BY <2>1, <2>2, <2>3 DEF RowOrNull
  <2> HIDE DEF l
  <2>9. QED BY <2>1, <2>6, <2>7, <2>8
<1>4. T[n] \subseteq States
  BY <1>0
<1> HIDE DEF T, s0
<1>5. PICK f : CommitLine(f, T, s0, n)
  <2>1. \A i \in 1 .. n : \A s \in T[i - 1] : CommitOne(s, i) \in T[i]
    BY <1>3
  <2>2. QED BY <1>0, <1>1, <1>2, <2>1, CommitFold, Zenon
<1>6. CommitList(t, list, n) \in States
  <2>1. f[n] \in T[n]
    BY <1>0, <1>5 DEF CommitLine
  <2>2. QED BY <1>4, <1>5, <2>1 DEF CommitList, CommitLine, s0
<1>7. QED BY <1>6

LEMMA PdusCommittedAdds ==
  ASSUME NEW t0 \in Table, NEW w, ListsNew(t0, w)
  PROVE  Goes(t0, w.tbl, PdusCommitted(w.tbl, w.ctx).tbl)
<1> DEFINE t == w.tbl
           c == w.ctx
           d == DrbsCommitted(t, c).tbl
<1>1. /\ c \in UeCtx /\ Adds(t0, t)
      /\ c.pdusCount \in 0 .. MAX_PDUS_PER_UE /\ c.drbCount \in 0 .. MAX_DRB_PER_UE
      /\ c.pdus \in [1 .. MAX_PDUS_PER_UE -> RowOrNull]
      /\ c.drb \in [1 .. MAX_DRB_PER_UE -> RowOrNull]
      /\ MAX_PDUS_PER_UE \in Nat /\ MAX_DRB_PER_UE \in Nat
  BY WorkFields, CtxFields DEF ListsNew
<1>2. /\ \A i \in 1 .. c.drbCount : IsNew(t0, t, c.drb[i])
      /\ \A i \in 1 .. c.pdusCount : IsNew(t0, t, c.pdus[i])
  BY DEF ListsNew
<1> HIDE DEF t, c, d
<1>3. Goes(t0, t, d)
  BY <1>1, <1>2, CommitListAdds DEF DrbsCommitted, d
<1>4. Adds(t0, d) /\ \A i \in 1 .. c.pdusCount : IsNew(t0, d, c.pdus[i])
  <2> SUFFICES ASSUME NEW i \in 1 .. c.pdusCount PROVE IsNew(t0, d, c.pdus[i])
    BY <1>3 DEF Goes
  <2>1. IsNew(t0, t, c.pdus[i])
    BY <1>2
  <2>2. QED BY <1>3, <2>1 DEF Goes, IsNew
<1>5. Goes(t0, d, PdusCommitted(t, c).tbl)
  BY <1>1, <1>4, CommitListAdds DEF PdusCommitted, d
<1>6. QED BY <1>3, <1>5, GoesOn DEF t, c

(* The whole of a set-up.                                                  *)
LEMMA SetupDoneAdds ==
  ASSUME BearerInv, NEW q \in SetupReqs, SetupBearer(q), phase' = "up"
  PROVE  Adds(tbl, tbl') /\ \A g \in rsp'.granted : tbl.hash[g.key] = NoRow
<1> DEFINE c == Fresh(NewRow(ues).ues.ctx[NewRow(ues).row], q.cucp)
           w0 == Work(tbl, c)
           w == SetupWork(q)
           b == NewRow(ues)
<1>1. tbl \in Table /\ ues \in UeTable /\ AllNoGaps(ues)
      /\ q.cucp \in CucpIds /\ q.pdus \in Seq(SessionReq)
  BY Requests DEF BearerInv, TypeOK
<1>2. /\ phase = "up" /\ UeIdAvailable(ues) /\ UeRowAvailable(ues)
      /\ tbl' = SetupDone(q).tbl
      /\ rsp' = IF w.ctx.pdusCount = 0
                THEN Answer("unspecified", w.ctx.cucp, q.cucp, {})
                ELSE Answer("success", ue_ctx_id_alloc(ues).id, q.cucp, w.granted)
  BY SetupValue
<1>3. /\ c \in UeCtx /\ NoGaps(c) /\ c.pdusCount = 0 /\ c.drbCount = 0
      /\ b.row \in UeRows /\ b.ues \in UeTable
  BY <1>1, <1>2, NewRowResult, FreshFields
<1> HIDE DEF c, b
<1>4. ListsNew(tbl, w0)
  <2>1. w0 \in Works /\ w0.tbl = tbl /\ w0.ctx = c /\ w0.granted = {}
    BY <1>1, <1>3, WorkType
  <2> HIDE DEF w0
  <2>2. Adds(tbl, tbl)
    BY <1>1 DEF Adds
  <2>3. QED BY <1>3, <2>1, <2>2 DEF ListsNew
<1>5. ListsNew(tbl, w)
  BY <1>1, <1>4, SessionsSetupAdds DEF SetupWork, c
<1> HIDE DEF w
<1>6. tbl' = PdusCommitted(w.tbl, w.ctx).tbl
  <2>1. w.ctx \in UeCtx
    BY <1>5, WorkFields DEF ListsNew
  <2>2. SetCtx(b.ues, b.row, w.ctx).ctx[b.row] = w.ctx
    <3>1. b.ues.ctx \in [UeRows -> UeCtx]
      BY <1>3, UeFields
    <3>2. SetCtx(b.ues, b.row, w.ctx).ctx = [b.ues.ctx EXCEPT ![b.row] = w.ctx]
      BY <1>3, <2>1, SetCtxFields
    <3>3. QED BY <1>3, <3>1, <3>2
  <2>3. tbl' = ue_ctx_commit(w.tbl, SetCtx(b.ues, b.row, w.ctx), b.row).tbl
    BY <1>2 DEF SetupDone, w, b
  <2>4. QED BY <2>2, <2>3, UeCommitValue
<1>7. Goes(tbl, w.tbl, PdusCommitted(w.tbl, w.ctx).tbl)
  BY <1>1, <1>5, PdusCommittedAdds
<1>8. \A g \in rsp'.granted : tbl.hash[g.key] = NoRow
  <2>1. rsp'.granted = {} \/ rsp'.granted = w.granted
    BY <1>2 DEF Answer
  <2>2. QED BY <1>5, <2>1 DEF ListsNew
<1>9. QED BY <1>6, <1>7, <1>8 DEF Goes

(* Whatever came before, a set-up only adds: every key a worker can find   *)
(* leads where it led, no row in use is touched, and every key announced   *)
(* to the CU-CP is one that led nowhere.  The rows a set-up takes are free *)
(* in the table it starts from, and it writes to no others (see Adds).     *)
THEOREM SetupAdds == Spec => SetupOnlyAdds
<1> DEFINE A == (\E q \in SetupReqs : SetupBearer(q)) /\ phase' = "up" =>
                  /\ \A k \in TunnelKey : tbl.hash[k] # NoRow => tbl'.hash[k] = tbl.hash[k]
                  /\ \A r \in Rows : tbl.used[r] =>
                       tbl'.used[r] /\ tbl'.key[r] = tbl.key[r] /\ tbl'.info[r] = tbl.info[r]
                  /\ \A g \in rsp'.granted : tbl.hash[g.key] = NoRow
<1>1. BearerInv /\ [Next]_vars => [A]_vars
  <2> SUFFICES ASSUME BearerInv, NEW q \in SetupReqs, SetupBearer(q), phase' = "up"
               PROVE  A
    OBVIOUS
  <2>1. Adds(tbl, tbl') /\ \A g \in rsp'.granted : tbl.hash[g.key] = NoRow
    BY SetupDoneAdds
  <2>2. QED BY <2>1 DEF Adds
<1> HIDE DEF A
<1>2. Spec => [][A]_vars
  BY <1>1, BearerInvariant, PTL DEF Spec
<1>3. QED BY <1>2 DEF SetupOnlyAdds, A

-----------------------------------------------------------------------------
(***************************************************************************)
(* UE ids and contexts, for every list of changes in the requests, as long *)
(* as no context is released.  The work on a context's tunnels leaves it   *)
(* the UE's it was.                                                        *)
(***************************************************************************)
SameUe(w, s) == s.ctx.used = w.ctx.used /\ s.ctx.cuup = w.ctx.cuup

LEMMA SameUeOn ==
  ASSUME NEW w, NEW s, NEW x, SameUe(w, s), SameUe(s, x)
  PROVE  SameUe(w, x)
BY DEF SameUe

LEMMA SessionSameUe ==
  ASSUME NEW w \in Works, NEW q \in SessionReq, NEW row \in Rows, NEW key \in TunnelKey,
         w.ctx.pdusCount # MAX_PDUS_PER_UE
  PROVE  SameUe(w, SessionSetup(w, q, key, row))
<1> DEFINE s == DrbsDone(w, row, q)
           r == SessionSetup(w, q, key, row)
           d == PdusOn(s.ctx, s.ctx.pdusCount, row)
           g == s.granted \union {Grant(key, PdusInfo(q.id))}
<1>1. /\ s \in Works /\ SameSessions(w, s) /\ q.id \in Ids
      /\ \/ r = [s EXCEPT !.dead = TRUE]
         \/ r = [s EXCEPT !.tbl = tunnel_commit(tunnel_remove(s.tbl, key), row)]
         \/ r = Written(s, s.tbl, d, g)
  <2>1. /\ s \in Works /\ SameSessions(w, s)
        /\ \/ r = [s EXCEPT !.dead = TRUE]
           \/ r = [s EXCEPT !.tbl = tunnel_commit(tunnel_remove(s.tbl, key), row)]
           \/ r = Written(s, s.tbl, d, g)
    <3>1. LET x == DrbsDone(w, row, q)
              y == SessionSetup(w, q, key, row)
          IN  /\ x \in Works /\ SameSessions(w, x)
              /\ \/ y = [x EXCEPT !.dead = TRUE]
                 \/ y = [x EXCEPT !.tbl = tunnel_commit(tunnel_remove(x.tbl, key), row)]
                 \/ y = Written(x, x.tbl, PdusOn(x.ctx, x.ctx.pdusCount, row),
                                x.granted \union {Grant(key, PdusInfo(q.id))})
      BY SessionCases, ZenonT(40)
    <3>2. QED BY <3>1
  <2>2. QED BY <2>1 DEF SessionReq
<1>2. s.tbl \in Table /\ s.ctx \in UeCtx /\ s.granted \in SUBSET Grants /\ NoGaps(s.ctx)
  BY <1>1, WorkFields
<1> HIDE DEF s, r
<1>3. SameUe(w, s)
  BY <1>1 DEF SameSessions, SameUe
<1>4. CASE r = [s EXCEPT !.tbl = tunnel_commit(tunnel_remove(s.tbl, key), row)]
  <2>1. r.ctx = s.ctx
    BY <1>1, <1>4 DEF Works
  <2>2. QED BY <1>3, <2>1 DEF SameUe, r
<1>5. CASE r = Written(s, s.tbl, d, g)
  <2>1. s.ctx.pdusCount \in Nat /\ s.ctx.pdusCount < MAX_PDUS_PER_UE
    <3>1. s.ctx.pdusCount \in 0 .. MAX_PDUS_PER_UE /\ MAX_PDUS_PER_UE \in Nat
      BY <1>2, CtxFields
    <3>2. s.ctx.pdusCount # MAX_PDUS_PER_UE
      BY <1>1 DEF SameSessions
    <3>3. QED BY <3>1, <3>2
  <2>2. d \in UeCtx /\ NoGaps(d) /\ d.used = s.ctx.used /\ d.cuup = s.ctx.cuup
    BY <1>2, <2>1, PdusListed
  <2>3. g \in SUBSET Grants
    BY <1>1, <1>2, ContentAssumption DEF Grant, Grants, PdusInfo
  <2> HIDE DEF d, g
  <2>4. r.ctx = d
    BY <1>1, <1>2, <1>5, <2>2, <2>3, WrittenFields
  <2>5. QED BY <1>3, <2>2, <2>4 DEF SameUe, r
<1>7. CASE r = [s EXCEPT !.dead = TRUE]
  <2>1. r.ctx = s.ctx
    BY <1>1, <1>7, WriteDead
  <2>2. QED BY <1>3, <2>1 DEF SameUe, r
<1>6. QED BY <1>1, <1>4, <1>5, <1>7

LEMMA PdusSetupSameUe ==
  ASSUME NEW w \in Works, NEW q \in SessionReq
  PROVE  SameUe(w, pdus_setup(w, q))
<1> DEFINE b == TakenFor(w.tbl, q.ip)
           s == pdus_setup(w, q)
           x == [w EXCEPT !.tbl = b.tbl]
<1>1. CASE s = w
  BY <1>1 DEF SameUe
<1>2. CASE s = [w EXCEPT !.dead = TRUE]
  BY <1>2, WriteDead DEF SameUe
<1>3. ASSUME q.ip \in LocalIps, KeyAvailable(w.tbl, q.ip)
      PROVE  /\ KeyFor(w.tbl, q.ip) \in TunnelKey /\ b.row \in RowOrNull
             /\ x \in Works /\ x.ctx = w.ctx
  <2>1. KeyFor(w.tbl, q.ip) \in TunnelKey /\ b.tbl \in Table /\ b.row \in RowOrNull
    BY <1>3, TakenResult, WorkFields
  <2> HIDE DEF b
  <2>2. QED BY <2>1, WriteTbl
<1>4. CASE q.ip \in LocalIps /\ KeyAvailable(w.tbl, q.ip) /\ s = x
  BY <1>3, <1>4 DEF SameUe
<1>5. CASE q.ip \in LocalIps /\ KeyAvailable(w.tbl, q.ip) /\ b.row # NoRow /\ PdusTried(w, s, q)
  <2>1. b.row \in Rows /\ KeyFor(w.tbl, q.ip) \in TunnelKey /\ x \in Works /\ x.ctx = w.ctx
    BY <1>3, <1>5 DEF RowOrNull
  <2>2. s = SessionSetup(x, q, KeyFor(w.tbl, q.ip), b.row) /\ w.ctx.pdusCount # MAX_PDUS_PER_UE
    BY <1>5 DEF PdusTried
  <2> HIDE DEF x, s, b
  <2>3. SameUe(x, s)
    BY <2>1, <2>2, SessionSameUe
  <2>4. QED BY <2>1, <2>3 DEF SameUe, s
<1>6. QED BY <1>1, <1>2, <1>4, <1>5, PdusSetupCases

LEMMA SessionsSameUe ==
  ASSUME NEW w \in Works, NEW list \in Seq(SessionReq)
  PROVE  SameUe(w, FoldLeft(pdus_setup, w, list))
<1> DEFINE T == {x \in Works : SameUe(w, x)}
<1>1. w \in T
  BY DEF SameUe
<1>2. ASSUME NEW x \in T, NEW i \in 1 .. Len(list)
      PROVE  pdus_setup(x, list[i]) \in T
  <2>1. list[i] \in SessionReq /\ x \in Works /\ SameUe(w, x)
    BY <1>2
  <2>2. pdus_setup(x, list[i]) \in Works /\ SameUe(x, pdus_setup(x, list[i]))
    BY <2>1, PdusSetupType, PdusSetupSameUe
  <2>3. QED BY <2>1, <2>2 DEF SameUe
<1> HIDE DEF T
<1>3. FoldLeft(pdus_setup, w, list) \in T
  BY <1>1, <1>2, PdusFold
<1>4. QED BY <1>3 DEF T

LEMMA DrbModificationSameUe ==
  ASSUME NEW w \in Works, NEW id \in DrbIds
  PROVE  SameUe(w, DrbModification(w, id))
<1> DEFINE j == Search(AsDrbs(w.tbl), Drbs(w.ctx), id)
           s == DrbModification(w, id)
<1>1. s = w \/ \E t, r : s = [w EXCEPT !.tbl = t, !.ctx.drb[j] = r]
  BY Zenon DEF DrbModification, drb_modify
<1> HIDE DEF s, j
<1>2. \A t, r : SameUe(w, [w EXCEPT !.tbl = t, !.ctx.drb[j] = r])
  BY DEF SameUe, Works, UeCtx
<1>3. ASSUME NEW t, NEW r, s = [w EXCEPT !.tbl = t, !.ctx.drb[j] = r]
      PROVE  SameUe(w, s)
  BY <1>2, <1>3
<1>4. ASSUME s = w
      PROVE  SameUe(w, s)
  BY <1>4 DEF SameUe
<1>5. SameUe(w, s)
  BY <1>1, <1>3, <1>4, Zenon
<1>6. QED BY <1>5 DEF s

LEMMA TableSameUe ==
  ASSUME NEW w \in Works
  PROVE  /\ SameUe(w, w) /\ SameUe(w, [w EXCEPT !.dead = TRUE])
         /\ \A t : SameUe(w, [w EXCEPT !.tbl = t])
BY DEF SameUe, Works

LEMMA DrbRemovalSameUe ==
  ASSUME NEW w \in Works, NEW ids, NEW i
  PROVE  SameUe(w, DrbRemoval(w, ids, i))
<1>1. \/ DrbRemoval(w, ids, i) = w
      \/ DrbRemoval(w, ids, i) = [w EXCEPT !.dead = TRUE]
      \/ DrbRemoval(w, ids, i)
           = [w EXCEPT !.tbl = tunnel_remove(w.tbl, w.tbl.key[w.ctx.drb[i]])]
  BY DEF DrbRemoval
<1>2. QED BY <1>1, TableSameUe

LEMMA PdusRemovalSameUe ==
  ASSUME NEW w \in Works, NEW id
  PROVE  SameUe(w, PdusRemoval(w, id))
<1> DEFINE r == w.ctx.pdus[Search(AsPdus(w.tbl), Pdus(w.ctx), id)]
<1>1. \/ PdusRemoval(w, id) = w
      \/ PdusRemoval(w, id) = [w EXCEPT !.dead = TRUE]
      \/ PdusRemoval(w, id) = [w EXCEPT !.tbl = tunnel_remove(w.tbl, w.tbl.key[r])]
  BY DEF PdusRemoval
<1>2. QED BY <1>1, TableSameUe

LEMMA DrbsChangedSameUe ==
  ASSUME NEW w \in Works, NEW q \in SessionChange
  PROVE  SameUe(w, DrbsChanged(w, q))
<1> DEFINE T == {x \in Works : SameUe(w, x)}
           s == DrbModifications(w, q.modify)
<1>1. w \in T /\ q.modify \in Seq(DrbIds) /\ q.setup \in Seq(DrbIds)
  BY ChangeFields DEF SameUe
<1>2. ASSUME NEW i \in 1 .. Len(q.modify), NEW x \in T
      PROVE  DrbModification(x, q.modify[i]) \in T
  <2>1. q.modify[i] \in DrbIds
    BY <1>1
  <2>2. /\ DrbModification(x, q.modify[i]) \in Works
        /\ SameUe(x, DrbModification(x, q.modify[i]))
    BY <2>1, DrbModificationType, DrbModificationSameUe
  <2>3. QED BY <2>2, SameUeOn
<1> HIDE DEF T
<1>3. s \in T
  BY <1>1, <1>2, DrbModificationFold
<1> HIDE DEF s
<1>4. s \in Works /\ SameUe(w, s)
  BY <1>3 DEF T
<1>5. SameUe(s, FoldLeft(drb_setup, s, q.setup))
  BY <1>1, <1>4, DrbsSetupType DEF SameSessions, SameUe
<1>6. QED BY <1>4, <1>5, SameUeOn DEF DrbsChanged, s

LEMMA PdusModifySameUe ==
  ASSUME NEW w \in Works, NEW q \in SessionChange, Len(q.remove) <= MAX_DRB_PER_UE,
         NEW i \in 1 .. MAX_PDUS_PER_UE, w.ctx.pdus[i] # NoRow
  PROVE  SameUe(w, pdus_modify(w, q, i))
<1> DEFINE old == w.ctx.pdus[i]
           b == tunnel_modify(w.tbl, w.tbl.key[old])
           s1 == DrbRemovals(Cloned(w, i), q.remove)
           s2 == DrbsChanged(s1, q)
<1>1. w.tbl \in Table /\ w.ctx \in UeCtx
  BY WorkFields
<1>2. old \in Rows
  BY <1>1, Entry
<1>3. pdus_modify(w, q, i) = IF b.row = NoRow THEN w
                             ELSE IF s1.dead THEN s1
                             ELSE [s2 EXCEPT !.ctx.pdus[i] = b.row]
  BY Zenon DEF pdus_modify, Cloned, DrbsChanged
<1>4. CASE b.row = NoRow
  BY <1>3, <1>4 DEF SameUe
<1>5. CASE b.row # NoRow
  <2>1. b.row \in Rows /\ Fill(b.tbl, b.row, b.tbl.info[old]) \in Table
    BY <1>1, <1>2, <1>5, ModifyResult DEF RowOrNull
  <2>2. Cloned(w, i) \in Works /\ SameUe(w, Cloned(w, i))
    BY <2>1, WriteTbl, TableSameUe DEF Cloned
  <2> DEFINE T == {x \in Works : SameUe(w, x)}
  <2>3. s1 \in T
    <3>1. ASSUME NEW j \in 1 .. Len(q.remove), NEW a \in T
          PROVE  DrbRemoval(a, q.remove, Positions(Len(q.remove))[j]) \in T
      <4>1. Positions(Len(q.remove))[j] = j /\ a \in Works /\ SameUe(w, a)
        BY DEF Positions
      <4>2. DrbRemoval(a, q.remove, j) \in Works /\ SameUe(a, DrbRemoval(a, q.remove, j))
        BY <4>1, DrbRemovalType, DrbRemovalSameUe, ChangeFields
      <4>3. QED BY <4>1, <4>2, SameUeOn
    <3>2. Cloned(w, i) \in T
      BY <2>2
    <3> HIDE DEF T
    <3>3. QED BY <3>1, <3>2, DrbRemovalFold, ChangeFields
  <2>4. s1 \in Works /\ SameUe(w, s1)
    BY <2>3
  <2> HIDE DEF b, s1, T
  <2>5. s2 \in Works /\ SameUe(s1, s2)
    BY <2>4, DrbsChangedType, DrbsChangedSameUe
  <2> HIDE DEF s2
  <2>6. SameUe(s2, [s2 EXCEPT !.ctx.pdus[i] = b.row])
    BY <2>5 DEF SameUe, Works, UeCtx
  <2>7. QED BY <1>3, <1>5, <2>4, <2>5, <2>6, SameUeOn
<1>6. QED BY <1>4, <1>5

LEMMA PdusModificationSameUe ==
  ASSUME NEW w \in Works, NEW q \in SessionChange, Len(q.remove) <= MAX_DRB_PER_UE
  PROVE  SameUe(w, PdusModification(w, q))
<1> DEFINE j == Search(AsPdus(w.tbl), Pdus(w.ctx), q.id)
<1>1. w.ctx \in UeCtx
  BY WorkFields
<1>2. j = 0 \/ j \in 1 .. MAX_PDUS_PER_UE
  <2>1. /\ w.ctx.pdusCount \in Nat /\ DOMAIN Pdus(w.ctx) = 1 .. w.ctx.pdusCount
        /\ w.ctx.pdusCount \in 0 .. MAX_PDUS_PER_UE
    BY <1>1, Lists, CtxFields
  <2>2. j = 0 \/ j \in 1 .. w.ctx.pdusCount
    BY <2>1, SearchResult
  <2> HIDE DEF j
  <2>3. QED BY <2>1, <2>2, UeCountAssumption
<1>3. \/ PdusModification(w, q) = w
      \/ PdusModification(w, q) = [w EXCEPT !.dead = TRUE]
      \/ j # 0 /\ w.ctx.pdus[j] # NoRow /\ PdusModification(w, q) = pdus_modify(w, q, j)
  BY Zenon DEF PdusModification, Dies
<1> HIDE DEF j
<1>4. QED BY <1>2, <1>3, TableSameUe, PdusModifySameUe


(* Ids and contexts in use belong to each other.                           *)
IdsSound(u) ==
  /\ \A id \in UeIds : u.hash[id] # NoRow =>
       u.ctx[u.hash[id]].used /\ u.ctx[u.hash[id]].cuup = id
  /\ \A r \in UeRows : u.ctx[r].used => u.hash[u.ctx[r].cuup] = r

(* v is u with the context d for id in row r; the row of the context that  *)
(* id had before is given back.                                            *)
Replaced(u, v, id, r, d) ==
  /\ v \in UeTable /\ v.hash = [u.hash EXCEPT ![id] = r] /\ v.ctx[r] = d
  /\ \A x \in UeRows \ {r} : IF x = u.hash[id] THEN ~v.ctx[x].used
                                               ELSE v.ctx[x] = u.ctx[x]

(* No context changes that an id other than this one leads to.             *)
Others(u, v, id) ==
  \A x \in UeIds : u.hash[x] # NoRow /\ x # id =>
    v.hash[x] = u.hash[x] /\ v.ctx[u.hash[x]] = u.ctx[u.hash[x]]

LEMMA ReplacedIds ==
  ASSUME NEW u \in UeTable, IdsSound(u), NEW id \in UeIds, NEW r \in UeRows, ~u.ctx[r].used,
         NEW d, NEW v, Replaced(u, v, id, r, d), d.used, d.cuup = id
  PROVE  IdsSound(v) /\ Others(u, v, id)
<1>1. /\ u.hash \in [UeIds -> UeRows \union {NoRow}] /\ NoRow \notin UeRows
      /\ \A x \in UeRows : u.ctx[x].cuup \in UeIds /\ v.ctx[x].cuup \in UeIds
  <2>1. u.hash \in [UeIds -> UeRows \union {NoRow}] /\ NoRow \notin UeRows
    BY UeFields, UeCountAssumption DEF UeRows
  <2>2. \A x \in UeRows : u.ctx[x] \in UeCtx /\ v.ctx[x] \in UeCtx
    BY UeFields DEF Replaced
  <2>3. QED BY <2>1, <2>2, CtxFields
<1>2. /\ v.hash[id] = r /\ \A x \in UeIds \ {id} : v.hash[x] = u.hash[x]
      /\ v.ctx[r] = d
      /\ \A x \in UeRows \ {r} : x = u.hash[id] => ~v.ctx[x].used
      /\ \A x \in UeRows \ {r} : x # u.hash[id] => v.ctx[x] = u.ctx[x]
  BY <1>1 DEF Replaced
<1>3. /\ \A x \in UeIds : u.hash[x] # NoRow =>
           u.ctx[u.hash[x]].used /\ u.ctx[u.hash[x]].cuup = x
      /\ \A x \in UeRows : u.ctx[x].used => u.hash[u.ctx[x].cuup] = x
  BY DEF IdsSound
<1>4. ASSUME NEW x \in UeIds, u.hash[x] # NoRow, x # id
      PROVE  v.hash[x] = u.hash[x] /\ v.ctx[u.hash[x]] = u.ctx[u.hash[x]]
  <2>1. u.hash[x] \in UeRows /\ u.hash[x] # r /\ u.hash[x] # u.hash[id]
    BY <1>1, <1>3, <1>4
  <2>2. QED BY <1>2, <1>4, <2>1
<1>5. \A x \in UeRows : v.ctx[x].used => x = r \/ (x # r /\ x # u.hash[id] /\ u.ctx[x].used
                                                  /\ v.ctx[x] = u.ctx[x])
  BY <1>2
<1>6. ASSUME NEW x \in UeIds, v.hash[x] # NoRow
      PROVE  v.ctx[v.hash[x]].used /\ v.ctx[v.hash[x]].cuup = x
  <2>1. CASE x = id
    BY <1>2, <2>1
  <2>2. CASE x # id
    BY <1>2, <1>3, <1>4, <1>6, <2>2
  <2>3. QED BY <2>1, <2>2
<1>7. ASSUME NEW x \in UeRows, v.ctx[x].used
      PROVE  v.hash[v.ctx[x].cuup] = x
  <2>1. CASE x = r
    BY <1>2, <2>1
  <2>2. CASE x # r
    <3>1. x # u.hash[id] /\ u.ctx[x].used /\ v.ctx[x] = u.ctx[x]
      BY <1>5, <1>7, <2>2
    <3>2. u.hash[u.ctx[x].cuup] = x /\ u.ctx[x].cuup \in UeIds
      BY <1>1, <1>3, <3>1
    <3>3. QED BY <1>2, <3>1, <3>2
  <2>3. QED BY <2>1, <2>2
<1>8. IdsSound(v)
  BY <1>6, <1>7 DEF IdsSound
<1>9. Others(u, v, id)
  BY <1>4 DEF Others
<1>10. QED BY <1>8, <1>9

(* What the end of ue_ctx_commit does with the row of a new version.       *)
LEMMA CommitReplaces ==
  ASSUME NEW u \in UeTable, NEW id \in UeIds, NEW r \in UeRows, u.hash[id] # r,
         NEW m \in UeTable, m.hash = u.hash, \A x \in UeRows \ {r} : m.ctx[x] = u.ctx[x],
         NEW d \in UeCtx, d.cuup = id
  PROVE  Replaced(u, UeHashCommit(SetCtx(m, r, d), r), id, r, d)
<1> DEFINE x == SetCtx(m, r, d)
           v == UeHashCommit(x, r)
           e == u.hash[id]
<1>1. x \in UeTable /\ x.hash = u.hash /\ x.ctx = [m.ctx EXCEPT ![r] = d]
  BY SetCtxFields
<1>2. m.ctx \in [UeRows -> UeCtx] /\ u.ctx \in [UeRows -> UeCtx]
      /\ u.hash \in [UeIds -> UeRows \union {NoRow}] /\ NoRow \notin UeRows
  BY UeFields, UeCountAssumption DEF UeRows
<1> HIDE DEF x
<1>3. x.ctx[r] = d /\ \A y \in UeRows \ {r} : x.ctx[y] = u.ctx[y]
  BY <1>1, <1>2
<1>4. /\ v \in UeTable /\ v.hash = [u.hash EXCEPT ![id] = r]
      /\ \/ e = NoRow /\ v.ctx = x.ctx
         \/ e \in UeRows \ {r} /\ v.ctx = [x.ctx EXCEPT ![e] = UsedAs(@, FALSE)]
  <2>1. x.ctx[r].cuup = id /\ x.hash[id] = e /\ x.hash[id] # r
    BY <1>1, <1>3
  <2>2. /\ v \in UeTable
        /\ \/ /\ x.hash[x.ctx[r].cuup] = NoRow
              /\ v.ctx = x.ctx /\ v.hash = [x.hash EXCEPT ![x.ctx[r].cuup] = r]
           \/ /\ x.hash[x.ctx[r].cuup] \in UeRows \ {r}
              /\ v.ctx = [x.ctx EXCEPT ![x.hash[x.ctx[r].cuup]] = UsedAs(@, FALSE)]
              /\ v.hash = [x.hash EXCEPT ![x.ctx[r].cuup] = r]
           \/ x.hash[x.ctx[r].cuup] = r
    BY <1>1, UeHashCommitFields
  <2> HIDE DEF v, e
  <2>3. QED BY <1>1, <2>1, <2>2
<1> HIDE DEF v, e
<1>5. v.ctx[r] = d
  BY <1>1, <1>3, <1>4, UeFields
<1>6. ASSUME NEW y \in UeRows \ {r}
      PROVE  IF y = e THEN ~v.ctx[y].used ELSE v.ctx[y] = u.ctx[y]
  <2>1. x.ctx[y] \in UeCtx /\ x.ctx \in [UeRows -> UeCtx]
    BY <1>1, UeFields
  <2>2. CASE y = e
    <3>1. v.ctx[y] = UsedAs(x.ctx[y], FALSE)
      BY <1>2, <1>4, <2>1, <2>2
    <3>2. QED BY <2>1, <2>2, <3>1, UsedAsFields
  <2>3. CASE y # e
    <3>1. v.ctx[y] = x.ctx[y]
      BY <1>4, <2>1, <2>3
    <3>2. QED BY <1>3, <2>3, <3>1
  <2>4. QED BY <2>2, <2>3
<1>7. Replaced(u, v, id, r, d)
  BY <1>4, <1>5, <1>6 DEF Replaced, e
<1>8. QED BY <1>7 DEF v, x

(* The commit of the work for an id, in a row that was free.               *)
CommittedTo(u, id, r, w, d) ==
  /\ d.tbl = PdusCommitted(w.tbl, w.ctx).tbl
  /\ Replaced(u, d.ues, id, r, CtxCommitted(w.tbl, w.ctx))
  /\ IdsSound(d.ues) /\ Others(u, d.ues, id)

LEMMA UeCommitIds ==
  ASSUME NEW u \in UeTable, IdsSound(u), NEW id \in UeIds, NEW r \in UeRows, ~u.ctx[r].used,
         NEW m \in UeTable, m.hash = u.hash, \A x \in UeRows \ {r} : m.ctx[x] = u.ctx[x],
         NEW w \in Works, ~Missing(w.ctx), w.ctx.used, w.ctx.cuup = id
  PROVE  CommittedTo(u, id, r, w, ue_ctx_commit(w.tbl, SetCtx(m, r, w.ctx), r))
<1> DEFINE tt == PdusCommitted(w.tbl, w.ctx).tbl
           c == CtxCommitted(w.tbl, w.ctx)
           v == UeHashCommit(SetCtx(m, r, c), r)
<1>1. w.tbl \in Table /\ w.ctx \in UeCtx /\ NoGaps(w.ctx)
  BY WorkFields
<1>2. c \in UeCtx /\ c.used = w.ctx.used /\ c.cuup = w.ctx.cuup
  BY <1>1, CtxCommittedFields
<1>3. ue_ctx_commit(w.tbl, SetCtx(m, r, w.ctx), r) = [tbl |-> tt, ues |-> v]
  <2>1. m.ctx \in [UeRows -> UeCtx]
    BY UeFields
  <2>2. SetCtx(m, r, w.ctx).ctx[r] = w.ctx
    <3>1. SetCtx(m, r, w.ctx).ctx = [m.ctx EXCEPT ![r] = w.ctx]
      BY <1>1, SetCtxFields
    <3>2. QED BY <2>1, <3>1
  <2>3. SetCtx(SetCtx(m, r, w.ctx), r, c) = SetCtx(m, r, c)
    BY <2>1 DEF SetCtx, UeTable
  <2> HIDE DEF tt, c
  <2>4. ue_ctx_commit(w.tbl, SetCtx(m, r, w.ctx), r)
          = [tbl |-> PdusCommitted(w.tbl, w.ctx).tbl,
             ues |-> UeHashCommit(SetCtx(SetCtx(m, r, w.ctx), r, CtxCommitted(w.tbl, w.ctx)), r)]
    BY <2>2, UeCommitValue
  <2>5. QED BY <2>3, <2>4 DEF tt, c
<1> HIDE DEF tt, c, v
<1>4. Replaced(u, v, id, r, c)
  <2>1. u.hash[id] # r
    BY UeCountAssumption DEF IdsSound, UeRows
  <2>2. QED BY <1>2, <2>1, CommitReplaces DEF v
<1>5. IdsSound(v) /\ Others(u, v, id)
  BY <1>2, <1>4, ReplacedIds
<1>6. CommittedTo(u, id, r, w, [tbl |-> tt, ues |-> v])
  BY <1>4, <1>5 DEF CommittedTo, tt, c
<1>7. QED BY <1>3, <1>6


(* No context changes that an id leads to.                                 *)
ContextsKept(u, v) ==
  \A x \in UeIds : u.hash[x] # NoRow =>
    v.hash[x] = u.hash[x] /\ v.ctx[u.hash[x]] = u.ctx[u.hash[x]]

(* A row that is given back unused leaves the contexts as they were.       *)
GivenBack(u, v, r) ==
  /\ v \in UeTable /\ v.hash = u.hash /\ ~v.ctx[r].used
  /\ \A x \in UeRows \ {r} : v.ctx[x] = u.ctx[x]

LEMMA RowGivenBack ==
  ASSUME NEW u \in UeTable, IdsSound(u), NEW r \in UeRows, ~u.ctx[r].used,
         NEW v, GivenBack(u, v, r)
  PROVE  IdsSound(v) /\ ContextsKept(u, v)
<1>1. u.hash \in [UeIds -> UeRows \union {NoRow}]
  BY UeFields
<1>2. v.hash = u.hash /\ ~v.ctx[r].used /\ \A x \in UeRows \ {r} : v.ctx[x] = u.ctx[x]
  BY DEF GivenBack
<1>3. \A x \in UeIds : u.hash[x] # NoRow =>
        u.hash[x] \in UeRows \ {r} /\ v.ctx[u.hash[x]] = u.ctx[u.hash[x]]
  BY <1>1, <1>2 DEF IdsSound
<1>4. \A x \in UeIds : v.hash[x] # NoRow =>
        v.ctx[v.hash[x]].used /\ v.ctx[v.hash[x]].cuup = x
  BY <1>2, <1>3 DEF IdsSound
<1>5. \A x \in UeRows : v.ctx[x].used => x # r /\ u.ctx[x].used /\ v.ctx[x] = u.ctx[x]
  BY <1>2
<1>6. \A x \in UeRows : v.ctx[x].used => v.hash[v.ctx[x].cuup] = x
  BY <1>2, <1>5 DEF IdsSound
<1>7. ContextsKept(u, v)
  BY <1>2, <1>3 DEF ContextsKept
<1>8. QED BY <1>4, <1>6, <1>7 DEF IdsSound

IdsInv == BearerInv /\ IdsSound(ues)
OthersStep ==
  \A id \in UeIds :
    Committed(id) /\ ~(rsp'.cause = "success" /\ rsp'.cuup = id)
    => ues'.hash[id] = ues.hash[id] /\ ues'.ctx[ues.hash[id]] = ues.ctx[ues.hash[id]]

LEMMA SetupIds ==
  ASSUME IdsInv, NEW q \in SetupReqs, SetupBearer(q), ~SetupWork(q).dead
  PROVE  LET w  == SetupWork(q)
             id == ue_ctx_id_alloc(ues).id
             b  == NewRow(ues)
         IN  /\ w.ctx.used /\ w.ctx.cuup = id /\ ues.hash[id] = NoRow
             /\ CommittedTo(ues, id, b.row, w, SetupDone(q))
<1> DEFINE id == ue_ctx_id_alloc(ues).id
           b == NewRow(ues)
           c == Fresh(b.ues.ctx[b.row], q.cucp)
           w0 == Work(tbl, c)
           w == FoldLeft(pdus_setup, w0, q.pdus)
<1>1. /\ UeIdAvailable(ues) /\ UeRowAvailable(ues)
      /\ tbl \in Table /\ ues \in UeTable /\ AllNoGaps(ues) /\ BearerInv /\ IdsSound(ues)
      /\ q.cucp \in CucpIds /\ q.pdus \in Seq(SessionReq)
  BY SetupValue, Requests DEF IdsInv, BearerInv, TypeOK
<1>2. /\ id \in UeIds /\ ues.hash[id] = NoRow
      /\ b.row \in UeRows /\ ~ues.ctx[b.row].used
      /\ b.ues \in UeTable /\ b.ues.hash = ues.hash
      /\ \A r \in UeRows \ {b.row} : b.ues.ctx[r] = ues.ctx[r]
      /\ c \in UeCtx /\ NoGaps(c) /\ c.used /\ c.cuup = id
  BY <1>1, NewRowResult
<1>3. w = SetupWork(q)
  BY Zenon DEF SetupWork
<1> HIDE DEF c, b, id
<1>4. w0 \in Works /\ w0.ctx = c
  BY <1>1, <1>2, WorkType
<1> HIDE DEF w0
<1>5. SameUe(w0, w)
  BY <1>1, <1>4, SessionsSameUe
<1> HIDE DEF w
<1>6. w \in Works /\ ~Missing(w.ctx) /\ w.ctx.used /\ w.ctx.cuup = id
  <2>1. w \in Works /\ ~Missing(w.ctx)
    BY <1>1, <1>3, SetupWorkType DEF Whole
  <2>2. QED BY <1>2, <1>4, <1>5, <2>1 DEF SameUe
<1>7. SetupDone(q) = ue_ctx_commit(w.tbl, SetCtx(b.ues, b.row, w.ctx), b.row)
  BY <1>3 DEF SetupDone, b
<1>8. CommittedTo(ues, id, b.row, w, SetupDone(q))
  BY <1>1, <1>2, <1>6, <1>7, UeCommitIds
<1>9. QED BY <1>2, <1>3, <1>6, <1>8 DEF id, b

LEMMA ModifyWorkSameUe ==
  ASSUME BearerInv, NEW q \in ModifyReqs, Known(q.cuup), UeRowAvailable(ues)
  PROVE  ModifyWork(q).ctx.used /\ ModifyWork(q).ctx.cuup = q.cuup
<1> DEFINE m == ue_ctx_modify(ues, q.cuup)
           c == m.ues.ctx[m.row]
           w0 == Work(tbl, c)
           T == {x \in Works : SameUe(w0, x)}
           x1 == PdusRemovals(w0, q.remove)
           x2 == PdusModifications(x1, q.modify)
           x3 == FoldLeft(pdus_setup, x2, q.setup)
<1>1. /\ tbl \in Table /\ ues \in UeTable /\ AllNoGaps(ues)
      /\ q.cuup \in UeIds /\ ues.hash[q.cuup] # NoRow
      /\ q.remove \in Seq(Ids) /\ q.modify \in Seq(SessionChange) /\ q.setup \in Seq(SessionReq)
      /\ \A i \in 1 .. Len(q.modify) : Len(q.modify[i].remove) <= MAX_DRB_PER_UE
  BY Requests DEF BearerInv, TypeOK, Known
<1>2. c \in UeCtx /\ NoGaps(c) /\ c.used /\ c.cuup = q.cuup
  BY <1>1, ModifyRow
<1>3. x3 = ModifyWork(q)
  BY Zenon DEF ModifyWork
<1> HIDE DEF c, m
<1>4. w0 \in Works /\ w0.ctx = c
  BY <1>1, <1>2, WorkType
<1> HIDE DEF w0
<1>5. w0 \in T
  BY <1>4 DEF SameUe
<1>6. ASSUME NEW i \in 1 .. Len(q.remove), NEW a \in T
      PROVE  PdusRemoval(a, q.remove[i]) \in T
  <2>1. q.remove[i] \in Ids /\ a \in Works /\ SameUe(w0, a)
    BY <1>1
  <2>2. PdusRemoval(a, q.remove[i]) \in Works /\ SameUe(a, PdusRemoval(a, q.remove[i]))
    BY <2>1, PdusRemovalType, PdusRemovalSameUe
  <2>3. QED BY <2>1, <2>2, SameUeOn
<1>7. ASSUME NEW i \in 1 .. Len(q.modify), NEW a \in T
      PROVE  PdusModification(a, q.modify[i]) \in T
  <2>1. q.modify[i] \in SessionChange /\ Len(q.modify[i].remove) <= MAX_DRB_PER_UE
        /\ a \in Works /\ SameUe(w0, a)
    BY <1>1
  <2>2. /\ PdusModification(a, q.modify[i]) \in Works
        /\ SameUe(a, PdusModification(a, q.modify[i]))
    BY <2>1, PdusModificationType, PdusModificationSameUe
  <2>3. QED BY <2>1, <2>2, SameUeOn
<1> HIDE DEF T
<1>8. x1 \in T
  BY <1>1, <1>5, <1>6, PdusRemovalFold
<1> HIDE DEF x1
<1>9. x2 \in T
  BY <1>1, <1>7, <1>8, PdusModificationFold
<1> HIDE DEF x2
<1>10. x2 \in Works /\ SameUe(w0, x2)
  BY <1>9 DEF T
<1>11. SameUe(x2, x3)
  BY <1>1, <1>10, SessionsSameUe
<1> HIDE DEF x3
<1>12. SameUe(w0, x3)
  BY <1>10, <1>11, SameUeOn
<1>13. QED BY <1>2, <1>3, <1>4, <1>12 DEF SameUe

LEMMA ModifyIds ==
  ASSUME IdsInv, NEW q \in ModifyReqs, Known(q.cuup), UeRowAvailable(ues),
         ~Missing(ModifyWork(q).ctx)
  PROVE  CommittedTo(ues, q.cuup, ue_ctx_modify(ues, q.cuup).row, ModifyWork(q), ModifyDone(q))
<1> DEFINE m == ue_ctx_modify(ues, q.cuup)
           w == ModifyWork(q)
<1>1. /\ ues \in UeTable /\ AllNoGaps(ues) /\ BearerInv /\ IdsSound(ues)
      /\ q.cuup \in UeIds /\ ues.hash[q.cuup] # NoRow
  BY Requests DEF IdsInv, BearerInv, TypeOK, Known
<1>2. /\ m.row \in UeRows /\ ~ues.ctx[m.row].used
      /\ m.ues \in UeTable /\ m.ues.hash = ues.hash
      /\ \A r \in UeRows \ {m.row} : m.ues.ctx[r] = ues.ctx[r]
  BY <1>1, ModifyRow
<1>3. w \in Works /\ w.ctx.used /\ w.ctx.cuup = q.cuup
  BY <1>1, ModifyWorkType, ModifyWorkSameUe
<1>4. ModifyDone(q) = ue_ctx_commit(w.tbl, SetCtx(m.ues, m.row, w.ctx), m.row)
  BY Zenon DEF ModifyDone
<1>5. ~Missing(w.ctx)
  OBVIOUS
<1> HIDE DEF m, w
<1>6. CommittedTo(ues, q.cuup, m.row, w, ModifyDone(q))
  BY <1>1, <1>2, <1>3, <1>4, <1>5, UeCommitIds
<1>7. QED BY <1>6 DEF m, w

(* ue_ctx_rollback finds the old version in use.                           *)
LEMMA MismatchIds ==
  ASSUME IdsInv, NEW q \in ModifyReqs, ModifyMismatch(q), phase' = "up"
  PROVE  LET r   == ue_ctx_modify(ues, q.cuup).row
             old == ues.ctx[ues.hash[q.cuup]]
         IN  /\ r \in UeRows /\ ~ues.ctx[r].used /\ GivenBack(ues, ues', r)
             /\ ues.hash[q.cuup] \in UeRows /\ old \in UeCtx /\ old.used /\ ~Missing(old)
             /\ tbl' = RollbackAll(tbl, Pdus(old) \o Drbs(old))
             /\ rsp'.cause = "unknown_pair" /\ rsp'.granted = {}
<1> DEFINE m == ue_ctx_modify(ues, q.cuup)
           e == ues.hash[q.cuup]
           b == ue_ctx_rollback(tbl, m.ues, m.row)
           v == [m.ues EXCEPT !.ctx[m.row].used = FALSE]
<1>1. /\ Known(q.cuup) /\ UeRowAvailable(ues)
      /\ ~(m.ues.ctx[e].used /\ Missing(m.ues.ctx[e]))
      /\ tbl' = b.tbl /\ ues' = b.ues
      /\ rsp' = Answer("unknown_pair", q.cuup, q.cucp, {})
  BY Zenon DEF ModifyMismatch
<1>2. ues \in UeTable /\ AllNoGaps(ues) /\ q.cuup \in UeIds /\ e # NoRow /\ IdsSound(ues)
  BY <1>1, Requests DEF IdsInv, BearerInv, TypeOK, Known
<1>3. /\ m.row \in UeRows /\ ~ues.ctx[m.row].used
      /\ m.ues \in UeTable /\ AllNoGaps(m.ues) /\ m.ues.hash = ues.hash
      /\ \A r \in UeRows \ {m.row} : m.ues.ctx[r] = ues.ctx[r]
      /\ m.ues.ctx[m.row].cuup = q.cuup
  <2>1. LET x == ue_ctx_modify(ues, q.cuup)
        IN  /\ x.row \in UeRows /\ ~ues.ctx[x.row].used
            /\ x.ues \in UeTable /\ AllNoGaps(x.ues) /\ x.ues.hash = ues.hash
            /\ \A r \in UeRows \ {x.row} : x.ues.ctx[r] = ues.ctx[r]
            /\ x.ues.ctx[x.row].cuup = q.cuup
    <3>1. /\ ues \in UeTable /\ AllNoGaps(ues) /\ q.cuup \in UeIds
          /\ ues.hash[q.cuup] # NoRow /\ UeRowAvailable(ues)
      BY <1>1, <1>2
    <3>2. QED BY <3>1, ModifyRow
  <2>2. QED BY <2>1
<1>4. e \in UeRows \ {m.row} /\ ues.ctx[e] \in UeCtx /\ ues.ctx[e].used /\ ~Missing(ues.ctx[e])
  <2>1. e \in UeRows
    BY <1>2, UeFields
  <2>2. ues.ctx[e].used
    BY <1>2 DEF IdsSound
  <2> HIDE DEF m, e
  <2>3. QED BY <1>1, <1>2, <1>3, <2>1, <2>2, UeFields
<1>5. b = [tbl |-> RollbackAll(tbl, Pdus(ues.ctx[e]) \o Drbs(ues.ctx[e])), ues |-> v]
  <2>1. m.ues.hash[m.ues.ctx[m.row].cuup] = e /\ e # m.row
        /\ m.ues.ctx[e] = ues.ctx[e] /\ m.ues.ctx[e].used
    BY <1>3, <1>4
  <2> HIDE DEF m, e
  <2>2. QED BY <2>1 DEF ue_ctx_rollback
<1>6. v \in UeTable /\ v.hash = m.ues.hash /\ v.ctx = [m.ues.ctx EXCEPT ![m.row] = UsedAs(@, FALSE)]
  BY <1>3, MarkUsedGaps
<1> HIDE DEF m, v, b
<1>7. GivenBack(ues, v, m.row)
  <2>1. m.ues.ctx \in [UeRows -> UeCtx] /\ m.ues.ctx[m.row] \in UeCtx
    BY <1>3, UeFields
  <2>2. v.ctx[m.row] = UsedAs(m.ues.ctx[m.row], FALSE)
    BY <1>3, <1>6, <2>1
  <2>3. ~v.ctx[m.row].used
    BY <2>1, <2>2, UsedAsFields
  <2>4. \A x \in UeRows \ {m.row} : v.ctx[x] = m.ues.ctx[x]
    BY <1>3, <1>6, <2>1
  <2>5. QED BY <1>3, <1>6, <2>3, <2>4 DEF GivenBack
<1>8. rsp'.cause = "unknown_pair" /\ rsp'.granted = {}
  BY <1>1 DEF Answer
<1> HIDE DEF e
<1>9. tbl' = RollbackAll(tbl, Pdus(ues.ctx[e]) \o Drbs(ues.ctx[e])) /\ ues' = v
  BY <1>1, <1>5
<1>10. /\ m.row \in UeRows /\ ~ues.ctx[m.row].used /\ GivenBack(ues, ues', m.row)
       /\ e \in UeRows /\ ues.ctx[e] \in UeCtx /\ ues.ctx[e].used /\ ~Missing(ues.ctx[e])
       /\ tbl' = RollbackAll(tbl, Pdus(ues.ctx[e]) \o Drbs(ues.ctx[e]))
       /\ rsp'.cause = "unknown_pair" /\ rsp'.granted = {}
  BY <1>3, <1>4, <1>7, <1>8, <1>9
<1>11. QED BY <1>10, Zenon DEF m, e

-----------------------------------------------------------------------------
(* One lemma for each action.                                              *)
LEMMA SetupKeepsIds ==
  ASSUME IdsInv, NEW q \in SetupReqs, SetupBearer(q)
  PROVE  IdsSound(ues') /\ OthersStep
<1> DEFINE w == SetupWork(q)
           id == ue_ctx_id_alloc(ues).id
<1>1. UNCHANGED <<tbl, ues, rsp>> \/ (~w.dead /\ ues' = SetupDone(q).ues)
  BY SetupValue
<1>2. ~w.dead => ues.hash[id] = NoRow /\ CommittedTo(ues, id, NewRow(ues).row, w, SetupDone(q))
  BY SetupIds
<1> HIDE DEF w, id
<1>3. CASE UNCHANGED <<tbl, ues, rsp>>
  BY <1>3 DEF IdsInv, OthersStep
<1>4. CASE ~w.dead /\ ues' = SetupDone(q).ues
  <2>1. IdsSound(ues') /\ Others(ues, ues', id)
    BY <1>2, <1>4 DEF CommittedTo
  <2>2. OthersStep
    BY <1>2, <1>4, <2>1 DEF OthersStep, Committed, Others
  <2>3. QED BY <2>1, <2>2
<1>5. QED BY <1>1, <1>3, <1>4

LEMMA ModifyKeepsIds ==
  ASSUME IdsInv, NEW q \in ModifyReqs, ModifyBearer(q)
  PROVE  IdsSound(ues') /\ OthersStep
<1> DEFINE w == ModifyWork(q)
<1>1. /\ Known(q.cuup) /\ UeRowAvailable(ues)
      /\ \/ UNCHANGED <<tbl, ues, rsp>>
         \/ /\ ~Missing(w.ctx)
            /\ tbl' = ModifyDone(q).tbl /\ ues' = ModifyDone(q).ues
            /\ rsp' = Answer("success", q.cuup, q.cucp, w.granted)
  BY ModifyValue
<1>2. ~Missing(w.ctx)
        => CommittedTo(ues, q.cuup, ue_ctx_modify(ues, q.cuup).row, w, ModifyDone(q))
  BY <1>1, ModifyIds
<1> HIDE DEF w
<1>3. CASE UNCHANGED <<tbl, ues, rsp>>
  BY <1>3 DEF IdsInv, OthersStep
<1>4. CASE /\ ~Missing(w.ctx) /\ ues' = ModifyDone(q).ues
           /\ rsp' = Answer("success", q.cuup, q.cucp, w.granted)
  <2>1. IdsSound(ues') /\ Others(ues, ues', q.cuup)
    BY <1>2, <1>4 DEF CommittedTo
  <2>2. rsp'.cause = "success" /\ rsp'.cuup = q.cuup
    BY <1>4 DEF Answer
  <2>3. OthersStep
    BY <2>1, <2>2 DEF OthersStep, Committed, Others
  <2>4. QED BY <2>1, <2>3
<1>5. QED BY <1>1, <1>3, <1>4

LEMMA MismatchKeepsIds ==
  ASSUME IdsInv, NEW q \in ModifyReqs, ModifyMismatch(q)
  PROVE  IdsSound(ues') /\ OthersStep
<1> DEFINE r == ue_ctx_modify(ues, q.cuup).row
<1>0. UNCHANGED <<tbl, ues, rsp>> \/ phase' = "up"
  BY DEF ModifyMismatch, Known
<1>1. phase' = "up" => r \in UeRows /\ ~ues.ctx[r].used /\ GivenBack(ues, ues', r)
  BY MismatchIds
<1>2. ues \in UeTable /\ IdsSound(ues)
  BY DEF IdsInv, BearerInv, TypeOK
<1> HIDE DEF r
<1>3. phase' = "up" => IdsSound(ues') /\ ContextsKept(ues, ues')
  BY <1>1, <1>2, RowGivenBack
<1>4. phase' = "up" => OthersStep
  BY <1>3 DEF OthersStep, Committed, ContextsKept
<1>5. CASE UNCHANGED <<tbl, ues, rsp>>
  BY <1>5 DEF IdsInv, OthersStep
<1>6. QED BY <1>0, <1>3, <1>4, <1>5

(* Requests that are refused at once.                                      *)
LEMMA RefusedUes ==
  ASSUME BearerInv,
         \/ \E q \in SetupReqs : FirstSetup(q) \/ SetupRefused(q)
         \/ \E q \in ModifyReqs : ModifyUnknown(q)
  PROVE  /\ tbl' = tbl /\ rsp'.granted = {}
         /\ ues'.ctx = ues.ctx /\ ues'.hash = ues.hash
<1>1. /\ tbl' = tbl /\ rsp'.granted = {}
      /\ ues' = ues \/ (UeIdAvailable(ues) /\ ues' = ue_ctx_id_alloc(ues).ues)
  BY DEF FirstSetup, SetupRefused, ModifyUnknown, Answer
<1>2. ues \in UeTable
  BY DEF BearerInv, TypeOK
<1>3. ues'.ctx = ues.ctx /\ ues'.hash = ues.hash
  BY <1>1, <1>2, UeIdFound
<1>4. QED BY <1>1, <1>3

LEMMA RefusedKeepsIds ==
  ASSUME IdsInv,
         \/ \E q \in SetupReqs : FirstSetup(q) \/ SetupRefused(q)
         \/ \E q \in ModifyReqs : ModifyUnknown(q)
  PROVE  IdsSound(ues') /\ OthersStep
<1>1. ues'.ctx = ues.ctx /\ ues'.hash = ues.hash
  BY RefusedUes DEF IdsInv
<1>2. IdsSound(ues')
  BY <1>1 DEF IdsInv, IdsSound
<1>3. OthersStep
  BY <1>1 DEF OthersStep
<1>4. QED BY <1>2, <1>3

LEMMA StepKeepsIds ==
  ASSUME ReleaseIds = {}, IdsInv, [Next]_vars
  PROVE  IdsSound(ues') /\ OthersStep
<1>1. CASE \E q \in SetupReqs : FirstSetup(q) \/ SetupRefused(q) \/ SetupBearer(q)
  BY <1>1, RefusedKeepsIds, SetupKeepsIds
<1>2. CASE \E q \in ModifyReqs : ModifyUnknown(q) \/ ModifyMismatch(q) \/ ModifyBearer(q)
  BY <1>2, RefusedKeepsIds, MismatchKeepsIds, ModifyKeepsIds
<1>3. CASE \E id \in ReleaseIds : ReleaseUnknown(id) \/ ReleaseMissed(id) \/ ReleaseBearer(id)
  BY <1>3
<1>4. CASE UNCHANGED vars
  BY <1>4 DEF IdsInv, OthersStep, vars
<1>5. QED BY <1>1, <1>2, <1>3, <1>4 DEF Next

LEMMA InitIds == Init => IdsInv
<1> SUFFICES ASSUME Init PROVE IdsInv
  OBVIOUS
<1>1. BearerInv
  BY InitInv
<1>2. /\ \A r \in UeRows : ~ues.ctx[r].used
      /\ \A id \in UeIds : ues.hash[id] = NoRow
  BY DEF Init, EmptyUeTable
<1>3. IdsSound(ues)
  BY <1>2 DEF IdsSound
<1>4. QED BY <1>1, <1>3 DEF IdsInv

(* As long as no context is released, ids and contexts in use belong to    *)
(* each other after every request, whatever its sessions and DRBs.  (A     *)
(* release marks the context free before it looks the id up for the commit,*)
(* which fails: the id stays in the hash and leads to an unused context.)  *)
THEOREM IdsInvariant ==
  ASSUME ReleaseIds = {}
  PROVE  Spec => []IdsInv
<1>1. Init => IdsInv
  BY InitIds
<1>2. IdsInv /\ [Next]_vars => IdsInv'
  BY StepKeepsIds, StepKeepsInv DEF IdsInv
<1>3. QED BY <1>1, <1>2, PTL DEF Spec

(* A UE id that the CU-UP knows leads to a context in use, of that very    *)
(* UE: ue_ctx_commit enters the id and gives the old version's row back in *)
(* one request, and ue_ctx_rollback gives back the row it was asked about. *)
THEOREM UeIdsFound ==
  ASSUME ReleaseIds = {}
  PROVE  Spec => []UeHashSound
<1>1. IdsInv => UeHashSound
  BY DEF IdsInv, IdsSound, UeHashSound, Committed, Context
<1>2. QED BY <1>1, IdsInvariant, PTL

(* A request changes the context of no UE but the one it succeeds for, and *)
(* one that is refused or rolled back changes none: the new version is     *)
(* built in a row that is free.                                            *)
THEOREM OthersUntouched ==
  ASSUME ReleaseIds = {}
  PROVE  Spec => OthersKept
<1> DEFINE A == \A id \in UeIds :
       Committed(id) /\ ~(rsp'.cause \in {"success", "released"} /\ rsp'.cuup = id)
       => ues'.hash[id] = ues.hash[id] /\ ues'.ctx[ues.hash[id]] = Context(id)
<1>1. IdsInv /\ [Next]_vars => [A]_vars
  <2> SUFFICES ASSUME IdsInv, [Next]_vars, NEW id \in UeIds, Committed(id),
                      ~(rsp'.cause \in {"success", "released"} /\ rsp'.cuup = id)
               PROVE  ues'.hash[id] = ues.hash[id] /\ ues'.ctx[ues.hash[id]] = Context(id)
    OBVIOUS
  <2>1. OthersStep
    BY StepKeepsIds
  <2>2. QED BY <2>1 DEF OthersStep, Context
<1> HIDE DEF A
<1>2. Spec => [][A]_vars
  BY <1>1, IdsInvariant, PTL DEF Spec
<1>3. QED BY <1>2 DEF OthersKept, A

-----------------------------------------------------------------------------
(***************************************************************************)
(* Tables that only grow.  A row in use is either live, that is, the one   *)
(* its key leads to, or pending: taken and not committed yet.  No key is   *)
(* reserved before its commit, and yet no two pending rows share one: the  *)
(* id comes round again only after the search has passed every other id,   *)
(* it passes an id only when a row carries it, and when rows carry all of  *)
(* them there is no row left to take (compare NewKeysUnique).              *)
(***************************************************************************)
Pending(t) == {r \in Rows : t.used[r] /\ t.hash[t.key[r]] = NoRow}
Full(t) == \A r \in Rows : t.used[r] \/ r = t.lastSlot
CarriedIn(t, i) == \E r \in Rows : t.used[r] /\ t.key[r].te_id = i

Leads(t) ==
  \A k \in TunnelKey : t.hash[k] # NoRow => t.used[t.hash[k]] /\ t.key[t.hash[k]] = k
Found(t) == \A r \in Rows : t.used[r] => t.hash[t.key[r]] \in {r, NoRow}
OneKeyEach(t) == \A r, q \in Pending(t) : t.key[r] = t.key[q] => r = q
Passed(t) ==
  Full(t) \/ \A r \in Pending(t) :
               \A i \in Arc(MAX_TUNNEL_COUNT, t.key[r].te_id, t.lastId) : CarriedIn(t, i)

Growing(t) == t \in Table /\ Leads(t) /\ Found(t) /\ OneKeyEach(t) /\ Passed(t)

(* From t to u no row in use changes, and no key that is known.            *)
Grows(t, u) ==
  /\ \A r \in Rows : t.used[r] => u.used[r] /\ u.key[r] = t.key[r] /\ u.info[r] = t.info[r]
  /\ \A k \in TunnelKey : t.hash[k] # NoRow => u.hash[k] = t.hash[k]

LEMMA GrowsOn ==
  ASSUME NEW t, NEW u, NEW v, Grows(t, u), Grows(u, v)
  PROVE  Grows(t, v)
BY DEF Grows

LEMMA GrowsSame ==
  ASSUME NEW t
  PROVE  Grows(t, t)
BY DEF Grows

(* The id of every key that the hash knows is carried by a row in use.     *)
LEMMA KnownCarried ==
  ASSUME NEW t, Growing(t), NEW ip \in LocalIps, NEW i \in Rows,
         t.hash[[ip_addr |-> ip, te_id |-> i]] # NoRow
  PROVE  CarriedIn(t, i)
<1> DEFINE k == [ip_addr |-> ip, te_id |-> i]
<1>1. k \in TunnelKey /\ k.te_id = i
  BY DEF TunnelKey
<1> HIDE DEF k
<1>2. t.hash[k] \in Rows /\ t.hash[k] # NoRow
  BY <1>1, TableFields DEF Growing, k
<1>3. t.used[t.hash[k]] /\ t.key[t.hash[k]] = k
  BY <1>1, <1>2 DEF Growing, Leads
<1>4. QED BY <1>1, <1>2, <1>3 DEF CarriedIn

(* No row is left: an id is used up.                                       *)
LEMMA GrowMissed ==
  ASSUME NEW t, Growing(t), NEW ip \in LocalIps, KeyAvailable(t, ip),
         TakenFor(t, ip).row = NoRow
  PROVE  LET u == TakenFor(t, ip).tbl
         IN  /\ Growing(u) /\ Grows(t, u) /\ Pending(u) = Pending(t)
             /\ u.used = t.used /\ u.key = t.key /\ u.info = t.info /\ u.hash = t.hash
<1> DEFINE k == tunnel_key_alloc(t, ip).key
           s == tunnel_key_alloc(t, ip).tbl
           b == tunnel_add(s, k)
<1>1. t \in Table
  BY DEF Growing
<1>2. b = TakenFor(t, ip) /\ b.row = NoRow
  BY DEF TakenFor, KeyFor
<1>3. /\ k \in TunnelKey /\ t.hash[k] = NoRow
      /\ k.te_id \in Rows /\ s = SetLastId(t, k.te_id)
  BY <1>1, KeyAllocResult, KeyAllocScan
<1> HIDE DEF k, s
<1>4. /\ s \in Table /\ s.used = t.used /\ s.key = t.key /\ s.info = t.info /\ s.hash = t.hash
  BY <1>1, <1>3, SetLastIdFields
<1>5. b = tunnel_alloc(s, k)
  BY <1>3, <1>4 DEF tunnel_add
<1>6. FreeRows(s) \ {s.lastSlot} = {} /\ b.tbl = s
  BY <1>2, <1>3, <1>4, <1>5, AllocResult, AllocScan, NoRowAssumption DEF Rows
<1>7. Full(s)
  BY <1>6 DEF FreeRows, Full
<1>8. Pending(s) = Pending(t) /\ Grows(t, s)
  BY <1>4 DEF Pending, Grows
<1>9. Leads(s) /\ Found(s) /\ OneKeyEach(s) /\ Passed(s)
  BY <1>4, <1>7, <1>8 DEF Growing, Leads, Found, OneKeyEach, Passed
<1>10. Growing(s)
  BY <1>4, <1>9 DEF Growing
<1> HIDE DEF b
<1>11. QED BY <1>2, <1>4, <1>6, <1>8, <1>10

(* What the searches for a key and a row come to, and the row is filled in.*)
GrownBy(t, u, ip, k, r, v) ==
  /\ k \in TunnelKey /\ k.ip_addr = ip /\ k.te_id # t.lastId /\ t.hash[k] = NoRow
  /\ r \in Rows /\ ~t.used[r] /\ r # t.lastSlot
  /\ u \in Table /\ u.used = [t.used EXCEPT ![r] = TRUE]
  /\ u.key = [t.key EXCEPT ![r] = k] /\ u.info = [t.info EXCEPT ![r] = v]
  /\ u.hash = t.hash /\ u.lastId = k.te_id
  /\ \A i \in Rows \ {t.lastId} :
       Ahead(MAX_TUNNEL_COUNT, t.lastId, i) < Ahead(MAX_TUNNEL_COUNT, t.lastId, k.te_id)
       => t.hash[[ip_addr |-> ip, te_id |-> i]] # NoRow

LEMMA TakenGrows ==
  ASSUME NEW t \in Table, NEW ip \in LocalIps, KeyAvailable(t, ip),
         TakenFor(t, ip).row # NoRow, NEW v \in Info
  PROVE  GrownBy(t, Fill(TakenFor(t, ip).tbl, TakenFor(t, ip).row, v), ip, KeyFor(t, ip),
                 TakenFor(t, ip).row, v)
<1> DEFINE k == tunnel_key_alloc(t, ip).key
           s == tunnel_key_alloc(t, ip).tbl
           b == tunnel_add(s, k)
<1>2. b = TakenFor(t, ip) /\ b.row # NoRow /\ k = KeyFor(t, ip)
  BY DEF TakenFor, KeyFor
<1>3. /\ k \in TunnelKey /\ t.hash[k] = NoRow /\ k.ip_addr = ip
      /\ k.te_id \in Rows \ {t.lastId} /\ s = SetLastId(t, k.te_id)
      /\ \A i \in Rows \ {t.lastId} :
           Ahead(MAX_TUNNEL_COUNT, t.lastId, i)
             < Ahead(MAX_TUNNEL_COUNT, t.lastId, k.te_id)
           => t.hash[[ip_addr |-> ip, te_id |-> i]] # NoRow
  BY KeyAllocResult, KeyAllocScan
<1> HIDE DEF k, s
<1>4. /\ s \in Table /\ s.used = t.used /\ s.key = t.key /\ s.info = t.info
      /\ s.hash = t.hash /\ s.lastSlot = t.lastSlot /\ s.lastId = k.te_id
  BY <1>3, SetLastIdFields, CursorFields
<1>5. b = tunnel_alloc(s, k)
  BY <1>3, <1>4 DEF tunnel_add
<1>6. /\ b.row \in Rows /\ ~s.used[b.row] /\ b.row # s.lastSlot
      /\ b.tbl = TakeRow(s, b.row, k)
  BY <1>2, <1>3, <1>4, <1>5, AllocResult, AllocScan
<1> HIDE DEF b
<1>7. /\ b.tbl \in Table
      /\ b.tbl.used = [t.used EXCEPT ![b.row] = TRUE]
      /\ b.tbl.key = [t.key EXCEPT ![b.row] = k]
      /\ b.tbl.info = t.info /\ b.tbl.hash = t.hash
  BY <1>3, <1>4, <1>6, TakeRowFields
<1> DEFINE u == Fill(b.tbl, b.row, v)
<1>8. /\ u \in Table /\ u.used = b.tbl.used /\ u.key = b.tbl.key
      /\ u.info = [b.tbl.info EXCEPT ![b.row] = v] /\ u.hash = b.tbl.hash
  BY <1>6, <1>7, FillFields
<1>9. u.lastId = k.te_id
  BY <1>3, <1>4, <1>6, <1>7, CursorFields
<1> HIDE DEF u
<1>10. GrownBy(t, u, ip, k, b.row, v)
  BY <1>3, <1>4, <1>6, <1>7, <1>8, <1>9 DEF GrownBy
<1>11. QED BY <1>2, <1>10 DEF u

(* Taking a row: it becomes pending, and its key is not another pending    *)
(* row's.                                                                  *)
LEMMA GrowTaken ==
  ASSUME NEW t, Growing(t), NEW u, NEW ip \in LocalIps, NEW k, NEW r, NEW v \in Info,
         GrownBy(t, u, ip, k, r, v)
  PROVE  /\ Growing(u) /\ Grows(t, u) /\ Pending(u) = Pending(t) \union {r}
         /\ u.used[r] /\ u.key[r] = k /\ u.info[r] = v /\ u.hash = t.hash
<1> DEFINE n == MAX_TUNNEL_COUNT
<1>1. /\ t \in Table /\ u \in Table /\ k \in TunnelKey /\ k.te_id # t.lastId
      /\ t.hash[k] = NoRow /\ r \in Rows /\ ~t.used[r] /\ r # t.lastSlot
      /\ u.used = [t.used EXCEPT ![r] = TRUE] /\ u.key = [t.key EXCEPT ![r] = k]
      /\ u.info = [t.info EXCEPT ![r] = v] /\ u.hash = t.hash /\ u.lastId = k.te_id
  BY DEF GrownBy, Growing
<1>2. /\ t.used \in [Rows -> BOOLEAN] /\ t.key \in [Rows -> TunnelKey]
      /\ t.info \in [Rows -> Info] /\ t.hash \in [TunnelKey -> Rows \union {NoRow}]
      /\ t.lastId \in Rows /\ k.te_id \in Rows
      /\ n \in Nat \ {0} /\ Rows = 0 .. n - 1
      /\ \A q \in Rows : t.key[q].te_id \in Rows
  <2>1. /\ t.used \in [Rows -> BOOLEAN] /\ t.key \in [Rows -> TunnelKey]
        /\ t.info \in [Rows -> Info] /\ t.hash \in [TunnelKey -> Rows \union {NoRow}]
        /\ t.lastId \in Rows
    BY <1>1, TableFields
  <2>2. n \in Nat \ {0} /\ Rows = 0 .. n - 1
    BY TunnelCountAssumption DEF Rows
  <2>3. \A j \in TunnelKey : j.te_id \in Rows
    BY DEF TunnelKey
  <2>4. \A q \in Rows : t.key[q].te_id \in Rows
    BY <2>1, <2>3
  <2>5. QED BY <1>1, <2>1, <2>2, <2>3, <2>4
<1>3. u.used[r] /\ u.key[r] = k /\ u.info[r] = v
  BY <1>1, <1>2
<1>4. \A q \in Rows : t.used[q] =>
         q # r /\ u.used[q] /\ u.key[q] = t.key[q] /\ u.info[q] = t.info[q]
  BY <1>1, <1>2
<1>5. \A q \in Rows : u.used[q] => q = r \/ (t.used[q] /\ u.key[q] = t.key[q])
  BY <1>1, <1>2
<1>6. Grows(t, u)
  BY <1>1, <1>4 DEF Grows
<1>7. Pending(u) = Pending(t) \union {r}
  BY <1>1, <1>3, <1>4, <1>5 DEF Pending
<1>8. \A q \in Pending(t) : q \in Rows /\ t.used[q] /\ t.hash[t.key[q]] = NoRow
  BY DEF Pending
<1>9. \A i \in Rows : CarriedIn(t, i) => CarriedIn(u, i)
  BY <1>4 DEF CarriedIn
<1>10. CarriedIn(u, k.te_id)
  BY <1>1, <1>3 DEF CarriedIn
<1>11. ~Full(t)
  BY <1>1 DEF Full
<1>12. \A q \in Pending(t) : \A i \in Arc(n, t.key[q].te_id, t.lastId) : CarriedIn(t, i)
  BY <1>11 DEF Growing, Passed
<1>13. \A q \in Pending(t) : t.lastId \in Arc(n, t.key[q].te_id, t.lastId)
  BY <1>2, <1>8, ArcEnd
<1>14. \A i \in Rows \ {t.lastId} :
         Ahead(n, t.lastId, i) < Ahead(n, t.lastId, k.te_id) => CarriedIn(t, i)
  <2>1. \A i \in Rows \ {t.lastId} :
          Ahead(n, t.lastId, i) < Ahead(n, t.lastId, k.te_id)
          => t.hash[[ip_addr |-> ip, te_id |-> i]] # NoRow
    BY DEF GrownBy
  <2>2. \A i \in Rows : t.hash[[ip_addr |-> ip, te_id |-> i]] # NoRow => CarriedIn(t, i)
    BY KnownCarried
  <2>3. QED BY <2>1, <2>2
<1>15. ASSUME NEW g \in Pending(t), t.key[g] = k
       PROVE  FALSE
  <2>1. ASSUME NEW i \in Rows PROVE CarriedIn(t, i)
    <3>1. i \in Arc(n, k.te_id, t.lastId) \/ Ahead(n, t.lastId, i) < Ahead(n, t.lastId, k.te_id)
      BY <1>1, <1>2, ArcCloses
    <3>2. CASE i = t.lastId
      BY <1>12, <1>13, <3>2
    <3>3. CASE i # t.lastId
      <4>1. i \in Arc(n, k.te_id, t.lastId) => CarriedIn(t, i)
        BY <1>12, <1>15
      <4>2. QED BY <1>14, <3>1, <3>3, <4>1
    <3>4. QED BY <3>2, <3>3
  <2> DEFINE S == {q \in Rows : t.used[q]}
             id == [q \in Rows |-> t.key[q].te_id]
  <2>2. /\ S \in SUBSET Rows /\ id \in [Rows -> Rows]
        /\ \A i \in Rows : \E q \in S : id[q] = i
    BY <1>2, <2>1 DEF CarriedIn
  <2> HIDE DEF id, S
  <2>3. S = Rows
    BY <2>2, AllRowsTaken
  <2>4. QED BY <1>1, <2>3 DEF S
<1>16. OneKeyEach(u)
  <2> SUFFICES ASSUME NEW p \in Pending(u), NEW q \in Pending(u), u.key[p] = u.key[q]
               PROVE  p = q
    BY DEF OneKeyEach
  <2>1. \A x \in Pending(t) : x # r /\ u.key[x] = t.key[x]
    BY <1>4, <1>8
  <2>2. CASE p = r
    BY <1>3, <1>7, <1>15, <2>1, <2>2
  <2>3. CASE q = r
    BY <1>3, <1>7, <1>15, <2>1, <2>3
  <2>4. CASE p \in Pending(t) /\ q \in Pending(t)
    BY <2>1, <2>4 DEF Growing, OneKeyEach
  <2>5. QED BY <1>7, <2>2, <2>3, <2>4
<1>17. ASSUME NEW q \in Pending(u), NEW i \in Arc(n, u.key[q].te_id, u.lastId)
       PROVE  CarriedIn(u, i)
  <2>0. i \in Rows
    BY <1>2 DEF Arc
  <2>1. CASE q \in Pending(t)
    <3>1. q \in Rows /\ u.key[q] = t.key[q]
      BY <1>4, <1>8, <2>1
    <3>2. i \in Arc(n, t.key[q].te_id, k.te_id)
      BY <1>1, <1>17, <3>1
    <3>3. \/ i \in Arc(n, t.key[q].te_id, t.lastId) \/ i = k.te_id
          \/ Ahead(n, t.lastId, i) < Ahead(n, t.lastId, k.te_id)
      BY <1>2, <3>1, <3>2, ArcGrows
    <3>4. CarriedIn(t, t.lastId)
      BY <1>12, <1>13, <2>1
    <3>5. QED BY <1>9, <1>10, <1>12, <1>14, <2>0, <2>1, <3>3, <3>4
  <2>2. CASE q = r
    <3>1. i \in Rows /\ Ahead(n, k.te_id, i) <= Ahead(n, k.te_id, k.te_id)
      BY <1>1, <1>2, <1>3, <1>17, <2>2 DEF Arc
    <3>2. i = k.te_id
      <4> DEFINE j == k.te_id
      <4>1. j \in 0 .. n - 1 /\ i \in 0 .. n - 1 /\ n \in Nat \ {0}
        BY <1>2, <3>1
      <4>2. Ahead(n, j, i) <= Ahead(n, j, j)
        BY <3>1
      <4> HIDE DEF j
      <4>3. /\ Ahead(n, j, j) = IF j <= j THEN j - j ELSE j - j + n
            /\ Ahead(n, j, i) = IF j <= i THEN i - j ELSE i - j + n
        BY <4>1, AheadValue
      <4>4. i = j
        BY <4>1, <4>2, <4>3
      <4>5. QED BY <4>4 DEF j
    <3>3. QED BY <1>10, <3>2
  <2>3. QED BY <1>7, <2>1, <2>2
<1>18. Passed(u)
  BY <1>17 DEF Passed
<1>19. Leads(u)
  BY <1>1, <1>2, <1>4, NoRowAssumption DEF Growing, Leads, Rows
<1>20. Found(u)
  BY <1>1, <1>3, <1>5 DEF Growing, Found
<1>21. Growing(u)
  BY <1>1, <1>16, <1>18, <1>19, <1>20 DEF Growing
<1>22. QED BY <1>1, <1>3, <1>6, <1>7, <1>21

(* Committing a row: it is no longer pending, and nothing else changes.    *)
LEMMA GrowCommit ==
  ASSUME NEW t, Growing(t), NEW r \in Rows, t.used[r]
  PROVE  LET u == tunnel_commit(t, r)
         IN  /\ Growing(u) /\ Grows(t, u) /\ Pending(u) = Pending(t) \ {r}
             /\ u.used = t.used /\ u.key = t.key /\ u.info = t.info
<1> DEFINE u == tunnel_commit(t, r)
           k == t.key[r]
<1>1. /\ t \in Table
      /\ t.used \in [Rows -> BOOLEAN] /\ t.key \in [Rows -> TunnelKey]
      /\ t.info \in [Rows -> Info] /\ t.hash \in [TunnelKey -> Rows \union {NoRow}]
      /\ k \in TunnelKey
  BY TableFields DEF Growing
<1>2. t.hash[k] = NoRow \/ t.hash[k] = r
  BY DEF Growing, Found
<1>3. CASE t.hash[k] = r
  <2>1. u = t
    BY <1>3, NoRowAssumption DEF tunnel_commit, Rows
  <2>2. r \notin Pending(t)
    BY <1>3, NoRowAssumption DEF Pending, Rows
  <2>3. QED BY <2>1, <2>2, GrowsSame DEF Growing
<1>4. CASE t.hash[k] = NoRow
  <2>1. u = SetHash(t, k, r)
    BY <1>4 DEF tunnel_commit
  <2>2. /\ u \in Table /\ u.used = t.used /\ u.key = t.key /\ u.info = t.info
        /\ u.hash = [t.hash EXCEPT ![k] = r]
    BY <1>1, <2>1, SetHashFields
  <2>3. u.lastId = t.lastId /\ u.lastSlot = t.lastSlot
    BY <1>1, <2>1 DEF SetHash, Table
  <2> HIDE DEF u
  <2>4. r \in Pending(t)
    BY <1>4 DEF Pending
  <2>5. \A q \in Rows : t.used[q] /\ t.key[q] = k => q = r
    <3>1. ASSUME NEW q \in Rows, t.used[q], t.key[q] = k PROVE q \in Pending(t)
      BY <1>4, <3>1 DEF Pending
    <3>2. QED BY <2>4, <3>1 DEF Growing, OneKeyEach
  <2>6. u.hash[k] = r /\ \A j \in TunnelKey \ {k} : u.hash[j] = t.hash[j]
    BY <1>1, <2>2
  <2>7. \A q \in Rows : t.used[q] /\ q # r => u.hash[t.key[q]] = t.hash[t.key[q]]
    BY <1>1, <2>5, <2>6
  <2>8. Pending(u) = Pending(t) \ {r}
    <3>1. r # NoRow
      BY NoRowAssumption DEF Rows
    <3>2. QED BY <2>2, <2>6, <2>7, <3>1 DEF Pending
  <2>9. Grows(t, u)
    BY <1>4, <2>2, <2>6 DEF Grows
  <2>10. Leads(u)
    BY <2>2, <2>6 DEF Growing, Leads
  <2>11. Found(u)
    BY <2>2, <2>6, <2>7 DEF Growing, Found
  <2>12. OneKeyEach(u)
    BY <2>2, <2>8 DEF Growing, OneKeyEach
  <2>13. Passed(u)
    <3>1. Full(t) => Full(u)
      BY <2>2, <2>3 DEF Full
    <3>2. \A i : CarriedIn(t, i) => CarriedIn(u, i)
      BY <2>2 DEF CarriedIn
    <3>3. QED BY <2>2, <2>3, <2>8, <3>1, <3>2 DEF Growing, Passed
  <2>14. Growing(u)
    BY <2>2, <2>10, <2>11, <2>12, <2>13 DEF Growing
  <2>15. QED BY <2>2, <2>8, <2>9, <2>14, Zenon DEF u
<1>5. QED BY <1>2, <1>3, <1>4

-----------------------------------------------------------------------------
(***************************************************************************)
(* A handler in progress on a context that only grows.  t0 is the table it *)
(* starts from, "own" the DRBs its context has there, and X the rows it    *)
(* has in hand that are not on a list yet.                                 *)
(***************************************************************************)
IdIn(t, r) == DrbId(t.info[r].id)
ListsGood(t, c) ==
  /\ \A i \in 1 .. c.drbCount :
       c.drb[i] \in Rows /\ t.used[c.drb[i]] /\ t.info[c.drb[i]].kind = "drb"
  /\ \A i, j \in 1 .. c.drbCount :
       IdIn(t, c.drb[i]) = IdIn(t, c.drb[j]) => i = j \/ IdIn(t, c.drb[i]) \in Doubled
  /\ c.pdusCount <= c.drbCount
  /\ \A i \in 1 .. c.pdusCount : c.pdus[i] \in Rows /\ t.used[c.pdus[i]]

Listed(c) == {c.drb[i] : i \in 1 .. c.drbCount} \union {c.pdus[i] : i \in 1 .. c.pdusCount}
OwnDrbs(t0, own, c) ==
  \A i \in 1 .. c.drbCount : c.drb[i] \in own \/ (c.drb[i] \in Rows /\ ~t0.used[c.drb[i]])
GrantsHeld(t, granted) ==
  \A g \in granted : \E r \in Rows : t.used[r] /\ t.key[r] = g.key /\ Told(t.info[r]) = g.info

(* Every row that was free in t0 is in hand, or its key is announced, or   *)
(* it is the tunnel of a failed session.                                   *)
Accounted(t0, X, t, granted) ==
  \A r \in Rows : t.used[r] =>
    \/ t0.used[r] \/ r \in X \/ t.info[r] = PdusInfo(0)
    \/ \E g \in granted : g.key = t.key[r]

GrowWork(t0, own, X, w) ==
  /\ w \in Works /\ Growing(w.tbl) /\ Grows(t0, w.tbl)
  /\ ListsGood(w.tbl, w.ctx) /\ OwnDrbs(t0, own, w.ctx)
  /\ Pending(w.tbl) \subseteq X \union Listed(w.ctx)
  /\ GrantsHeld(w.tbl, w.granted) /\ Accounted(t0, X, w.tbl, w.granted)

(* What the set-ups of DRBs change: the table only by rows taken, and with *)
(* every grant the DRB list becomes longer.                                *)
Progress(w, s) ==
  /\ Grows(w.tbl, s.tbl) /\ s.tbl.hash = w.tbl.hash
  /\ s.ctx.drbCount >= w.ctx.drbCount
  /\ s.granted = w.granted \/ s.ctx.drbCount > w.ctx.drbCount

LEMMA ProgressOn ==
  ASSUME NEW w \in Works, NEW s \in Works, NEW x \in Works, Progress(w, s), Progress(s, x)
  PROVE  Progress(w, x)
<1>1. w.ctx.drbCount \in Int /\ s.ctx.drbCount \in Int /\ x.ctx.drbCount \in Int
  BY WorkFields, CtxFields
<1>2. Grows(w.tbl, x.tbl) /\ x.tbl.hash = w.tbl.hash
  BY GrowsOn DEF Progress
<1>3. QED BY <1>1, <1>2 DEF Progress

LEMMA ListsGoodOn ==
  ASSUME NEW t, NEW u, Grows(t, u), NEW c, ListsGood(t, c)
  PROVE  ListsGood(u, c)
<1>1. \A i \in 1 .. c.drbCount :
        /\ c.drb[i] \in Rows /\ t.used[c.drb[i]] /\ t.info[c.drb[i]].kind = "drb"
        /\ u.used[c.drb[i]] /\ u.info[c.drb[i]] = t.info[c.drb[i]]
  BY DEF ListsGood, Grows
<1>2. \A i \in 1 .. c.pdusCount : c.pdus[i] \in Rows /\ u.used[c.pdus[i]]
  BY DEF ListsGood, Grows
<1>3. \A i, j \in 1 .. c.drbCount :
        IdIn(u, c.drb[i]) = IdIn(u, c.drb[j]) => i = j \/ IdIn(u, c.drb[i]) \in Doubled
  <2>1. \A i \in 1 .. c.drbCount : IdIn(u, c.drb[i]) = IdIn(t, c.drb[i])
    BY <1>1 DEF IdIn
  <2>2. QED BY <2>1 DEF ListsGood
<1>4. c.pdusCount <= c.drbCount
  BY DEF ListsGood
<1>5. QED BY <1>1, <1>2, <1>3, <1>4 DEF ListsGood

LEMMA GrantsHeldOn ==
  ASSUME NEW t, NEW u, Grows(t, u), NEW granted, GrantsHeld(t, granted)
  PROVE  GrantsHeld(u, granted)
<1> SUFFICES ASSUME NEW g \in granted
             PROVE  \E r \in Rows : u.used[r] /\ u.key[r] = g.key /\ Told(u.info[r]) = g.info
  BY DEF GrantsHeld
<1>1. PICK r \in Rows : t.used[r] /\ t.key[r] = g.key /\ Told(t.info[r]) = g.info
  BY DEF GrantsHeld
<1>2. QED BY <1>1 DEF Grows

LEMMA AccountedOn ==
  ASSUME NEW t0, NEW X, NEW Y, NEW t, NEW u, Grows(t, u), NEW granted, NEW more,
         Accounted(t0, X, t, granted), granted \subseteq more, X \subseteq Y,
         \A r \in Rows : u.used[r] => t.used[r] \/ r \in Y
  PROVE  Accounted(t0, Y, u, more)
<1> SUFFICES ASSUME NEW r \in Rows, u.used[r]
             PROVE  \/ t0.used[r] \/ r \in Y \/ u.info[r] = PdusInfo(0)
                    \/ \E g \in more : g.key = u.key[r]
  BY DEF Accounted
<1>1. CASE r \in Y
  BY <1>1
<1>2. CASE t.used[r]
  <2>1. u.key[r] = t.key[r] /\ u.info[r] = t.info[r]
    BY <1>2 DEF Grows
  <2>2. QED BY <1>2, <2>1 DEF Accounted
<1>3. QED BY <1>1, <1>2

(* Where the table grows and the lists stay, the work stays sound.         *)
LEMMA GrowWorkTable ==
  ASSUME NEW t0, NEW own, NEW X, NEW w, GrowWork(t0, own, X, w), NEW s \in Works, NEW Y,
         Growing(s.tbl), Grows(w.tbl, s.tbl), Pending(s.tbl) \subseteq Y \union Listed(s.ctx),
         s.ctx = w.ctx, s.granted = w.granted, Accounted(t0, Y, s.tbl, s.granted)
  PROVE  GrowWork(t0, own, Y, s)
<1>1. ListsGood(s.tbl, s.ctx) /\ GrantsHeld(s.tbl, s.granted)
  BY ListsGoodOn, GrantsHeldOn DEF GrowWork
<1>2. Grows(t0, s.tbl) /\ OwnDrbs(t0, own, s.ctx)
  BY GrowsOn DEF GrowWork
<1>3. QED BY <1>1, <1>2 DEF GrowWork

(* One more DRB at the end of the list.                                    *)
LEMMA ListsGoodDrb ==
  ASSUME NEW t \in Table, NEW u \in Table, Grows(t, u), NEW c \in UeCtx, NoGaps(c),
         ListsGood(t, c), c.drbCount # MAX_DRB_PER_UE,
         NEW id \in DrbIds, \A i \in 1 .. c.drbCount : IdIn(t, c.drb[i]) # id,
         NEW r \in Rows, u.used[r], u.info[r].kind = "drb", IdIn(u, r) = DrbId(id)
  PROVE  ListsGood(u, DrbOn(c, r)) /\ Listed(DrbOn(c, r)) = Listed(c) \union {r}
<1> DEFINE d == DrbOn(c, r)
           n == c.drbCount
<1>1. /\ d.drb = [c.drb EXCEPT ![n + 1] = r] /\ d.drbCount = n + 1
      /\ d.drbCount \in 1 .. MAX_DRB_PER_UE /\ d.pdus = c.pdus /\ d.pdusCount = c.pdusCount
      /\ n \in Nat /\ c.drb \in [1 .. MAX_DRB_PER_UE -> RowOrNull]
      /\ c.pdusCount \in Nat /\ MAX_DRB_PER_UE \in Nat
  BY DrbListed, CtxFields
<1> HIDE DEF d
<1>2. d.drb[n + 1] = r /\ \A i \in 1 .. n : d.drb[i] = c.drb[i] /\ i # n + 1
  BY <1>1
<1>3. ListsGood(u, c)
  BY ListsGoodOn
<1>4. DrbId(id) = id \/ DrbId(id) \in Doubled
  <2>1. id \in 0 .. 255 /\ 0 \in 0 .. 255
    BY ByteAssumption
  <2>2. CASE id < 32
    BY <2>1, <2>2, ByteValue
  <2>3. CASE id >= 32
    BY <2>3 DEF Doubled
  <2>4. QED BY <2>1, <2>2, <2>3
<1>5. \A i \in 1 .. n : c.drb[i] \in Rows /\ u.used[c.drb[i]] /\ u.info[c.drb[i]].kind = "drb"
  BY <1>3 DEF ListsGood
<1>6. \A i \in 1 .. n : IdIn(u, c.drb[i]) = IdIn(u, r) => IdIn(u, r) \in Doubled
  <2>1. \A i \in 1 .. n : IdIn(u, c.drb[i]) = IdIn(t, c.drb[i])
    BY DEF ListsGood, Grows, IdIn
  <2>2. QED BY <1>4, <2>1
<1>7. \A i \in 1 .. n + 1 : i = n + 1 \/ i \in 1 .. n
  BY <1>1
<1>8. \A i \in 1 .. d.drbCount :
        d.drb[i] \in Rows /\ u.used[d.drb[i]] /\ u.info[d.drb[i]].kind = "drb"
  BY <1>1, <1>2, <1>5, <1>7
<1>9. \A i, j \in 1 .. n :
        IdIn(u, c.drb[i]) = IdIn(u, c.drb[j]) => i = j \/ IdIn(u, c.drb[i]) \in Doubled
  BY <1>3 DEF ListsGood
<1>10. \A i, j \in 1 .. d.drbCount :
         IdIn(u, d.drb[i]) = IdIn(u, d.drb[j]) => i = j \/ IdIn(u, d.drb[i]) \in Doubled
  BY <1>1, <1>2, <1>6, <1>7, <1>9, SMTT(30)
<1>11. d.pdusCount <= d.drbCount
  BY <1>1, <1>3 DEF ListsGood
<1>12. \A i \in 1 .. d.pdusCount : d.pdus[i] \in Rows /\ u.used[d.pdus[i]]
  BY <1>1, <1>3 DEF ListsGood
<1>13. ListsGood(u, d)
  BY <1>8, <1>10, <1>11, <1>12 DEF ListsGood
<1>14. Listed(d) = Listed(c) \union {r}
  <2>1. {d.drb[i] : i \in 1 .. d.drbCount} = {c.drb[i] : i \in 1 .. n} \union {r}
    BY <1>1, <1>2, <1>7
  <2>2. QED BY <1>1, <2>1, SMTT(30) DEF Listed
<1>15. QED BY <1>13, <1>14 DEF d

LEMMA DrbSetupGrows ==
  ASSUME NEW t0 \in Table, NEW own, NEW X, NEW w, GrowWork(t0, own, X, w), NEW id \in DrbIds
  PROVE  GrowWork(t0, own, X, drb_setup(w, id)) /\ Progress(w, drb_setup(w, id))
<1> DEFINE k == KeyFor(w.tbl, F1uIp)
           b == TakenFor(w.tbl, F1uIp)
           s == drb_setup(w, id)
           v == Cell(b.tbl, b.row, id)
<1>1. /\ w \in Works /\ w.tbl \in Table /\ w.ctx \in UeCtx /\ NoGaps(w.ctx)
      /\ w.ctx.drbCount \in Nat /\ w.granted \in SUBSET Grants
      /\ F1uIp \in LocalIps /\ s \in Works /\ Growing(w.tbl)
  BY WorkFields, CtxFields, IdAssumption, DrbSetupType DEF GrowWork
<1>2. KeyAvailable(w.tbl, F1uIp) =>
        k \in TunnelKey /\ b.tbl \in Table /\ b.row \in RowOrNull
  BY <1>1, TakenResult
<1>3. \/ s = w
      \/ /\ KeyAvailable(w.tbl, F1uIp) /\ b.row = NoRow
         /\ s = [w EXCEPT !.tbl = b.tbl]
      \/ /\ KeyAvailable(w.tbl, F1uIp) /\ b.row # NoRow
         /\ DrbAdded(w, s, k, b.row, b.tbl, id)
  BY <1>1, DrbSetupCases
<1>4. KeyAvailable(w.tbl, F1uIp) /\ b.row # NoRow =>
        v \in Info /\ Told(v) \in Info /\ v.kind = "drb" /\ DrbId(v.id) = DrbId(id)
  <2>1. KeyAvailable(w.tbl, F1uIp) /\ b.row # NoRow => b.row \in Rows /\ b.tbl \in Table
    BY <1>2 DEF RowOrNull
  <2> HIDE DEF b
  <2>2. QED BY <2>1, CellType DEF v
<1>5. KeyAvailable(w.tbl, F1uIp) /\ b.row = NoRow =>
        /\ Growing(b.tbl) /\ Grows(w.tbl, b.tbl) /\ Pending(b.tbl) = Pending(w.tbl)
        /\ b.tbl.hash = w.tbl.hash /\ b.tbl.used = w.tbl.used
  BY <1>1, GrowMissed
<1>6. KeyAvailable(w.tbl, F1uIp) /\ b.row # NoRow =>
        GrownBy(w.tbl, Fill(b.tbl, b.row, v), F1uIp, k, b.row, v)
  BY <1>1, <1>4, TakenGrows
<1> HIDE DEF k, b, s, v
<1>7. CASE s = w
  <2>1. Progress(w, w)
    BY <1>1, GrowsSame DEF Progress
  <2>2. QED BY <1>7, <2>1 DEF s
<1>8. CASE KeyAvailable(w.tbl, F1uIp) /\ b.row = NoRow /\ s = [w EXCEPT !.tbl = b.tbl]
  <2>1. /\ Growing(b.tbl) /\ Grows(w.tbl, b.tbl) /\ Pending(b.tbl) = Pending(w.tbl)
        /\ b.tbl.hash = w.tbl.hash /\ b.tbl \in Table /\ b.tbl.used = w.tbl.used
    BY <1>2, <1>5, <1>8
  <2>2. s.tbl = b.tbl /\ s.ctx = w.ctx /\ s.granted = w.granted
    BY <1>1, <1>8, <2>1, WriteTbl
  <2>3. Progress(w, s)
    BY <1>1, <2>1, <2>2 DEF Progress
  <2>4. Pending(s.tbl) \subseteq X \union Listed(s.ctx)
    BY <2>1, <2>2 DEF GrowWork
  <2>5. GrowWork(t0, own, X, s)
    <3>1. Accounted(t0, X, s.tbl, s.granted)
      BY <2>1, <2>2, AccountedOn DEF GrowWork
    <3>2. QED BY <1>1, <2>1, <2>2, <2>4, <3>1, GrowWorkTable
  <2>6. QED BY <2>3, <2>5 DEF s
<1>9. CASE /\ KeyAvailable(w.tbl, F1uIp) /\ b.row # NoRow
           /\ DrbAdded(w, s, k, b.row, b.tbl, id)
  <2> DEFINE u == Fill(b.tbl, b.row, v)
             d == DrbOn(w.ctx, b.row)
             g == w.granted \union {Grant(k, Told(v))}
  <2>1. /\ b.row \in Rows /\ k \in TunnelKey /\ w.ctx.drbCount # MAX_DRB_PER_UE
        /\ Search(AsDrbs(w.tbl), Drbs(w.ctx), id) = 0
        /\ v \in Info /\ Told(v) \in Info /\ v.kind = "drb" /\ DrbId(v.id) = DrbId(id)
    BY <1>2, <1>4, <1>9 DEF RowOrNull, DrbAdded
  <2>2. GrownBy(w.tbl, u, F1uIp, k, b.row, v)
    BY <1>6, <1>9
  <2>3. s = Written(w, u, d, g)
    BY <1>9 DEF DrbAdded, v
  <2>4. /\ d \in UeCtx /\ NoGaps(d) /\ d.drb = [w.ctx.drb EXCEPT ![w.ctx.drbCount + 1] = b.row]
        /\ d.drbCount = w.ctx.drbCount + 1
    BY <1>1, <2>1, DrbListed
  <2>5. g \in SUBSET Grants
    BY <1>1, <2>1 DEF Grant, Grants
  <2> HIDE DEF u, d, g
  <2>6. /\ Growing(u) /\ Grows(w.tbl, u) /\ Pending(u) = Pending(w.tbl) \union {b.row}
        /\ u.used[b.row] /\ u.key[b.row] = k /\ u.info[b.row] = v /\ u.hash = w.tbl.hash
    BY <1>1, <2>1, <2>2, GrowTaken
  <2>7. u \in Table /\ ~w.tbl.used[b.row] /\ u.used = [w.tbl.used EXCEPT ![b.row] = TRUE]
    BY <2>2 DEF GrownBy
  <2>8. s.tbl = u /\ s.ctx = d /\ s.granted = g
    BY <1>1, <2>3, <2>4, <2>5, <2>7, WrittenFields
  <2>9. \A i \in 1 .. w.ctx.drbCount : IdIn(w.tbl, w.ctx.drb[i]) # id
    <3>1. /\ DOMAIN Drbs(w.ctx) = 1 .. w.ctx.drbCount
          /\ \A i \in 1 .. w.ctx.drbCount : Drbs(w.ctx)[i] = w.ctx.drb[i]
      BY <1>1, Lists
    <3>2. 0 \notin 1 .. w.ctx.drbCount
      BY <1>1
    <3>3. \A i \in 1 .. w.ctx.drbCount : AsDrbs(w.tbl)[Drbs(w.ctx)[i]] # id
      BY <1>1, <2>1, <3>1, <3>2, SearchResult
    <3>4. \A i \in 1 .. w.ctx.drbCount : w.ctx.drb[i] \in Rows
      BY DEF GrowWork, ListsGood
    <3>5. QED BY <3>1, <3>3, <3>4 DEF AsDrbs, IdIn
  <2>10. ListsGood(w.tbl, w.ctx)
    BY DEF GrowWork
  <2>11. ListsGood(u, d) /\ Listed(d) = Listed(w.ctx) \union {b.row}
    <3>1. u.info[b.row].kind = "drb" /\ IdIn(u, b.row) = DrbId(id)
      BY <2>1, <2>6 DEF IdIn
    <3>2. QED BY <1>1, <2>1, <2>6, <2>7, <2>9, <2>10, <3>1, ListsGoodDrb DEF d
  <2>12. OwnDrbs(t0, own, d)
    <3>1. ~t0.used[b.row]
      BY <2>1, <2>7 DEF GrowWork, Grows
    <3>2. ASSUME NEW i \in 1 .. d.drbCount
          PROVE  d.drb[i] \in own \/ (d.drb[i] \in Rows /\ ~t0.used[d.drb[i]])
      <4>1. CASE i = w.ctx.drbCount + 1
        <5>1. d.drb[i] = b.row
          BY <1>1, <2>1, <2>4, <4>1, CtxFields
        <5>2. QED BY <2>1, <3>1, <5>1
      <4>2. CASE i # w.ctx.drbCount + 1
        <5>1. i \in 1 .. w.ctx.drbCount /\ d.drb[i] = w.ctx.drb[i]
          BY <1>1, <2>4, <4>2, CtxFields
        <5>2. QED BY <5>1 DEF GrowWork, OwnDrbs
      <4>3. QED BY <4>1, <4>2
    <3>3. QED BY <3>2 DEF OwnDrbs
  <2>13. GrantsHeld(u, g)
    <3>1. GrantsHeld(u, w.granted)
      BY <2>6, GrantsHeldOn DEF GrowWork
    <3>2. Grant(k, Told(v)).key = k /\ Grant(k, Told(v)).info = Told(v)
      BY DEF Grant
    <3>3. QED BY <2>1, <2>6, <3>1, <3>2 DEF GrantsHeld, g
  <2>14. Pending(u) \subseteq X \union Listed(d)
    BY <2>6, <2>11 DEF GrowWork
  <2>15. Grows(t0, u)
    BY <2>6, GrowsOn DEF GrowWork
  <2>19. Accounted(t0, X, u, g)
    <3>1. Accounted(t0, X \union {b.row}, u, g)
      <4>1. \A r \in Rows : u.used[r] => w.tbl.used[r] \/ r \in X \union {b.row}
        BY <1>1, <2>1, <2>7, TableFields
      <4>2. w.granted \subseteq g /\ Accounted(t0, X, w.tbl, w.granted)
        BY DEF g, GrowWork
      <4>3. QED BY <2>6, <4>1, <4>2, AccountedOn
    <3>2. \E x \in g : x.key = u.key[b.row]
      <4>1. Grant(k, Told(v)).key = k
        BY DEF Grant
      <4>2. QED BY <2>6, <4>1 DEF g
    <3>3. QED BY <3>1, <3>2 DEF Accounted
  <2>16. GrowWork(t0, own, X, s)
    BY <1>1, <2>6, <2>8, <2>11, <2>12, <2>13, <2>14, <2>15, <2>19 DEF GrowWork
  <2>17. Progress(w, s)
    <3>1. s.ctx.drbCount > w.ctx.drbCount /\ s.ctx.drbCount >= w.ctx.drbCount
      BY <1>1, <2>4, <2>8
    <3>2. Grows(w.tbl, s.tbl) /\ s.tbl.hash = w.tbl.hash
      BY <2>6, <2>8
    <3>3. QED BY <3>1, <3>2, Zenon DEF Progress
  <2>18. QED BY <2>16, <2>17 DEF s
<1>10. QED BY <1>3, <1>7, <1>8, <1>9

(* Over the DRBs of a session.                                             *)
LEMMA DrbsSetupGrows ==
  ASSUME NEW t0 \in Table, NEW own, NEW X, NEW w, GrowWork(t0, own, X, w), NEW ids \in Seq(DrbIds)
  PROVE  LET s == FoldLeft(drb_setup, w, ids)
         IN  GrowWork(t0, own, X, s) /\ Progress(w, s)
<1> DEFINE T == {x \in Works : GrowWork(t0, own, X, x) /\ Progress(w, x)}
<1>1. w \in T
  <2>1. w \in Works /\ w.ctx.drbCount \in Nat
    BY WorkFields, CtxFields DEF GrowWork
  <2>2. QED BY <2>1, GrowsSame DEF Progress
<1>2. ASSUME NEW x \in T, NEW i \in 1 .. Len(ids)
      PROVE  drb_setup(x, ids[i]) \in T
  <2>1. ids[i] \in DrbIds /\ GrowWork(t0, own, X, x) /\ Progress(w, x) /\ x \in Works
    BY <1>2
  <2>2. GrowWork(t0, own, X, drb_setup(x, ids[i])) /\ Progress(x, drb_setup(x, ids[i]))
    BY <2>1, DrbSetupGrows
  <2>3. drb_setup(x, ids[i]) \in Works /\ w \in Works
    BY <2>2 DEF GrowWork
  <2>4. Progress(w, drb_setup(x, ids[i]))
    BY <2>1, <2>2, <2>3, ProgressOn
  <2>5. QED BY <2>2, <2>3, <2>4
<1> HIDE DEF T
<1>3. FoldLeft(drb_setup, w, ids) \in T
  BY <1>1, <1>2, DrbFold
<1>4. QED BY <1>3 DEF T

(* One more session at the end of the list.                                *)
LEMMA ListsGoodPdus ==
  ASSUME NEW t, NEW c \in UeCtx, NoGaps(c), ListsGood(t, c),
         c.pdusCount < MAX_PDUS_PER_UE, c.pdusCount < c.drbCount,
         NEW r \in Rows, t.used[r]
  PROVE  LET d == PdusOn(c, c.pdusCount, r)
         IN  ListsGood(t, d) /\ Listed(d) = Listed(c) \union {r}
<1> DEFINE d == PdusOn(c, c.pdusCount, r)
           n == c.pdusCount
<1>0. n \in Nat /\ c.drbCount \in Nat /\ MAX_PDUS_PER_UE \in Nat
      /\ c.pdus \in [1 .. MAX_PDUS_PER_UE -> RowOrNull]
  BY CtxFields
<1>1. /\ d.pdus = [c.pdus EXCEPT ![n + 1] = r] /\ d.pdusCount = n + 1
      /\ d.drb = c.drb /\ d.drbCount = c.drbCount
  BY <1>0, PdusListed
<1> HIDE DEF d
<1>2. d.pdus[n + 1] = r /\ \A i \in 1 .. n : d.pdus[i] = c.pdus[i]
  BY <1>0, <1>1
<1>3. \A i \in 1 .. n + 1 : i = n + 1 \/ i \in 1 .. n
  BY <1>0
<1>4. /\ \A i \in 1 .. c.drbCount :
           c.drb[i] \in Rows /\ t.used[c.drb[i]] /\ t.info[c.drb[i]].kind = "drb"
      /\ \A i, j \in 1 .. c.drbCount :
           IdIn(t, c.drb[i]) = IdIn(t, c.drb[j]) => i = j \/ IdIn(t, c.drb[i]) \in Doubled
      /\ \A i \in 1 .. n : c.pdus[i] \in Rows /\ t.used[c.pdus[i]]
  BY DEF ListsGood
<1>5. \A i \in 1 .. d.pdusCount : d.pdus[i] \in Rows /\ t.used[d.pdus[i]]
  BY <1>1, <1>2, <1>3, <1>4
<1>6. d.pdusCount <= d.drbCount
  BY <1>0, <1>1
<1>7. ListsGood(t, d)
  BY <1>1, <1>4, <1>5, <1>6 DEF ListsGood
<1>8. {d.pdus[i] : i \in 1 .. d.pdusCount} = {c.pdus[i] : i \in 1 .. n} \union {r}
  <2>1. 1 .. d.pdusCount = (1 .. n) \union {n + 1}
    BY <1>0, <1>1
  <2>2. QED BY <1>2, <2>1
<1>9. Listed(d) = Listed(c) \union {r}
  BY <1>1, <1>8 DEF Listed
<1>10. QED BY <1>7, <1>9 DEF d

(* The row in hand, as it is when the set-up of its session starts.        *)
InHand(t, row, key, id) ==
  /\ t.used[row] /\ t.key[row] = key /\ t.info[row] = PdusInfo(id) /\ t.hash[key] = NoRow

(* A set-up announces nothing unless it adds a session.                    *)
Adding(w, s) ==
  \/ s.granted = w.granted /\ s.ctx.pdusCount = w.ctx.pdusCount
  \/ s.ctx.pdusCount > w.ctx.pdusCount

(* The set-up of a session lives, and the work stays sound, or it dies.    *)
LEMMA SessionGrows ==
  ASSUME NEW t0 \in Table, NEW own, NEW w \in Works, NEW q \in SessionReq, NEW row \in Rows,
         NEW key \in TunnelKey, GrowWork(t0, own, {row}, Filled(w, row, q)),
         InHand(Filled(w, row, q).tbl, row, key, q.id),
         w.ctx.pdusCount # MAX_PDUS_PER_UE
  PROVE  LET r == SessionSetup(w, q, key, row)
         IN  r.dead \/ (GrowWork(t0, own, {}, r) /\ Adding(w, r))
<1> DEFINE f == Filled(w, row, q)
           s == DrbsDone(w, row, q)
           r == SessionSetup(w, q, key, row)
           v == PdusInfo(q.id)
<1>1. r \in Works /\ v \in Info
  <2>1. v \in Info
    BY ContentAssumption DEF SessionReq, PdusInfo
  <2>2. QED BY <2>1, SessionType
<1>2. /\ f \in Works /\ f.ctx = w.ctx /\ f.granted = w.granted
      /\ s \in Works /\ SameSessions(w, s) /\ q.drbs \in Seq(DrbIds)
      /\ \/ r = [s EXCEPT !.dead = TRUE]
         \/ /\ s.ctx.drbCount = w.ctx.drbCount /\ q.id = 0
            /\ r = [s EXCEPT !.tbl = tunnel_commit(tunnel_remove(s.tbl, key), row)]
         \/ /\ s.ctx.drbCount # w.ctx.drbCount
            /\ r = Written(s, s.tbl, PdusOn(s.ctx, s.ctx.pdusCount, row),
                           s.granted \union {Grant(key, v)})
  BY SessionCases
<1>3. GrowWork(t0, own, {row}, s) /\ Progress(f, s)
  BY <1>2, DrbsSetupGrows DEF DrbsDone
<1>4. /\ s.tbl \in Table /\ s.ctx \in UeCtx /\ NoGaps(s.ctx) /\ s.granted \in SUBSET Grants
      /\ Growing(s.tbl)
  BY <1>3, WorkFields DEF GrowWork
<1>5. s.tbl.used[row] /\ s.tbl.key[row] = key /\ s.tbl.info[row] = v /\ s.tbl.hash[key] = NoRow
  BY <1>3 DEF Progress, Grows, InHand
<1>9. CASE r = [s EXCEPT !.dead = TRUE]
  <2>1. r.dead
    BY <1>2, <1>9, WriteDead
  <2>2. QED BY <2>1 DEF r
<1>6. CASE /\ s.ctx.drbCount = w.ctx.drbCount /\ q.id = 0
           /\ r = [s EXCEPT !.tbl = tunnel_commit(tunnel_remove(s.tbl, key), row)]
  <2> DEFINE y == tunnel_commit(s.tbl, row)
  <2>1. tunnel_remove(s.tbl, key) = s.tbl
    BY <1>5 DEF tunnel_remove
  <2>2. /\ Growing(y) /\ Grows(s.tbl, y) /\ Pending(y) = Pending(s.tbl) \ {row}
        /\ y.used = s.tbl.used /\ y.info = s.tbl.info
    BY <1>4, <1>5, GrowCommit
  <2>3. r = [s EXCEPT !.tbl = y]
    BY <1>6, <2>1
  <2> HIDE DEF y, s, r, f
  <2>4. y \in Table
    BY <2>2 DEF Growing
  <2>5. r.tbl = y /\ r.ctx = s.ctx /\ r.granted = s.granted
    BY <1>2, <2>3, <2>4, WriteTbl
  <2>6. Pending(r.tbl) \subseteq {} \union Listed(r.ctx)
    BY <1>3, <2>2, <2>5 DEF GrowWork
  <2>9. Accounted(t0, {}, r.tbl, r.granted)
    <3>1. Accounted(t0, {row}, y, s.granted)
      BY <1>3, <2>2, AccountedOn DEF GrowWork
    <3>2. y.info[row] = PdusInfo(0)
      BY <1>5, <1>6, <2>2 DEF v
    <3>3. QED BY <2>5, <3>1, <3>2 DEF Accounted
  <2>7. GrowWork(t0, own, {}, r)
    BY <1>1, <1>3, <2>2, <2>5, <2>6, <2>9, GrowWorkTable
  <2>10. Adding(w, r)
    <3>1. f.ctx.drbCount = w.ctx.drbCount /\ f.ctx.drbCount \in Int /\ f.granted = w.granted
      BY <1>2, WorkFields, CtxFields
    <3>2. s.granted = f.granted
      BY <1>3, <1>6, <3>1 DEF Progress
    <3>3. s.ctx.pdusCount = w.ctx.pdusCount
      BY <1>2 DEF SameSessions
    <3>4. QED BY <2>5, <3>1, <3>2, <3>3 DEF Adding
  <2>8. QED BY <2>7, <2>10 DEF r
<1>7. CASE /\ s.ctx.drbCount # w.ctx.drbCount
           /\ r = Written(s, s.tbl, PdusOn(s.ctx, s.ctx.pdusCount, row),
                          s.granted \union {Grant(key, v)})
  <2> DEFINE d == PdusOn(s.ctx, s.ctx.pdusCount, row)
             g == s.granted \union {Grant(key, v)}
  <2>1. s.ctx.pdusCount \in Nat /\ s.ctx.pdusCount < MAX_PDUS_PER_UE
    <3>1. s.ctx.pdusCount \in 0 .. MAX_PDUS_PER_UE /\ MAX_PDUS_PER_UE \in Nat
      BY <1>4, CtxFields
    <3>2. s.ctx.pdusCount # MAX_PDUS_PER_UE
      BY <1>2 DEF SameSessions
    <3>3. QED BY <3>1, <3>2
  <2>2. d \in UeCtx /\ NoGaps(d) /\ d.drb = s.ctx.drb /\ d.drbCount = s.ctx.drbCount
    BY <1>4, <2>1, PdusListed
  <2>3. g \in SUBSET Grants
    BY <1>1, <1>4 DEF Grant, Grants
  <2>4. s.ctx.pdusCount < s.ctx.drbCount
    <3>1. w.ctx.pdusCount \in Nat /\ w.ctx.drbCount \in Nat /\ s.ctx.drbCount \in Nat
      BY <1>2, <1>4, CtxFields, WorkFields
    <3>2. w.ctx.pdusCount <= w.ctx.drbCount
      BY <1>2 DEF GrowWork, ListsGood
    <3>3. s.ctx.drbCount > w.ctx.drbCount
      BY <1>2, <1>3, <1>7, <3>1 DEF Progress
    <3>4. s.ctx.pdusCount = w.ctx.pdusCount
      BY <1>2 DEF SameSessions
    <3>5. QED BY <3>1, <3>2, <3>3, <3>4
  <2>5. ListsGood(s.tbl, s.ctx)
    BY <1>3 DEF GrowWork
  <2>6. ListsGood(s.tbl, d) /\ Listed(d) = Listed(s.ctx) \union {row}
    BY <1>4, <1>5, <2>1, <2>4, <2>5, ListsGoodPdus
  <2> HIDE DEF d, g, s, r, f
  <2>7. r.tbl = s.tbl /\ r.ctx = d /\ r.granted = g
    BY <1>2, <1>4, <1>7, <2>2, <2>3, WrittenFields DEF d, g
  <2>8. GrantsHeld(s.tbl, g)
    <3>1. Grant(key, v).key = key /\ Grant(key, v).info = v /\ Told(v) = v
      BY DEF Grant, Told, PdusInfo, v
    <3>2. GrantsHeld(s.tbl, s.granted)
      BY <1>3 DEF GrowWork
    <3>3. QED BY <1>5, <3>1, <3>2 DEF GrantsHeld, g
  <2>9. OwnDrbs(t0, own, d)
    BY <1>3, <2>2 DEF GrowWork, OwnDrbs
  <2>10. Pending(s.tbl) \subseteq {} \union Listed(d)
    BY <1>3, <2>6 DEF GrowWork
  <2>13. Accounted(t0, {}, s.tbl, g)
    <3>1. Accounted(t0, {row}, s.tbl, g)
      <4>1. Accounted(t0, {row}, s.tbl, s.granted) /\ s.granted \subseteq g
        BY <1>3 DEF GrowWork, g
      <4>2. QED BY <4>1, GrowsSame, AccountedOn
    <3>2. \E x \in g : x.key = s.tbl.key[row]
      <4>1. Grant(key, v).key = key
        BY DEF Grant
      <4>2. QED BY <1>5, <4>1 DEF g
    <3>3. QED BY <3>1, <3>2 DEF Accounted
  <2>11. GrowWork(t0, own, {}, r)
    BY <1>1, <1>3, <2>6, <2>7, <2>8, <2>9, <2>10, <2>13 DEF GrowWork
  <2>14. Adding(w, r)
    <3>1. s.ctx.pdusCount = w.ctx.pdusCount
      BY <1>2 DEF SameSessions
    <3>2. d.pdusCount = s.ctx.pdusCount + 1
      BY <1>4, <2>1, PdusListed DEF d
    <3>3. QED BY <2>1, <2>7, <3>1, <3>2 DEF Adding
  <2>12. QED BY <2>11, <2>14 DEF r
<1>8. QED BY <1>2, <1>6, <1>7, <1>9

LEMMA PdusSetupGrows ==
  ASSUME NEW t0 \in Table, NEW own, NEW w, GrowWork(t0, own, {}, w), NEW q \in SessionReq
  PROVE  LET s == pdus_setup(w, q)
         IN  s.dead \/ (GrowWork(t0, own, {}, s) /\ Adding(w, s))
<1> DEFINE k == KeyFor(w.tbl, q.ip)
           b == TakenFor(w.tbl, q.ip)
           s == pdus_setup(w, q)
           x == [w EXCEPT !.tbl = b.tbl]
           f == Filled(x, b.row, q)
           v == PdusInfo(q.id)
<1>1. w \in Works /\ w.tbl \in Table /\ Growing(w.tbl) /\ v \in Info
  BY WorkFields, ContentAssumption DEF GrowWork, SessionReq, PdusInfo
<1>2. ASSUME q.ip \in LocalIps, KeyAvailable(w.tbl, q.ip)
      PROVE  /\ k \in TunnelKey /\ w.tbl.hash[k] = NoRow
             /\ b.row \in RowOrNull /\ b.tbl \in Table
  BY <1>1, <1>2, TakenResult
<1>3. \/ s = [w EXCEPT !.dead = TRUE]
      \/ s = w
      \/ /\ q.ip \in LocalIps /\ KeyAvailable(w.tbl, q.ip)
         /\ b.row = NoRow /\ s = x
      \/ /\ q.ip \in LocalIps /\ KeyAvailable(w.tbl, q.ip)
         /\ b.row # NoRow /\ PdusTried(w, s, q)
  BY <1>1, PdusSetupCases
<1>4. CASE s = [w EXCEPT !.dead = TRUE]
  <2> HIDE DEF s
  <2>1. s.dead
    BY <1>1, <1>4, WriteDead
  <2>2. QED BY <2>1 DEF s
<1>5. CASE s = w
  <2>1. Adding(w, w)
    BY DEF Adding
  <2> HIDE DEF s
  <2>2. GrowWork(t0, own, {}, s) /\ Adding(w, s)
    BY <1>5, <2>1
  <2>3. QED BY <2>2 DEF s
<1>6. CASE q.ip \in LocalIps /\ KeyAvailable(w.tbl, q.ip) /\ b.row = NoRow /\ s = x
  <2>1. Growing(b.tbl) /\ Grows(w.tbl, b.tbl) /\ Pending(b.tbl) = Pending(w.tbl)
        /\ b.tbl.used = w.tbl.used
    BY <1>1, <1>6, GrowMissed
  <2>2. b.tbl \in Table
    BY <1>2, <1>6
  <2> HIDE DEF b
  <2>3. x \in Works /\ x.tbl = b.tbl /\ x.ctx = w.ctx /\ x.granted = w.granted
    BY <1>1, <2>2, WriteTbl
  <2> HIDE DEF x, s
  <2>4. Pending(x.tbl) \subseteq {} \union Listed(x.ctx)
    BY <2>1, <2>3 DEF GrowWork
  <2>5. GrowWork(t0, own, {}, x)
    <3>1. Accounted(t0, {}, x.tbl, x.granted)
      BY <2>1, <2>3, AccountedOn DEF GrowWork
    <3>2. QED BY <2>1, <2>3, <2>4, <3>1, GrowWorkTable
  <2>7. Adding(w, x)
    BY <2>3 DEF Adding
  <2>8. GrowWork(t0, own, {}, s) /\ Adding(w, s)
    BY <1>6, <2>5, <2>7
  <2>6. QED BY <2>8 DEF s
<1>7. CASE /\ q.ip \in LocalIps /\ KeyAvailable(w.tbl, q.ip)
           /\ b.row # NoRow /\ PdusTried(w, s, q)
  <2> DEFINE u == Fill(b.tbl, b.row, v)
  <2>1. /\ b.row \in Rows /\ b.tbl \in Table /\ k \in TunnelKey /\ w.tbl.hash[k] = NoRow
    BY <1>2, <1>7 DEF RowOrNull
  <2>2. s = SessionSetup(x, q, k, b.row) /\ w.ctx.pdusCount # MAX_PDUS_PER_UE
    BY <1>7 DEF PdusTried
  <2>3. GrownBy(w.tbl, u, q.ip, k, b.row, v)
    BY <1>1, <1>7, TakenGrows
  <2> HIDE DEF b, k
  <2>4. x \in Works /\ x.tbl = b.tbl /\ x.ctx = w.ctx /\ x.granted = w.granted
    BY <1>1, <2>1, WriteTbl
  <2> HIDE DEF x, s
  <2>5. /\ Growing(u) /\ Grows(w.tbl, u) /\ Pending(u) = Pending(w.tbl) \union {b.row}
        /\ u.used[b.row] /\ u.key[b.row] = k /\ u.info[b.row] = v /\ u.hash = w.tbl.hash
    BY <1>1, <1>7, <2>3, GrowTaken
  <2>6. f \in Works /\ f.ctx = w.ctx /\ f.tbl = u /\ f.granted = w.granted
    <3>1. /\ Filled(x, b.row, q) \in Works /\ Filled(x, b.row, q).ctx = x.ctx
          /\ Filled(x, b.row, q).tbl = Fill(x.tbl, b.row, PdusInfo(q.id))
          /\ Filled(x, b.row, q).granted = x.granted
      BY <2>1, <2>4, SessionCases
    <3>2. QED BY <2>4, <3>1, Zenon
  <2> HIDE DEF f, u, v
  <2>7. GrowWork(t0, own, {b.row}, f)
    <3>1. Pending(f.tbl) \subseteq {b.row} \union Listed(f.ctx)
      BY <2>5, <2>6 DEF GrowWork
    <3>2. u.used = [w.tbl.used EXCEPT ![b.row] = TRUE] /\ w.tbl.used \in [Rows -> BOOLEAN]
      BY <1>1, <2>3, TableFields DEF GrownBy
    <3>3. \A y \in Rows : u.used[y] => w.tbl.used[y] \/ y \in {b.row}
      BY <2>1, <3>2
    <3>4. Accounted(t0, {b.row}, f.tbl, f.granted)
      BY <2>5, <2>6, <3>3, AccountedOn DEF GrowWork
    <3>5. QED BY <2>5, <2>6, <3>1, <3>4, GrowWorkTable
  <2>8. InHand(f.tbl, b.row, k, q.id)
    BY <2>1, <2>5, <2>6 DEF InHand, v
  <2>9. s.dead \/ (GrowWork(t0, own, {}, s) /\ Adding(x, s))
    <3>1. LET y == SessionSetup(x, q, k, b.row)
          IN  y.dead \/ (GrowWork(t0, own, {}, y) /\ Adding(x, y))
      BY <2>1, <2>2, <2>4, <2>7, <2>8, SessionGrows DEF f
    <3>2. QED BY <2>2, <3>1
  <2>10. s.dead \/ (GrowWork(t0, own, {}, s) /\ Adding(w, s))
    BY <2>4, <2>9 DEF Adding
  <2>11. QED BY <2>10 DEF s
<1>8. QED BY <1>3, <1>4, <1>5, <1>6, <1>7

LEMMA SessionsSetupGrows ==
  ASSUME NEW t0 \in Table, NEW own, NEW w, GrowWork(t0, own, {}, w),
         NEW list \in Seq(SessionReq)
  PROVE  LET s == FoldLeft(pdus_setup, w, list)
         IN  s.dead \/ (GrowWork(t0, own, {}, s) /\ Adding(w, s))
<1> DEFINE T == {x \in Works : x.dead \/ (GrowWork(t0, own, {}, x) /\ Adding(w, x))}
<1>1. w \in T
  BY DEF GrowWork, Adding
<1>2. ASSUME NEW x \in T, NEW i \in 1 .. Len(list)
      PROVE  pdus_setup(x, list[i]) \in T
  <2> DEFINE s == pdus_setup(x, list[i])
  <2>1. list[i] \in SessionReq /\ x \in Works
        /\ (x.dead \/ (GrowWork(t0, own, {}, x) /\ Adding(w, x)))
    BY <1>2
  <2>2. s \in Works
    BY <2>1, PdusSetupType
  <2>3. CASE x.dead
    <3>1. s = [x EXCEPT !.dead = TRUE]
      BY <2>3 DEF pdus_setup
    <3> HIDE DEF s
    <3>2. s.dead
      BY <2>1, <3>1, WriteDead
    <3>3. QED BY <2>2, <3>2 DEF s
  <2>4. CASE GrowWork(t0, own, {}, x) /\ Adding(w, x)
    <3>1. LET y == pdus_setup(x, list[i])
          IN  y.dead \/ (GrowWork(t0, own, {}, y) /\ Adding(x, y))
      BY <2>1, <2>4, PdusSetupGrows
    <3>2. s.dead \/ (GrowWork(t0, own, {}, s) /\ Adding(x, s))
      BY <3>1
    <3>3. w.ctx.pdusCount \in Int /\ x.ctx.pdusCount \in Int /\ s.ctx.pdusCount \in Int
      <4>1. w \in Works
        BY DEF GrowWork
      <4> HIDE DEF s
      <4>2. w.ctx \in UeCtx /\ x.ctx \in UeCtx /\ s.ctx \in UeCtx
        BY <2>1, <2>2, <4>1, WorkFields
      <4>3. \A c \in UeCtx : c.pdusCount \in Nat
        BY CtxFields
      <4>4. QED BY <4>2, <4>3
    <3> HIDE DEF s
    <3>4. Adding(x, s) => Adding(w, s)
      BY <2>4, <3>3, SMT DEF Adding
    <3>5. QED BY <2>2, <3>2, <3>4 DEF s
  <2>5. QED BY <2>1, <2>3, <2>4
<1> HIDE DEF T
<1>3. FoldLeft(pdus_setup, w, list) \in T
  BY <1>1, <1>2, PdusFold
<1>4. QED BY <1>3 DEF T

-----------------------------------------------------------------------------
(***************************************************************************)
(* Committing a context that has grown.  Every entry of its lists is a row *)
(* in use, so nothing is removed, nothing is left out by the packing of    *)
(* the DRBs, and every pending row becomes live.                           *)
(***************************************************************************)
LEMMA PresentAll ==
  ASSUME NEW m \in Nat, NEW list \in [1 .. m -> RowOrNull], NEW n \in 0 .. m,
         \A i \in 1 .. n : list[i] # NoRow
  PROVE  LET p == Present(list, n)
         IN  p \in Seq(Rows) /\ Len(p) = n /\ \A i \in 1 .. n : p[i] = list[i]
<1> DEFINE T == [i \in 0 .. n |-> Seq(Rows)]
           part == SubSeq(list, 1, n)
<1>1. /\ part \in Seq(RowOrNull) /\ Len(part) = n /\ n \in Nat
      /\ \A i \in 1 .. n : part[i] = list[i] /\ list[i] \in Rows
  <2>1. list \in Seq(RowOrNull) /\ Len(list) = m
    OBVIOUS
  <2>2. \A i \in 1 .. n : list[i] \in RowOrNull
    OBVIOUS
  <2>3. \A i \in 1 .. n : list[i] \in Rows
    BY <2>2 DEF RowOrNull
  <2>4. QED BY <2>1, <2>2, <2>3
<1>2. <<>> \in T[0] /\ \A i \in 1 .. n : T[i - 1] \subseteq T[i]
  BY <1>1
<1>3. ASSUME NEW i \in 1 .. n, NEW s \in Seq(Rows)
      PROVE  /\ PackOne(s, part[i]) = Append(s, list[i])
             /\ PackOne(s, part[i]) \in Seq(Rows)
  BY <1>1 DEF PackOne
<1>4. \A i \in 0 .. n : T[i] = Seq(Rows)
  OBVIOUS
<1> HIDE DEF T, part
<1>5. PICK f : PackLine(f, T, <<>>, part)
  <2>1. \A i \in 1 .. n : i - 1 \in 0 .. n /\ i \in 0 .. n
    BY <1>1
  <2>2. \A i \in 1 .. Len(part) : \A a \in T[i - 1] : PackOne(a, part[i]) \in T[i]
    BY <1>1, <1>3, <1>4, <2>1
  <2>3. QED BY <1>1, <1>2, <2>2, PackFold
<1>6. /\ f[0] = <<>> /\ f[n] = Present(list, n)
      /\ \A i \in 0 .. n : f[i] \in Seq(Rows)
      /\ \A i \in 1 .. n : f[i] = PackOne(f[i - 1], part[i])
  BY <1>1, <1>4, <1>5 DEF PackLine, Present, part
<1> DEFINE S == {i \in 0 .. n : Len(f[i]) = i /\ \A j \in 1 .. i : f[i][j] = list[j]}
<1>7. ASSUME NEW i \in 1 .. n, i - 1 \in S
      PROVE  i \in S
  <2>1. i - 1 \in 0 .. n /\ f[i - 1] \in Seq(Rows)
    BY <1>1, <1>6
  <2>2. f[i] = Append(f[i - 1], list[i])
    BY <1>3, <1>6, <2>1
  <2>3. Len(f[i - 1]) = i - 1 /\ \A j \in 1 .. i - 1 : f[i - 1][j] = list[j]
    BY <1>7
  <2>4. list[i] \in Rows
    BY <1>1
  <2>5. Len(f[i]) = i /\ f[i][i] = list[i]
        /\ \A j \in 1 .. i - 1 : f[i][j] = f[i - 1][j]
    BY <2>1, <2>2, <2>3, <2>4
  <2>6. \A j \in 1 .. i : j = i \/ j \in 1 .. i - 1
    OBVIOUS
  <2>7. \A j \in 1 .. i : f[i][j] = list[j]
    BY <2>3, <2>5, <2>6
  <2>8. QED BY <2>5, <2>7
<1>8. 0 \in S /\ S \in SUBSET (0 .. n)
  BY <1>1, <1>6
<1> HIDE DEF S
<1>9. S = 0 .. n
  BY <1>1, <1>7, <1>8, UpTo
<1>10. n \in S
  BY <1>1, <1>9
<1>11. QED BY <1>1, <1>6, <1>10 DEF S

(* What the commit of the first n entries of a list comes to.              *)
Entries(list, n) == {list[i] : i \in 1 .. n}
AllCommitted(t, d, list, n) ==
  /\ Growing(d.tbl) /\ Grows(t, d.tbl) /\ d.list = list /\ d.tbl.used = t.used
  /\ Pending(d.tbl) = Pending(t) \ Entries(list, n)

LEMMA CommitListGrows ==
  ASSUME NEW t, Growing(t), NEW m \in Nat, NEW list \in [1 .. m -> RowOrNull],
         NEW n \in 0 .. m, \A i \in 1 .. n : list[i] \in Rows /\ t.used[list[i]]
  PROVE  AllCommitted(t, CommitList(t, list, n), list, n)
<1> DEFINE Tables == {u \in Table : Growing(u) /\ Grows(t, u) /\ u.used = t.used}
           States == [tbl : Tables, list : {list}]
           T == [i \in 0 .. n |-> States]
           s0 == [tbl |-> t, list |-> list]
<1>0. n \in Nat /\ t \in Table
  BY DEF Growing
<1>1. s0 \in T[0] /\ \A i \in 1 .. n : T[i - 1] \subseteq T[i]
  BY <1>0, GrowsSame
<1>2. ASSUME NEW i \in 1 .. n, NEW s \in States
      PROVE  /\ CommitOne(s, i) \in States
             /\ Pending(CommitOne(s, i).tbl) = Pending(s.tbl) \ {list[i]}
  <2>1. /\ s.tbl \in Table /\ Growing(s.tbl) /\ Grows(t, s.tbl) /\ s.tbl.used = t.used
        /\ s.list = list /\ list[i] \in Rows /\ s.tbl.used[list[i]]
    OBVIOUS
  <2> DEFINE c == tunnel_commit(s.tbl, list[i])
  <2>2. /\ Growing(c) /\ Grows(s.tbl, c) /\ Pending(c) = Pending(s.tbl) \ {list[i]}
        /\ c.used = s.tbl.used
    BY <2>1, GrowCommit
  <2>3. CommitOne(s, i) =
          [tbl |-> c, list |-> IF c.used[list[i]] THEN list ELSE [list EXCEPT ![i] = NoRow]]
    BY <2>1 DEF CommitOne
  <2> HIDE DEF c
  <2>4. Grows(t, c) /\ c \in Table
    BY <2>1, <2>2, GrowsOn DEF Growing
  <2>5. CommitOne(s, i) = [tbl |-> c, list |-> list]
    BY <2>1, <2>2, <2>3
  <2>6. QED BY <2>1, <2>2, <2>4, <2>5
<1>3. \A i \in 0 .. n : T[i] = States
  OBVIOUS
<1>4. \A s \in States : s.tbl \in Tables /\ s.list = list
  OBVIOUS
<1> HIDE DEF T, States
<1>5. PICK f : CommitLine(f, T, s0, n)
  <2>1. \A i \in 1 .. n : i - 1 \in 0 .. n /\ i \in 0 .. n
    BY <1>0
  <2>2. \A i \in 1 .. n : \A s \in T[i - 1] : CommitOne(s, i) \in T[i]
    BY <1>2, <1>3, <2>1
  <2> HIDE DEF s0
  <2>3. QED BY <1>0, <1>1, <2>2, CommitFold, Zenon
<1>6. /\ f[0] = s0 /\ f[n] = CommitList(t, list, n)
      /\ \A i \in 0 .. n : f[i] \in States
      /\ \A i \in 1 .. n : f[i] = CommitOne(f[i - 1], i)
  BY <1>3, <1>5 DEF CommitLine, CommitList
<1> DEFINE S == {i \in 0 .. n : Pending(f[i].tbl) = Pending(t) \ {list[j] : j \in 1 .. i}}
<1>7. ASSUME NEW i \in 1 .. n, i - 1 \in S
      PROVE  i \in S
  <2>1. i - 1 \in 0 .. n /\ f[i - 1] \in States
    BY <1>0, <1>6
  <2>2. Pending(f[i].tbl) = Pending(f[i - 1].tbl) \ {list[i]}
    BY <1>2, <1>6, <2>1
  <2>3. Pending(f[i - 1].tbl) = Pending(t) \ {list[j] : j \in 1 .. i - 1}
    BY <1>7
  <2>4. {list[j] : j \in 1 .. i} = {list[j] : j \in 1 .. i - 1} \union {list[i]}
    <3>1. 1 .. i = (1 .. i - 1) \union {i}
      BY <1>0
    <3>2. QED BY <3>1
  <2>5. QED BY <2>2, <2>3, <2>4
<1>8. 0 \in S /\ S \in SUBSET (0 .. n)
  BY <1>0, <1>6
<1> HIDE DEF S
<1>9. S = 0 .. n
  BY <1>0, <1>7, <1>8, UpTo
<1>10. n \in S /\ f[n] \in States
  BY <1>0, <1>6, <1>9
<1>11. f[n].tbl \in Tables /\ f[n].list = list
  BY <1>4, <1>10
<1>12. Pending(f[n].tbl) = Pending(t) \ Entries(list, n)
  BY <1>10 DEF S, Entries
<1>13. QED BY <1>6, <1>11, <1>12 DEF AllCommitted

(* The context c becomes d and the table t becomes u.                      *)
Committing(t, c, u, d) ==
  /\ Growing(u) /\ Grows(t, u) /\ Pending(u) = {} /\ u.used = t.used
  /\ d \in UeCtx /\ d.used = c.used /\ d.cuup = c.cuup
  /\ ListsGood(u, d) /\ d.drbCount = c.drbCount
  /\ \A i \in 1 .. c.drbCount : d.drb[i] = c.drb[i]

LEMMA CtxGrown ==
  ASSUME NEW t, Growing(t), NEW c \in UeCtx, NoGaps(c), ~Missing(c), ListsGood(t, c),
         Pending(t) \subseteq Listed(c)
  PROVE  Committing(t, c, PdusCommitted(t, c).tbl, CtxCommitted(t, c))
<1> DEFINE u == PdusCommitted(t, c).tbl
           d == CtxCommitted(t, c)
           a == DrbsCommitted(t, c)
           n == c.drbCount
           p == c.pdusCount
<1>1. /\ n \in 0 .. MAX_DRB_PER_UE /\ p \in 0 .. MAX_PDUS_PER_UE
      /\ c.drb \in [1 .. MAX_DRB_PER_UE -> RowOrNull]
      /\ c.pdus \in [1 .. MAX_PDUS_PER_UE -> RowOrNull]
      /\ MAX_DRB_PER_UE \in Nat /\ MAX_PDUS_PER_UE \in Nat
      /\ t \in Table
  BY CtxFields DEF Growing
<1>2. /\ \A i \in 1 .. n : c.drb[i] \in Rows /\ t.used[c.drb[i]]
      /\ \A i \in 1 .. p : c.pdus[i] \in Rows /\ t.used[c.pdus[i]]
      /\ p <= n
  BY DEF ListsGood
<1>3. AllCommitted(t, a, c.drb, n)
  BY <1>1, <1>2, CommitListGrows DEF DrbsCommitted
<1>4. /\ Growing(a.tbl) /\ Grows(t, a.tbl) /\ a.list = c.drb /\ a.tbl.used = t.used
      /\ Pending(a.tbl) = Pending(t) \ Entries(c.drb, n)
      /\ \A i \in 1 .. p : c.pdus[i] \in Rows /\ a.tbl.used[c.pdus[i]]
  BY <1>2, <1>3 DEF AllCommitted
<1>5. AllCommitted(a.tbl, PdusCommitted(t, c), c.pdus, p)
  <2> HIDE DEF a
  <2>1. PdusCommitted(t, c) = CommitList(a.tbl, c.pdus, p)
    BY DEF PdusCommitted, a
  <2>2. QED BY <1>1, <1>4, <2>1, CommitListGrows, SMTT(30)
<1>6. /\ Growing(u) /\ Grows(t, u) /\ Pending(u) = {} /\ u.used = t.used
      /\ PdusCommitted(t, c).list = c.pdus
  <2> HIDE DEF a
  <2>1. /\ Growing(u) /\ Grows(a.tbl, u) /\ PdusCommitted(t, c).list = c.pdus
        /\ u.used = a.tbl.used
        /\ Pending(u) = Pending(a.tbl) \ Entries(c.pdus, p)
    BY <1>5 DEF AllCommitted
  <2>2. Listed(c) = Entries(c.drb, n) \union Entries(c.pdus, p)
    BY DEF Listed, Entries
  <2>3. QED BY <1>4, <2>1, <2>2, GrowsOn
<1>7. /\ d \in UeCtx /\ d.used = c.used /\ d.cuup = c.cuup
      /\ d.drb = DrbPacked(t, c) /\ d.drbCount = Len(DrbKept(t, c))
      /\ d.pdus = PdusPacked(t, c) /\ d.pdusCount = p
  BY <1>1, CtxCommittedFields
<1>8. \A i \in 1 .. n : c.drb[i] # NoRow
  BY DEF NoGaps
<1>9. /\ DrbKept(t, c) \in Seq(Rows) /\ Len(DrbKept(t, c)) = n
      /\ \A i \in 1 .. n : DrbKept(t, c)[i] = c.drb[i]
  <2>1. DrbKept(t, c) = Present(a.list, n)
    BY Zenon DEF DrbKept
  <2> HIDE DEF u, d, a, n, p
  <2>2. n \in 0 .. MAX_DRB_PER_UE /\ \A i \in 1 .. n : c.drb[i] # NoRow
    BY <1>1, <1>8 DEF n
  <2>3. LET k == Present(c.drb, n)
        IN  k \in Seq(Rows) /\ Len(k) = n /\ \A i \in 1 .. n : k[i] = c.drb[i]
    BY <1>1, <2>2, PresentAll
  <2>4. DrbKept(t, c) = Present(c.drb, n)
    BY <1>4, <2>1
  <2>5. QED BY <2>3, <2>4
<1> HIDE DEF u, d, a
<1>10. /\ d.drb \in [1 .. MAX_DRB_PER_UE -> RowOrNull]
       /\ \A i \in 1 .. n : d.drb[i] = c.drb[i]
  <2>1. DrbKept(t, c) \in Seq(RowOrNull) /\ Len(DrbKept(t, c)) <= MAX_DRB_PER_UE
    BY <1>1, <1>9 DEF RowOrNull
  <2>2. d.drb = Overwritten(c.drb, DrbKept(t, c))
    BY <1>4, <1>7 DEF DrbPacked, a
  <2>3. /\ Overwritten(c.drb, DrbKept(t, c)) \in [1 .. MAX_DRB_PER_UE -> RowOrNull]
        /\ \A i \in 1 .. Len(DrbKept(t, c)) :
             Overwritten(c.drb, DrbKept(t, c))[i] = DrbKept(t, c)[i]
    BY <1>1, <2>1, OverwrittenType
  <2>4. QED BY <1>9, <2>2, <2>3
<1>11. \A i \in 1 .. p : i \in 1 .. n
  BY <1>1, <1>2
<1>12. \A i \in 1 .. p : d.pdus[i] = c.drb[i]
  <2> DEFINE k == Present(d.drb, p)
             l == PdusCommitted(t, c).list
  <2>1. \A i \in 1 .. p : d.drb[i] # NoRow
    BY <1>8, <1>10, <1>11
  <2>2. p \in 0 .. MAX_DRB_PER_UE
    BY <1>1, <1>2
  <2>3. k \in Seq(Rows) /\ Len(k) = p /\ \A i \in 1 .. p : k[i] = d.drb[i]
    BY <1>1, <1>10, <2>1, <2>2, PresentAll
  <2>4. l = c.pdus
    BY <1>6
  <2>5. d.pdus = Overwritten(c.pdus, k)
    BY <1>7, <2>4 DEF PdusPacked
  <2> HIDE DEF k, l
  <2>6. k \in Seq(RowOrNull) /\ Len(k) <= MAX_PDUS_PER_UE
    BY <1>1, <2>3 DEF RowOrNull
  <2>7. \A i \in 1 .. Len(k) : Overwritten(c.pdus, k)[i] = k[i]
    BY <1>1, <2>6, OverwrittenType
  <2>8. QED BY <1>10, <1>11, <2>3, <2>5, <2>7
<1>13. ListsGood(u, d)
  <2>1. ListsGood(u, c)
    BY <1>6, ListsGoodOn
  <2>2. \A i \in 1 .. d.drbCount :
          d.drb[i] \in Rows /\ u.used[d.drb[i]] /\ u.info[d.drb[i]].kind = "drb"
    BY <1>7, <1>9, <1>10, <2>1 DEF ListsGood
  <2>3. \A i, j \in 1 .. d.drbCount :
          IdIn(u, d.drb[i]) = IdIn(u, d.drb[j]) => i = j \/ IdIn(u, d.drb[i]) \in Doubled
    BY <1>7, <1>9, <1>10, <2>1 DEF ListsGood
  <2>4. \A i \in 1 .. d.pdusCount : d.pdus[i] \in Rows /\ u.used[d.pdus[i]]
    BY <1>7, <1>9, <1>10, <1>11, <1>12, <2>2
  <2>5. d.pdusCount <= d.drbCount
    BY <1>2, <1>7, <1>9
  <2>6. QED BY <2>2, <2>3, <2>4, <2>5 DEF ListsGood
<1>14. Committing(t, c, u, d)
  BY <1>6, <1>7, <1>9, <1>10, <1>13 DEF Committing
<1>15. QED BY <1>14 DEF u, d

-----------------------------------------------------------------------------
(***************************************************************************)
(* The UE table between two requests: ids and contexts in use belong to    *)
(* each other, and each context in use has lists of its own.               *)
(***************************************************************************)
Apart(u) ==
  \A r, q \in UeRows : u.ctx[r].used /\ u.ctx[q].used /\ r # q =>
    \A i \in 1 .. u.ctx[r].drbCount : \A j \in 1 .. u.ctx[q].drbCount :
      u.ctx[r].drb[i] # u.ctx[q].drb[j]

UeSound(t, u) ==
  /\ IdsSound(u)
  /\ \A r \in UeRows : u.ctx[r].used => ListsGood(t, u.ctx[r])
  /\ Apart(u)

OldDrbs(u, id) ==
  IF u.hash[id] = NoRow THEN {}
  ELSE {u.ctx[u.hash[id]].drb[i] : i \in 1 .. u.ctx[u.hash[id]].drbCount}

LEMMA ReplacedSound ==
  ASSUME NEW t, NEW tt, Grows(t, tt), NEW u \in UeTable, UeSound(t, u),
         NEW id \in UeIds, NEW r \in UeRows, ~u.ctx[r].used, NEW d, NEW v,
         Replaced(u, v, id, r, d), d.used, d.cuup = id, ListsGood(tt, d),
         OwnDrbs(t, OldDrbs(u, id), d)
  PROVE  UeSound(tt, v)
<1>1. u.hash \in [UeIds -> UeRows \union {NoRow}] /\ NoRow \notin UeRows
  BY UeFields, UeCountAssumption DEF UeRows
<1>2. /\ v.hash[id] = r /\ \A x \in UeIds \ {id} : v.hash[x] = u.hash[x]
      /\ v.ctx[r] = d
      /\ \A x \in UeRows \ {r} : x = u.hash[id] => ~v.ctx[x].used
      /\ \A x \in UeRows \ {r} : x # u.hash[id] => v.ctx[x] = u.ctx[x]
  BY <1>1 DEF Replaced
<1>3. /\ \A x \in UeIds : u.hash[x] # NoRow =>
           u.ctx[u.hash[x]].used
      /\ \A x \in UeRows : u.ctx[x].used => ListsGood(t, u.ctx[x])
  BY DEF UeSound, IdsSound
<1>4. \A x \in UeRows : v.ctx[x].used => x = r \/ (x # r /\ x # u.hash[id] /\ u.ctx[x].used
                                                  /\ v.ctx[x] = u.ctx[x])
  BY <1>2
<1>5. IdsSound(v)
  BY ReplacedIds DEF UeSound
<1>6. ASSUME NEW x \in UeRows, v.ctx[x].used
      PROVE  ListsGood(tt, v.ctx[x])
  <2>1. CASE x = r
    BY <1>2, <2>1
  <2>2. CASE x # r
    <3>1. v.ctx[x] = u.ctx[x] /\ ListsGood(t, u.ctx[x])
      BY <1>3, <1>4, <1>6, <2>2
    <3>2. ListsGood(tt, u.ctx[x])
      BY <3>1, ListsGoodOn
    <3>3. QED BY <3>1, <3>2
  <2>3. QED BY <2>1, <2>2
<1>7. ASSUME NEW x \in UeRows \ {r}, v.ctx[x].used,
             NEW i \in 1 .. d.drbCount, NEW j \in 1 .. u.ctx[x].drbCount
      PROVE  d.drb[i] # u.ctx[x].drb[j]
  <2>1. x # u.hash[id] /\ u.ctx[x].used
    BY <1>4, <1>7
  <2>2. t.used[u.ctx[x].drb[j]]
    BY <1>3, <2>1 DEF ListsGood
  <2>3. CASE d.drb[i] \in OldDrbs(u, id)
    <3>1. u.hash[id] # NoRow
      BY <2>3 DEF OldDrbs
    <3>2. PICK k \in 1 .. u.ctx[u.hash[id]].drbCount : d.drb[i] = u.ctx[u.hash[id]].drb[k]
      BY <2>3, <3>1 DEF OldDrbs
    <3>3. u.hash[id] \in UeRows /\ u.ctx[u.hash[id]].used
      BY <1>1, <1>3, <3>1
    <3>4. QED BY <2>1, <3>2, <3>3 DEF UeSound, Apart
  <2>4. CASE ~t.used[d.drb[i]]
    BY <2>2, <2>4
  <2>5. QED BY <2>3, <2>4 DEF OwnDrbs
<1>8. Apart(v)
  <2> SUFFICES ASSUME NEW x \in UeRows, NEW y \in UeRows, v.ctx[x].used, v.ctx[y].used, x # y,
                      NEW i \in 1 .. v.ctx[x].drbCount, NEW j \in 1 .. v.ctx[y].drbCount
               PROVE  v.ctx[x].drb[i] # v.ctx[y].drb[j]
    BY DEF Apart
  <2>1. CASE x = r
    <3>1. y \in UeRows \ {r} /\ v.ctx[y] = u.ctx[y] /\ v.ctx[x] = d
      BY <1>2, <1>4, <2>1
    <3>2. QED BY <1>7, <3>1
  <2>2. CASE y = r
    <3>1. x \in UeRows \ {r} /\ v.ctx[x] = u.ctx[x] /\ v.ctx[y] = d
      BY <1>2, <1>4, <2>2
    <3>2. QED BY <1>7, <3>1
  <2>3. CASE x # r /\ y # r
    <3>1. /\ u.ctx[x].used /\ u.ctx[y].used
          /\ v.ctx[x] = u.ctx[x] /\ v.ctx[y] = u.ctx[y]
      BY <1>4, <2>3
    <3>2. QED BY <3>1 DEF UeSound, Apart
  <2>4. QED BY <2>1, <2>2, <2>3
<1>9. QED BY <1>5, <1>6, <1>8 DEF UeSound

(* The end of a request for an id, and what it grants.                     *)
Grown(t, tt, u, v, id, granted) ==
  /\ Growing(tt) /\ Grows(t, tt) /\ Pending(tt) = {}
  /\ UeSound(tt, v) /\ GrantsHeld(tt, granted) /\ Accounted(t, {}, tt, granted)
  /\ \A x \in UeRows : v.ctx[x].used => u.ctx[x].used \/ v.ctx[x].cuup = id

LEMMA UeCommitGrows ==
  ASSUME NEW t, Growing(t), NEW u \in UeTable, UeSound(t, u), NEW id \in UeIds,
         NEW r \in UeRows, ~u.ctx[r].used,
         NEW w, GrowWork(t, OldDrbs(u, id), {}, w), ~Missing(w.ctx),
         w.ctx.used, w.ctx.cuup = id, NEW d, CommittedTo(u, id, r, w, d)
  PROVE  Grown(t, d.tbl, u, d.ues, id, w.granted)
<1> DEFINE own == OldDrbs(u, id)
           tt == PdusCommitted(w.tbl, w.ctx).tbl
           c == CtxCommitted(w.tbl, w.ctx)
<1>1. /\ w.ctx \in UeCtx /\ NoGaps(w.ctx) /\ Growing(w.tbl) /\ Grows(t, w.tbl)
      /\ ListsGood(w.tbl, w.ctx) /\ OwnDrbs(t, own, w.ctx)
      /\ Pending(w.tbl) \subseteq Listed(w.ctx) /\ GrantsHeld(w.tbl, w.granted)
      /\ Accounted(t, {}, w.tbl, w.granted)
  BY WorkFields DEF GrowWork
<1>2. d.tbl = tt /\ Replaced(u, d.ues, id, r, c)
  BY DEF CommittedTo
<1> HIDE DEF own
<1>3. /\ Growing(tt) /\ Grows(w.tbl, tt) /\ Pending(tt) = {} /\ tt.used = w.tbl.used
      /\ c \in UeCtx /\ c.used = w.ctx.used /\ c.cuup = w.ctx.cuup
      /\ ListsGood(tt, c) /\ c.drbCount = w.ctx.drbCount
      /\ \A i \in 1 .. w.ctx.drbCount : c.drb[i] = w.ctx.drb[i]
  <2>1. Committing(w.tbl, w.ctx, tt, c)
    BY <1>1, CtxGrown
  <2> HIDE DEF tt, c
  <2>2. QED BY <2>1 DEF Committing
<1> HIDE DEF tt, c
<1>4. Grows(t, tt)
  BY <1>1, <1>3, GrowsOn
<1>5. OwnDrbs(t, own, c)
  BY <1>1, <1>3 DEF OwnDrbs
<1>6. UeSound(tt, d.ues)
  <2>1. c.used /\ c.cuup = id /\ ListsGood(tt, c) /\ OwnDrbs(t, OldDrbs(u, id), c)
    BY <1>3, <1>5 DEF own
  <2>2. QED BY <1>2, <1>4, <2>1, ReplacedSound, Zenon
<1>7. GrantsHeld(tt, w.granted)
  BY <1>1, <1>3, GrantsHeldOn
<1>9. Accounted(t, {}, tt, w.granted)
  BY <1>1, <1>3, AccountedOn
<1>10. \A x \in UeRows : d.ues.ctx[x].used => u.ctx[x].used \/ d.ues.ctx[x].cuup = id
  BY <1>2, <1>3 DEF Replaced
<1>8. QED BY <1>2, <1>3, <1>4, <1>6, <1>7, <1>9, <1>10 DEF Grown


-----------------------------------------------------------------------------
(***************************************************************************)
(* Growth: no request removes or modifies a session, and none releases a   *)
(* context.  Modify requests still set up sessions, in a copy of the       *)
(* context, and are still refused and rolled back.                         *)
(***************************************************************************)
Growth == (\A q \in ModifyReqs : q.remove = <<>> /\ q.modify = <<>>) /\ ReleaseIds = {}

Settled ==
  Growing(tbl) /\ Pending(tbl) = {} /\ UeSound(tbl, ues) /\ GrantsHeld(tbl, rsp.granted)
GrowInv == BearerInv /\ Settled

(* What a request leaves, and who is told of the rows that came into use.  *)
Answered ==
  /\ Accounted(tbl, {}, tbl', rsp'.granted)
  /\ \A r \in UeRows : ues'.ctx[r].used =>
       \/ ues.ctx[r].used
       \/ rsp'.cause = "success" /\ rsp'.cuup = ues'.ctx[r].cuup
       \/ rsp'.cause = "unspecified"
Onward == Settled' /\ Grows(tbl, tbl') /\ Answered

LEMMA GrowIds ==
  ASSUME GrowInv
  PROVE  IdsInv
BY DEF GrowInv, Settled, UeSound, IdsInv

(* A handler starts from what the tables hold.                             *)
LEMMA WorkStarts ==
  ASSUME NEW t, Growing(t), Pending(t) = {}, NEW c \in UeCtx, NoGaps(c), ListsGood(t, c),
         NEW own, OwnDrbs(t, own, c)
  PROVE  GrowWork(t, own, {}, Work(t, c))
<1> DEFINE w == Work(t, c)
<1>1. w \in Works /\ w.tbl = t /\ w.ctx = c /\ w.granted = {}
  BY WorkType DEF Growing
<1> HIDE DEF w
<1>2. GrantsHeld(t, {}) /\ Grows(t, t)
  BY GrowsSame DEF GrantsHeld
<1>3. Pending(w.tbl) \subseteq {} \union Listed(w.ctx)
  BY <1>1
<1>6. Accounted(t, {}, w.tbl, w.granted)
  BY <1>1 DEF Accounted
<1>4. GrowWork(t, own, {}, w)
  BY <1>1, <1>2, <1>3, <1>6 DEF GrowWork
<1>5. QED BY <1>4 DEF w

(* Where nothing moves, and where the work for an id is committed.         *)
LEMMA Unmoved ==
  ASSUME Settled, UNCHANGED <<tbl, ues, rsp>>
  PROVE  Onward
<1>1. Settled'
  BY DEF Settled
<1>2. Answered
  BY DEF Answered, Accounted
<1>3. QED BY <1>1, <1>2, GrowsSame DEF Onward

LEMMA AllAnswered ==
  ASSUME NEW id, NEW granted, Grown(tbl, tbl', ues, ues', id, granted),
         rsp'.granted = granted,
         rsp'.cause = "unspecified" \/ (rsp'.cause = "success" /\ rsp'.cuup = id)
  PROVE  Onward
<1>1. Settled' /\ Grows(tbl, tbl')
  BY DEF Grown, Settled
<1>2. Answered
  BY DEF Grown, Answered
<1>3. QED BY <1>1, <1>2 DEF Onward

LEMMA SetupWorkGrows ==
  ASSUME GrowInv, NEW q \in SetupReqs, UeIdAvailable(ues), UeRowAvailable(ues)
  PROVE  LET w == SetupWork(q)
         IN  w.dead \/ /\ GrowWork(tbl, OldDrbs(ues, ue_ctx_id_alloc(ues).id), {}, w)
                       /\ w.granted = {} \/ w.ctx.pdusCount # 0
<1> DEFINE id == ue_ctx_id_alloc(ues).id
           c == Fresh(NewRow(ues).ues.ctx[NewRow(ues).row], q.cucp)
           w0 == Work(tbl, c)
           own == OldDrbs(ues, id)
<1>1. /\ tbl \in Table /\ ues \in UeTable /\ AllNoGaps(ues)
      /\ q.cucp \in CucpIds /\ q.pdus \in Seq(SessionReq)
      /\ Growing(tbl) /\ Pending(tbl) = {}
  BY Requests DEF GrowInv, Settled, BearerInv, TypeOK
<1>2. c \in UeCtx /\ NoGaps(c) /\ c.pdusCount = 0 /\ c.drbCount = 0
  BY <1>1, NewRowResult
<1> HIDE DEF c, own, id
<1>3. ListsGood(tbl, c) /\ OwnDrbs(tbl, own, c)
  BY <1>2 DEF ListsGood, OwnDrbs
<1>4. GrowWork(tbl, own, {}, w0) /\ w0.granted = {} /\ w0.ctx.pdusCount = 0
  BY <1>1, <1>2, <1>3, WorkStarts, WorkType
<1> HIDE DEF w0
<1> DEFINE w == FoldLeft(pdus_setup, w0, q.pdus)
<1>5. w.dead \/ (GrowWork(tbl, own, {}, w) /\ Adding(w0, w))
  BY <1>1, <1>4, SessionsSetupGrows
<1>6. w = SetupWork(q)
  BY DEF SetupWork, w0, c
<1> HIDE DEF w
<1>8. w.dead \/ /\ GrowWork(tbl, own, {}, w)
                /\ w.granted = {} \/ w.ctx.pdusCount # 0
  BY <1>4, <1>5 DEF Adding
<1>7. QED BY <1>6, <1>8 DEF own, id

LEMMA SetupGrows ==
  ASSUME GrowInv, NEW q \in SetupReqs, SetupBearer(q)
  PROVE  Onward
<1> DEFINE w == SetupWork(q)
           id == ue_ctx_id_alloc(ues).id
           r == NewRow(ues).row
           d == SetupDone(q)
<1>1. /\ UeIdAvailable(ues) /\ UeRowAvailable(ues)
      /\ \/ UNCHANGED <<tbl, ues, rsp>>
         \/ /\ ~w.dead /\ tbl' = d.tbl /\ ues' = d.ues
            /\ rsp' = IF w.ctx.pdusCount = 0
                      THEN Answer("unspecified", w.ctx.cucp, q.cucp, {})
                      ELSE Answer("success", id, q.cucp, w.granted)
  BY SetupValue
<1>2. /\ ues \in UeTable /\ AllNoGaps(ues) /\ BearerInv /\ Settled
      /\ Growing(tbl) /\ UeSound(tbl, ues)
  BY DEF GrowInv, Settled, BearerInv, TypeOK
<1>3. id \in UeIds /\ r \in UeRows /\ ~ues.ctx[r].used
  BY <1>1, <1>2, NewRowResult, Requests
<1>4. w.dead \/ /\ GrowWork(tbl, OldDrbs(ues, id), {}, w) /\ ~Missing(w.ctx)
                /\ w.granted = {} \/ w.ctx.pdusCount # 0
  <2>1. ~Missing(w.ctx)
    BY <1>1, <1>2, SetupWorkType DEF Whole
  <2>2. w.dead \/ /\ GrowWork(tbl, OldDrbs(ues, id), {}, w)
                  /\ w.granted = {} \/ w.ctx.pdusCount # 0
    BY <1>1, SetupWorkGrows
  <2>3. QED BY <2>1, <2>2
<1>5. w.dead \/ (w.ctx.used /\ w.ctx.cuup = id /\ CommittedTo(ues, id, r, w, d))
  BY GrowIds, SetupIds
<1> HIDE DEF w, id, r, d
<1>10. CASE UNCHANGED <<tbl, ues, rsp>>
  BY <1>2, <1>10, Unmoved
<1>11. CASE /\ ~w.dead /\ tbl' = d.tbl /\ ues' = d.ues
            /\ rsp' = IF w.ctx.pdusCount = 0
                      THEN Answer("unspecified", w.ctx.cucp, q.cucp, {})
                      ELSE Answer("success", id, q.cucp, w.granted)
  <2>1. Grown(tbl, d.tbl, ues, d.ues, id, w.granted)
    BY <1>2, <1>3, <1>4, <1>5, <1>11, UeCommitGrows
  <2>2. /\ rsp'.granted = w.granted
        /\ rsp'.cause = "unspecified" \/ (rsp'.cause = "success" /\ rsp'.cuup = id)
    BY <1>4, <1>11 DEF Answer
  <2>3. QED BY <1>11, <2>1, <2>2, AllAnswered
<1>9. QED BY <1>1, <1>10, <1>11


(* The context of a modify request starts with the lists of its old        *)
(* version: the row it is built in is another one, for the old is in use.  *)
LEMMA ModifyStarts ==
  ASSUME GrowInv, NEW id \in UeIds, ues.hash[id] # NoRow, UeRowAvailable(ues)
  PROVE  LET m == ue_ctx_modify(ues, id)
             c == m.ues.ctx[m.row]
         IN  /\ c \in UeCtx /\ NoGaps(c)
             /\ ListsGood(tbl, c) /\ OwnDrbs(tbl, OldDrbs(ues, id), c)
<1> DEFINE m == ue_ctx_modify(ues, id)
           c == m.ues.ctx[m.row]
           e == ues.hash[id]
           old == ues.ctx[e]
           t == Taken(ues.ctx[m.row], id)
<1>1. /\ ues \in UeTable /\ AllNoGaps(ues) /\ UeSound(tbl, ues)
  BY DEF GrowInv, Settled, BearerInv, TypeOK
<1>2. /\ m.row \in UeRows /\ ~ues.ctx[m.row].used
      /\ c = NewVersion(ues, id, m.row)
      /\ c \in UeCtx /\ NoGaps(c)
  BY <1>1, ModifyRow
<1>3. e \in UeRows /\ old \in UeCtx /\ old.used /\ ListsGood(tbl, old)
  <2>1. e \in UeRows
    BY <1>1, UeFields
  <2>2. old \in UeCtx
    BY <1>1, <2>1, UeFields
  <2>3. old.used
    BY <1>1 DEF UeSound, IdsSound
  <2>4. QED BY <1>1, <2>1, <2>2, <2>3 DEF UeSound
<1> HIDE DEF m
<1>4. c = Copied(t, old)
  <2>1. m.row # e
    BY <1>2, <1>3
  <2>2. QED BY <1>2, <2>1 DEF NewVersion
<1>5. t \in UeCtx
  <2>1. ues.ctx[m.row] \in UeCtx
    BY <1>1, <1>2, UeFields
  <2>2. QED BY <2>1, TakenFields
<1> HIDE DEF t, c
<1>6. /\ c.pdusCount = old.pdusCount /\ c.drbCount = old.drbCount
      /\ \A i \in 1 .. old.pdusCount : c.pdus[i] = old.pdus[i]
      /\ \A i \in 1 .. old.drbCount : c.drb[i] = old.drb[i]
  BY <1>3, <1>4, <1>5, CopiedFields, SMTT(30)
<1>7. ListsGood(tbl, c)
  <2> HIDE DEF old
  <2>1. \A i \in 1 .. c.drbCount :
          c.drb[i] \in Rows /\ tbl.used[c.drb[i]] /\ tbl.info[c.drb[i]].kind = "drb"
    BY <1>3, <1>6 DEF ListsGood
  <2>2. \A i, j \in 1 .. c.drbCount :
          IdIn(tbl, c.drb[i]) = IdIn(tbl, c.drb[j]) => i = j \/ IdIn(tbl, c.drb[i]) \in Doubled
    BY <1>3, <1>6 DEF ListsGood
  <2>3. \A i \in 1 .. c.pdusCount : c.pdus[i] \in Rows /\ tbl.used[c.pdus[i]]
    BY <1>3, <1>6 DEF ListsGood
  <2>4. c.pdusCount <= c.drbCount
    BY <1>3, <1>6 DEF ListsGood
  <2>5. QED BY <2>1, <2>2, <2>3, <2>4 DEF ListsGood
<1>8. OwnDrbs(tbl, OldDrbs(ues, id), c)
  <2>1. OldDrbs(ues, id) = {old.drb[i] : i \in 1 .. old.drbCount}
    BY DEF OldDrbs
  <2>2. QED BY <1>6, <2>1 DEF OwnDrbs
<1>9. QED BY <1>2, <1>7, <1>8 DEF m, c

(* An empty list of sessions to remove or to modify changes nothing.       *)
LEMMA NothingRemoved ==
  ASSUME NEW w
  PROVE  PdusRemovals(w, <<>>) = w
<1>1. w \in {w} /\ <<>> \in Seq(Ids) /\ 1 .. Len(<<>>) = {}
  OBVIOUS
<1>2. \A i \in 1 .. Len(<<>>), a \in {w} : PdusRemoval(a, <<>>[i]) \in {w}
  BY <1>1
<1>3. PdusRemovals(w, <<>>) \in {w}
  BY <1>1, <1>2, PdusRemovalFold
<1>4. QED BY <1>3

LEMMA NothingModified ==
  ASSUME NEW w
  PROVE  PdusModifications(w, <<>>) = w
<1>1. w \in {w} /\ <<>> \in Seq(SessionChange) /\ 1 .. Len(<<>>) = {}
  OBVIOUS
<1>2. \A i \in 1 .. Len(<<>>), a \in {w} : PdusModification(a, <<>>[i]) \in {w}
  BY <1>1
<1>3. PdusModifications(w, <<>>) \in {w}
  BY <1>1, <1>2, PdusModificationFold
<1>4. QED BY <1>3

LEMMA ModifyWorkGrows ==
  ASSUME Growth, GrowInv, NEW q \in ModifyReqs, Known(q.cuup), UeRowAvailable(ues)
  PROVE  ModifyWork(q).dead \/ GrowWork(tbl, OldDrbs(ues, q.cuup), {}, ModifyWork(q))
<1> DEFINE m == ue_ctx_modify(ues, q.cuup)
           c == m.ues.ctx[m.row]
           w0 == Work(tbl, c)
           own == OldDrbs(ues, q.cuup)
           w == FoldLeft(pdus_setup, w0, q.setup)
<1>1. /\ Growing(tbl) /\ Pending(tbl) = {} /\ tbl \in Table
      /\ q.cuup \in UeIds /\ q.setup \in Seq(SessionReq) /\ ues.hash[q.cuup] # NoRow
      /\ q.remove = <<>> /\ q.modify = <<>>
  BY Requests DEF GrowInv, Settled, BearerInv, TypeOK, Growth, Known
<1>2. c \in UeCtx /\ NoGaps(c) /\ ListsGood(tbl, c) /\ OwnDrbs(tbl, own, c)
  BY <1>1, ModifyStarts
<1>3. w = ModifyWork(q)
  <2> HIDE DEF w0
  <2>1. PdusRemovals(w0, q.remove) = w0
    BY <1>1, NothingRemoved
  <2>2. PdusModifications(w0, q.modify) = w0
    BY <1>1, NothingModified
  <2>3. ModifyWork(q)
          = FoldLeft(pdus_setup, PdusModifications(PdusRemovals(w0, q.remove), q.modify), q.setup)
    BY DEF ModifyWork, w0
  <2>4. QED BY <2>1, <2>2, <2>3
<1> HIDE DEF c, m, own
<1>4. GrowWork(tbl, own, {}, w0)
  BY <1>1, <1>2, WorkStarts
<1> HIDE DEF w0
<1>5. w.dead \/ GrowWork(tbl, own, {}, w)
  BY <1>1, <1>4, SessionsSetupGrows
<1> HIDE DEF w
<1>6. QED BY <1>3, <1>5 DEF own

LEMMA ModifyGrows ==
  ASSUME Growth, GrowInv, NEW q \in ModifyReqs, ModifyBearer(q)
  PROVE  Onward
<1> DEFINE w == ModifyWork(q)
           r == ue_ctx_modify(ues, q.cuup).row
           d == ModifyDone(q)
<1>1. /\ Known(q.cuup) /\ UeRowAvailable(ues)
      /\ \/ UNCHANGED <<tbl, ues, rsp>>
         \/ /\ ~w.dead /\ ~Missing(w.ctx)
            /\ tbl' = d.tbl /\ ues' = d.ues
            /\ rsp' = Answer("success", q.cuup, q.cucp, w.granted)
  BY ModifyValue
<1>2. /\ ues \in UeTable /\ AllNoGaps(ues) /\ BearerInv /\ Settled
      /\ Growing(tbl) /\ UeSound(tbl, ues) /\ q.cuup \in UeIds /\ ues.hash[q.cuup] # NoRow
  BY <1>1, Requests DEF GrowInv, Settled, BearerInv, TypeOK, Known
<1>3. r \in UeRows /\ ~ues.ctx[r].used
  BY <1>1, <1>2, ModifyRow
<1>4. /\ w.dead \/ GrowWork(tbl, OldDrbs(ues, q.cuup), {}, w)
      /\ w.ctx.used /\ w.ctx.cuup = q.cuup
  BY <1>1, <1>2, ModifyWorkGrows, ModifyWorkSameUe
<1>5. ~Missing(w.ctx) => CommittedTo(ues, q.cuup, r, w, d)
  BY <1>1, GrowIds, ModifyIds
<1> HIDE DEF w, r, d
<1>6. CASE UNCHANGED <<tbl, ues, rsp>>
  BY <1>2, <1>6, Unmoved
<1>7. CASE /\ ~w.dead /\ ~Missing(w.ctx) /\ tbl' = d.tbl /\ ues' = d.ues
           /\ rsp' = Answer("success", q.cuup, q.cucp, w.granted)
  <2>1. Grown(tbl, d.tbl, ues, d.ues, q.cuup, w.granted)
    BY <1>2, <1>3, <1>4, <1>5, <1>7, UeCommitGrows
  <2>2. rsp'.granted = w.granted /\ rsp'.cause = "success" /\ rsp'.cuup = q.cuup
    BY <1>7 DEF Answer
  <2>3. QED BY <1>7, <2>1, <2>2, AllAnswered
<1>8. QED BY <1>1, <1>6, <1>7


(* With nothing pending every row in use is the one its key leads to.      *)
LEMMA UsedLive ==
  ASSUME NEW t, Growing(t), Pending(t) = {}, NEW r \in Rows, t.used[r]
  PROVE  t.hash[t.key[r]] = r
<1>1. t.hash[t.key[r]] # NoRow
  BY DEF Pending
<1>2. QED BY <1>1 DEF Growing, Found

(* Rolling back the old version of a context touches no tunnel: all of     *)
(* them are committed.                                                     *)
LEMMA RollbackIdle ==
  ASSUME NEW t, Growing(t), Pending(t) = {}, NEW c \in UeCtx, ListsGood(t, c),
         NoGaps(c), ~Missing(c)
  PROVE  RollbackAll(t, Pdus(c) \o Drbs(c)) = t
<1> DEFINE list == Pdus(c) \o Drbs(c)
<1>1. t \in Table
  BY DEF Growing
<1>2. ASSUME NEW i \in 1 .. Len(list)
      PROVE  list[i] \in Rows /\ t.used[list[i]]
  <2>1. /\ Pdus(c) \in Seq(RowOrNull) /\ Len(Pdus(c)) = c.pdusCount
        /\ \A j \in 1 .. c.pdusCount : Pdus(c)[j] = c.pdus[j]
        /\ Drbs(c) \in Seq(RowOrNull) /\ Len(Drbs(c)) = c.drbCount
        /\ \A j \in 1 .. c.drbCount : Drbs(c)[j] = c.drb[j]
    BY Lists
  <2>2. /\ \A j \in 1 .. Len(Pdus(c)) : Pdus(c)[j] \in Rows /\ t.used[Pdus(c)[j]]
        /\ \A j \in 1 .. Len(Drbs(c)) : Drbs(c)[j] \in Rows /\ t.used[Drbs(c)[j]]
    BY <2>1 DEF ListsGood
  <2> DEFINE p == Pdus(c)
             d == Drbs(c)
  <2>3. p \in Seq(RowOrNull) /\ d \in Seq(RowOrNull) /\ list = p \o d
    BY <2>1
  <2> HIDE DEF p, d, list
  <2>4. i \in 1 .. Len(p) + Len(d)
    BY <2>3
  <2>5. CASE i <= Len(p)
    <3>1. i \in 1 .. Len(p) /\ list[i] = p[i]
      BY <2>3, <2>4, <2>5
    <3>2. QED BY <2>2, <3>1 DEF p
  <2>6. CASE i > Len(p)
    <3>1. i - Len(p) \in 1 .. Len(d) /\ list[i] = d[i - Len(p)]
      BY <2>3, <2>4, <2>6
    <3>2. QED BY <2>2, <3>1 DEF d
  <2>7. QED BY <2>3, <2>4, <2>5, <2>6
<1>3. ASSUME NEW r \in Rows, t.used[r]
      PROVE  tunnel_rollback(t, r) = t
  <2>1. r # NoRow /\ t.hash[t.key[r]] = r
    BY <1>3, UsedLive, NoRowAssumption DEF Rows
  <2>2. tunnel_rollback(t, r) = SetUsed(t, r, TRUE)
    BY <2>1 DEF tunnel_rollback
  <2>3. SetUsed(t, r, TRUE) = t
    BY <1>1, <1>3, TableFields DEF SetUsed, Table
  <2>4. QED BY <2>2, <2>3
<1>4. list \in Seq(Rows)
  BY BothLists
<1> HIDE DEF list
<1>5. \A i \in 1 .. Len(list), a \in {t} : tunnel_rollback(a, list[i]) \in {t}
  BY <1>2, <1>3
<1>6. RollbackAll(t, list) \in {t}
  BY <1>4, <1>5, RollbackFold
<1>7. QED BY <1>6 DEF list

(* A row that is given back unused has no lists.                           *)
LEMMA GivenBackSound ==
  ASSUME NEW t, NEW u \in UeTable, UeSound(t, u), NEW r \in UeRows, ~u.ctx[r].used,
         NEW v, GivenBack(u, v, r)
  PROVE  UeSound(t, v)
<1>1. \A x \in UeRows : v.ctx[x].used => u.ctx[x].used /\ v.ctx[x] = u.ctx[x]
  BY DEF GivenBack
<1>2. IdsSound(v)
  BY RowGivenBack DEF UeSound
<1>3. \A x \in UeRows : v.ctx[x].used => ListsGood(t, v.ctx[x])
  BY <1>1 DEF UeSound
<1>4. Apart(v)
  <2> SUFFICES ASSUME NEW x \in UeRows, NEW y \in UeRows, v.ctx[x].used, v.ctx[y].used, x # y,
                      NEW i \in 1 .. v.ctx[x].drbCount, NEW j \in 1 .. v.ctx[y].drbCount
               PROVE  v.ctx[x].drb[i] # v.ctx[y].drb[j]
    BY DEF Apart
  <2>1. /\ u.ctx[x].used /\ u.ctx[y].used
        /\ v.ctx[x] = u.ctx[x] /\ v.ctx[y] = u.ctx[y]
    BY <1>1
  <2>2. QED BY <2>1 DEF UeSound, Apart
<1>5. QED BY <1>2, <1>3, <1>4 DEF UeSound

(* Where the table and the answer's grants are those of no new tunnel, and *)
(* no context comes into use.                                              *)
LEMMA NothingNew ==
  ASSUME Settled, tbl' = tbl, rsp'.granted = {}, UeSound(tbl, ues'),
         \A r \in UeRows : ues'.ctx[r].used => ues.ctx[r].used
  PROVE  Onward
<1>1. GrantsHeld(tbl, {})
  BY DEF GrantsHeld
<1>2. Settled' /\ Grows(tbl, tbl')
  BY <1>1, GrowsSame DEF Settled
<1>3. Answered
  BY DEF Answered, Accounted
<1>4. QED BY <1>2, <1>3 DEF Onward

LEMMA MismatchGrows ==
  ASSUME GrowInv, NEW q \in ModifyReqs, ModifyMismatch(q)
  PROVE  Onward
<1> DEFINE r == ue_ctx_modify(ues, q.cuup).row
           old == ues.ctx[ues.hash[q.cuup]]
<1>1. UNCHANGED <<tbl, ues, rsp>> \/ phase' = "up"
  BY DEF ModifyMismatch, Known
<1>2. /\ ues \in UeTable /\ Growing(tbl) /\ Pending(tbl) = {} /\ UeSound(tbl, ues)
      /\ Settled /\ AllNoGaps(ues)
  BY DEF GrowInv, Settled, BearerInv, TypeOK
<1>3. CASE UNCHANGED <<tbl, ues, rsp>>
  BY <1>2, <1>3, Unmoved
<1>4. CASE phase' = "up"
  <2>1. /\ r \in UeRows /\ ~ues.ctx[r].used /\ GivenBack(ues, ues', r)
        /\ ues.hash[q.cuup] \in UeRows /\ old \in UeCtx /\ old.used /\ ~Missing(old)
        /\ tbl' = RollbackAll(tbl, Pdus(old) \o Drbs(old))
        /\ rsp'.granted = {}
    BY <1>4, GrowIds, MismatchIds
  <2>2. ListsGood(tbl, old) /\ NoGaps(old)
    BY <1>2, <2>1 DEF UeSound, AllNoGaps
  <2> HIDE DEF r, old
  <2>3. tbl' = tbl
    BY <1>2, <2>1, <2>2, RollbackIdle
  <2>4. UeSound(tbl, ues')
    BY <1>2, <2>1, GivenBackSound
  <2>5. \A x \in UeRows : ues'.ctx[x].used => ues.ctx[x].used
    BY <2>1 DEF GivenBack
  <2>6. QED BY <1>2, <2>1, <2>3, <2>4, <2>5, NothingNew
<1>5. QED BY <1>1, <1>3, <1>4


LEMMA RefusedGrows ==
  ASSUME GrowInv,
         \/ \E q \in SetupReqs : FirstSetup(q) \/ SetupRefused(q)
         \/ \E q \in ModifyReqs : ModifyUnknown(q)
  PROVE  Onward
<1>1. /\ tbl' = tbl /\ rsp'.granted = {}
      /\ ues'.ctx = ues.ctx /\ ues'.hash = ues.hash
  BY RefusedUes DEF GrowInv
<1>2. UeSound(tbl, ues) /\ Growing(tbl) /\ Pending(tbl) = {}
  BY DEF GrowInv, Settled
<1>3. UeSound(tbl, ues')
  BY <1>1, <1>2 DEF UeSound, IdsSound, Apart
<1>4. Settled
  BY DEF GrowInv
<1>5. QED BY <1>1, <1>3, <1>4, NothingNew

LEMMA StepGrows ==
  ASSUME Growth, GrowInv, [Next]_vars
  PROVE  Onward
<1>1. CASE \E q \in SetupReqs : FirstSetup(q) \/ SetupRefused(q) \/ SetupBearer(q)
  BY <1>1, RefusedGrows, SetupGrows
<1>2. CASE \E q \in ModifyReqs : ModifyUnknown(q) \/ ModifyMismatch(q) \/ ModifyBearer(q)
  BY <1>2, RefusedGrows, MismatchGrows, ModifyGrows
<1>3. CASE \E id \in ReleaseIds : ReleaseUnknown(id) \/ ReleaseMissed(id) \/ ReleaseBearer(id)
  BY <1>3 DEF Growth
<1>4. CASE UNCHANGED vars
  BY <1>4, Unmoved DEF GrowInv, vars
<1>5. QED BY <1>1, <1>2, <1>3, <1>4 DEF Next

LEMMA InitGrows == Init => Settled
<1> SUFFICES ASSUME Init PROVE Settled
  OBVIOUS
<1>1. BearerInv
  BY InitInv
<1>2. tbl \in Table /\ ues \in UeTable
  BY <1>1 DEF BearerInv, TypeOK
<1>3. /\ \A r \in Rows : ~tbl.used[r]
      /\ \A k \in TunnelKey : tbl.hash[k] = NoRow
  BY DEF Init, EmptyTable
<1>4. /\ \A r \in UeRows : ~ues.ctx[r].used
      /\ \A id \in UeIds : ues.hash[id] = NoRow
  BY DEF Init, EmptyUeTable
<1>5. Pending(tbl) = {}
  BY <1>3 DEF Pending
<1>6. Growing(tbl)
  <2>1. Leads(tbl) /\ Found(tbl)
    BY <1>3 DEF Leads, Found
  <2>2. OneKeyEach(tbl) /\ Passed(tbl)
    BY <1>5 DEF OneKeyEach, Passed
  <2>3. QED BY <1>2, <2>1, <2>2 DEF Growing
<1>7. UeSound(tbl, ues)
  BY <1>4, InitIds DEF UeSound, IdsInv, Apart
<1>8. GrantsHeld(tbl, rsp.granted)
  BY DEF Init, Answer, GrantsHeld
<1>9. QED BY <1>5, <1>6, <1>7, <1>8 DEF Settled

(* The inductive invariant of contexts that only grow: between requests    *)
(* no row is pending, keys and rows in use belong to each other, and so do *)
(* UE ids and contexts.                                                    *)
THEOREM GrowthInvariant ==
  ASSUME Growth
  PROVE  Spec => []GrowInv
<1>1. Init => GrowInv
  BY InitInv, InitGrows DEF GrowInv
<1>2. GrowInv /\ [Next]_vars => GrowInv'
  BY StepGrows, StepKeepsInv DEF GrowInv, Onward
<1>3. QED BY <1>1, <1>2, PTL DEF Spec

(* No set-up, refusal or rollback takes a row of either table that nobody  *)
(* could ask to give back, but for the two exceptions the code makes: a    *)
(* tunnel that comes into use is announced, or is a failed session's, and  *)
(* a UE row is a UE's that the answer names, or a failed set-up's; and     *)
(* every row in use is found by its key.  What the work on a context has   *)
(* taken it accounts for step by step (see GrowWork and Accounted).        *)
THEOREM GrowthAnnounced ==
  ASSUME Growth
  PROVE  Spec => RowsAnnounced
<1> DEFINE A == /\ \A r \in Rows : tbl'.used[r] =>
                     Live(r)' /\ (tbl.used[r] \/ Announced(r)' \/ LeftBehind(r)')
                /\ \A r \in UeRows : ues'.ctx[r].used =>
                     /\ ues'.hash[ues'.ctx[r].cuup] = r
                     /\ \/ ues.ctx[r].used
                        \/ rsp'.cause = "success" /\ rsp'.cuup = ues'.ctx[r].cuup
                        \/ rsp'.cause = "unspecified"
<1>1. GrowInv /\ [Next]_vars => [A]_vars
  <2> SUFFICES ASSUME GrowInv, [Next]_vars
               PROVE  A
    OBVIOUS
  <2>1. Settled' /\ Answered
    BY StepGrows DEF Onward
  <2>2. Growing(tbl') /\ Pending(tbl') = {} /\ UeSound(tbl', ues')
    BY <2>1 DEF Settled
  <2>3. ASSUME NEW r \in Rows, tbl'.used[r]
        PROVE  Live(r)' /\ (tbl.used[r] \/ Announced(r)' \/ LeftBehind(r)')
    <3>1. tbl'.hash[tbl'.key[r]] = r /\ r # NoRow
      BY <2>2, <2>3, UsedLive, NoRowAssumption DEF Rows
    <3>2. Live(r)'
      BY <2>3, <3>1 DEF Live
    <3>3. tbl.used[r] \/ Announced(r)' \/ LeftBehind(r)'
      BY <2>1, <2>3 DEF Answered, Accounted, Announced, LeftBehind, PdusInfo
    <3>4. QED BY <3>2, <3>3
  <2>4. \A r \in UeRows : ues'.ctx[r].used =>
          /\ ues'.hash[ues'.ctx[r].cuup] = r
          /\ \/ ues.ctx[r].used
             \/ rsp'.cause = "success" /\ rsp'.cuup = ues'.ctx[r].cuup
             \/ rsp'.cause = "unspecified"
    BY <2>1, <2>2 DEF UeSound, IdsSound, Answered
  <2>5. QED BY <2>3, <2>4
<1> HIDE DEF A
<1>2. Spec => [][A]_vars
  BY <1>1, GrowthInvariant, PTL DEF Spec
<1>3. QED BY <1>2 DEF RowsAnnounced, A

(* A positive answer is true when it leaves: the key of every tunnel it    *)
(* announces leads to a committed row in use, of the kind and with the id  *)
(* that the answer says, a DRB's as it is read back from the row.          *)
THEOREM GrowthGrants ==
  ASSUME Growth
  PROVE  Spec => []GrantsLive
<1>1. ASSUME GrowInv
      PROVE  GrantsLive
  <2>1. Growing(tbl) /\ Pending(tbl) = {} /\ GrantsHeld(tbl, rsp.granted)
    BY <1>1 DEF GrowInv, Settled
  <2>2. ASSUME NEW g \in rsp.granted
        PROVE  tbl.hash[g.key] # NoRow /\ Live(tbl.hash[g.key])
               /\ Told(tbl.info[tbl.hash[g.key]]) = g.info
    <3>1. PICK r \in Rows : tbl.used[r] /\ tbl.key[r] = g.key /\ Told(tbl.info[r]) = g.info
      BY <2>1 DEF GrantsHeld
    <3>2. tbl.hash[tbl.key[r]] = r /\ r # NoRow
      BY <2>1, <3>1, UsedLive, NoRowAssumption DEF Rows
    <3>3. QED BY <3>1, <3>2 DEF Live
  <2>3. QED BY <2>2 DEF GrantsLive
<1>2. QED BY <1>1, GrowthInvariant, PTL

LEMMA DrbsOf ==
  ASSUME NEW t, NEW c \in UeCtx, ListsGood(t, c)
  PROVE  /\ \A i \in DOMAIN Drbs(c) :
              i \in 1 .. c.drbCount /\ Drbs(c)[i] = c.drb[i] /\ Drbs(c)[i] \in Rows
              /\ t.used[Drbs(c)[i]] /\ t.info[Drbs(c)[i]].kind = "drb"
         /\ \A i, j \in DOMAIN Drbs(c) :
              IdIn(t, Drbs(c)[i]) = IdIn(t, Drbs(c)[j]) => i = j \/ IdIn(t, Drbs(c)[i]) \in Doubled
<1> DEFINE l == Drbs(c)
<1>1. /\ l \in Seq(RowOrNull) /\ Len(l) = c.drbCount
      /\ \A i \in 1 .. c.drbCount : l[i] = c.drb[i]
  BY Lists
<1> HIDE DEF l
<1>2. DOMAIN l = 1 .. c.drbCount
  BY <1>1
<1>3. \A i \in 1 .. c.drbCount :
        c.drb[i] \in Rows /\ t.used[c.drb[i]] /\ t.info[c.drb[i]].kind = "drb"
  BY DEF ListsGood
<1>4. \A i, j \in 1 .. c.drbCount :
        IdIn(t, c.drb[i]) = IdIn(t, c.drb[j]) => i = j \/ IdIn(t, c.drb[i]) \in Doubled
  BY DEF ListsGood
<1>5. \A i, j \in DOMAIN l :
        IdIn(t, l[i]) = IdIn(t, l[j]) => i = j \/ IdIn(t, l[i]) \in Doubled
  BY <1>1, <1>2, <1>4
<1>6. \A i \in DOMAIN l :
        i \in 1 .. c.drbCount /\ l[i] = c.drb[i] /\ l[i] \in Rows
        /\ t.used[l[i]] /\ t.info[l[i]].kind = "drb"
  BY <1>1, <1>2, <1>3
<1>7. QED BY <1>5, <1>6 DEF l

(* A DRB list names committed DRB tunnels only, each DRB id once unless it *)
(* is what an id from 32 on is cut down to, and no tunnel is on the lists  *)
(* of two UEs: drb_setup refuses an id below 32 that the list holds, and   *)
(* only the row whose context is replaced passes its DRBs on (see          *)
(* OwnDrbs).                                                               *)
THEOREM GrowthDrbs ==
  ASSUME Growth
  PROVE  Spec => []DrbsSound
<1>1. ASSUME GrowInv
      PROVE  DrbsSound
  <2>1. Growing(tbl) /\ Pending(tbl) = {} /\ UeSound(tbl, ues) /\ ues \in UeTable
    BY <1>1 DEF GrowInv, Settled, BearerInv, TypeOK
  <2>2. ASSUME NEW id \in UeIds, Committed(id)
        PROVE  /\ ues.hash[id] \in UeRows /\ Context(id) = ues.ctx[ues.hash[id]]
               /\ Context(id) \in UeCtx /\ Context(id).used /\ Context(id).cuup = id
               /\ ListsGood(tbl, Context(id))
    <3>1. ues.hash[id] \in UeRows
      BY <2>1, <2>2, UeFields DEF Committed
    <3>2. Context(id) \in UeCtx /\ Context(id) = ues.ctx[ues.hash[id]]
      BY <2>1, <3>1, UeFields DEF Context
    <3>3. Context(id).used /\ Context(id).cuup = id
      BY <2>1, <2>2, <3>2 DEF UeSound, IdsSound, Committed
    <3>4. ListsGood(tbl, Context(id))
      BY <2>1, <3>1, <3>2, <3>3 DEF UeSound
    <3>5. QED BY <3>1, <3>2, <3>3, <3>4
  <2>3. ASSUME NEW id \in UeIds, Committed(id),
               NEW i \in DOMAIN Drbs(Context(id))
        PROVE  Live(Drbs(Context(id))[i]) /\ tbl.info[Drbs(Context(id))[i]].kind = "drb"
    <3> DEFINE r == Drbs(Context(id))[i]
    <3>1. r \in Rows /\ tbl.used[r] /\ tbl.info[r].kind = "drb"
      BY <2>2, <2>3, DrbsOf
    <3> HIDE DEF r
    <3>2. tbl.hash[tbl.key[r]] = r /\ r # NoRow
      BY <2>1, <3>1, UsedLive, NoRowAssumption DEF Rows
    <3>3. Live(r)
      BY <3>1, <3>2 DEF Live
    <3>4. QED BY <3>1, <3>3 DEF r
  <2>4. ASSUME NEW id \in UeIds, Committed(id)
        PROVE  \A i, j \in DOMAIN Drbs(Context(id)) :
                 AsDrbs(tbl)[Drbs(Context(id))[i]] = AsDrbs(tbl)[Drbs(Context(id))[j]] =>
                   i = j \/ AsDrbs(tbl)[Drbs(Context(id))[i]] \in Doubled
    <3> DEFINE l == Drbs(Context(id))
    <3>1. /\ \A i \in DOMAIN l : l[i] \in Rows
          /\ \A i, j \in DOMAIN l :
               IdIn(tbl, l[i]) = IdIn(tbl, l[j]) => i = j \/ IdIn(tbl, l[i]) \in Doubled
      BY <2>2, <2>4, DrbsOf
    <3> HIDE DEF l
    <3>2. \A i \in DOMAIN l : AsDrbs(tbl)[l[i]] = IdIn(tbl, l[i])
      BY <3>1 DEF AsDrbs, IdIn
    <3>3. \A i, j \in DOMAIN l :
            AsDrbs(tbl)[l[i]] = AsDrbs(tbl)[l[j]] => i = j \/ AsDrbs(tbl)[l[i]] \in Doubled
      BY <3>1, <3>2
    <3>4. QED BY <3>3 DEF l
  <2>5. ASSUME NEW id \in UeIds, Committed(id), NEW other \in UeIds \ {id}, Committed(other)
        PROVE  ToSet(Drbs(Context(id))) \intersect ToSet(Drbs(Context(other))) = {}
    <3> DEFINE c == Context(id)
               d == Context(other)
    <3>1. /\ c \in UeCtx /\ d \in UeCtx /\ ListsGood(tbl, c) /\ ListsGood(tbl, d)
          /\ c = ues.ctx[ues.hash[id]] /\ d = ues.ctx[ues.hash[other]]
          /\ ues.hash[id] \in UeRows /\ ues.hash[other] \in UeRows
          /\ c.used /\ d.used /\ c.cuup = id /\ d.cuup = other
      BY <2>2, <2>5
    <3> HIDE DEF c, d
    <3>2. ues.hash[id] # ues.hash[other]
      BY <3>1
    <3>3. \A i \in 1 .. c.drbCount : \A j \in 1 .. d.drbCount : c.drb[i] # d.drb[j]
      BY <2>1, <3>1, <3>2 DEF UeSound, Apart
    <3>4. \A i \in DOMAIN Drbs(c) : i \in 1 .. c.drbCount /\ Drbs(c)[i] = c.drb[i]
      BY <3>1, DrbsOf
    <3>5. \A j \in DOMAIN Drbs(d) : j \in 1 .. d.drbCount /\ Drbs(d)[j] = d.drb[j]
      BY <3>1, DrbsOf
    <3>6. \A i \in DOMAIN Drbs(c) : \A j \in DOMAIN Drbs(d) : Drbs(c)[i] # Drbs(d)[j]
      BY <3>3, <3>4, <3>5
    <3>7. QED BY <3>6 DEF ToSet, c, d
  <2>6. QED BY <2>3, <2>4, <2>5 DEF DrbsSound
<1>2. QED BY <1>1, GrowthInvariant, PTL

(* A tunnel once committed keeps its key and its contents through every    *)
(* later request, of any UE.                                               *)
THEOREM GrowthKeepsTunnels ==
  ASSUME Growth
  PROVE  Spec => TunnelsKept
<1> DEFINE A == \A k \in TunnelKey : tbl.hash[k] # NoRow =>
                  tbl'.hash[k] # NoRow /\ tbl'.info[tbl'.hash[k]] = tbl.info[tbl.hash[k]]
<1>1. GrowInv /\ [Next]_vars => [A]_vars
  <2> SUFFICES ASSUME GrowInv, [Next]_vars, NEW k \in TunnelKey, tbl.hash[k] # NoRow
               PROVE  tbl'.hash[k] # NoRow /\ tbl'.info[tbl'.hash[k]] = tbl.info[tbl.hash[k]]
    OBVIOUS
  <2>1. Grows(tbl, tbl')
    BY StepGrows DEF Onward
  <2>2. tbl.hash[k] \in Rows /\ tbl.used[tbl.hash[k]]
    <3>1. Growing(tbl)
      BY DEF GrowInv, Settled
    <3>2. QED BY <3>1, TableFields DEF Growing, Leads
  <2>3. QED BY <2>1, <2>2 DEF Grows
<1> HIDE DEF A
<1>2. Spec => [][A]_vars
  BY <1>1, GrowthInvariant, PTL DEF Spec
<1>3. QED BY <1>2 DEF TunnelsKept, A
=============================================================================
