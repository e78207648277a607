---------------------------- MODULE Setup_proofs ----------------------------
(***************************************************************************)
(* Theorems about the first bearer set-up, for tables of any size and any  *)
(* requests.  One fact carries them: ids of tunnels and rows of the tunnel *)
(* table are searched for by two cursors that are never apart, and nothing *)
(* is ever given back, so that each id reserved names the row in use.      *)
(***************************************************************************)
EXTENDS Setup, WellFoundedInduction, FiniteSetTheorems, TLAPS

(* The ids and the rows of the tunnels go in step: every id reserved is    *)
(* that of the row with its number, in use for good.                       *)
TableRecord ==
  [ids : SUBSET Rows, last_id : Rows, used : SUBSET Rows, last_slot : Rows,
   zero : TunnelKey \union {NoKey}, key : [Rows -> TunnelKey \union {NoKey}],
   hash : [TunnelKey -> Rows \union {NoRow}]]

InStep(t) ==
  /\ t.ids = t.used /\ t.last_id = t.last_slot
  /\ t.last_slot \in t.used \/ (t.last_slot = 0 /\ t.used = {})

KeysInRows(t) ==
  /\ \A r \in t.used : t.key[r] \in TunnelKey /\ t.key[r].te_id = r
  /\ \A k \in TunnelKey : t.hash[k] # NoRow =>
       t.hash[k] = k.te_id /\ k.te_id \in t.used /\ t.key[k.te_id] = k
  /\ t.zero # NoKey => t.zero.te_id \in t.used

TableOK(t) == t \in TableRecord /\ InStep(t) /\ KeysInRows(t)

(* The UE contexts.                                                        *)
UesRecord ==
  [ids : SUBSET UeIds, last_id : UeIds, zero_id : UeIds \union {NoKey},
   used : SUBSET UeRows, last_slot : UeRows, zero : UeIds \union {NoKey},
   hash : [UeIds -> UeRows \union {NoRow}],
   ctx : [UeRows -> [cuup : UeIds, pdus : Seq(Rows), drbs : Seq(Rows)]]]

(* As many contexts as ids; the next id is always new.                     *)
UesSound(u) ==
  /\ u.ids \subseteq 1 .. u.last_id
  /\ u.zero_id \in u.ids \union {NoKey} /\ u.zero \in u.ids \union {NoKey}
  /\ Cardinality(u.used) = Cardinality(u.ids)
  /\ u.last_slot \in u.used \union {0}
  /\ \A r \in UeRows \ u.used : u.ctx[r].drbs = <<>> /\ u.ctx[r].pdus = <<>>

UesOK(u) == u \in UesRecord /\ UesSound(u)

(* The handler.                                                            *)
RunRecord ==
  [pc : {"idle", "refused", "session", "drb", "dead"}, req : Seq(Nat), todo : Seq(Nat),
   ctx : UeRows \union {NoRow}, sessions : Nat, session : Rows \union {NoRow},
   left : Nat, drbs : Nat]

Busy == run.pc \in {"session", "drb"}

(* What is left to do is the end of the request.                           *)
EndOf(todo, req) ==
  /\ Len(todo) <= Len(req)
  /\ \A i \in 1 .. Len(todo) : todo[i] = req[Len(req) - Len(todo) + i]

(* As long as an id is free, a session or a DRB that was asked for is had. *)
NothingAsked ==
  run.sessions = 0 /\ tunnels.ids # Rows =>
    \A i \in 1 .. Len(run.req) - Len(run.todo) : run.req[i] = 0

Lists == {ues.ctx[run.ctx].drbs, ues.ctx[run.ctx].pdus}

(* A handler at work has a context of its own, whose lists name rows in    *)
(* use, and a session that no key leads to yet.                            *)
RunSound ==
  /\ Busy =>
       /\ run.ctx \in ues.used /\ ues.ctx[run.ctx].cuup \in ues.ids
       /\ ues.ctx[run.ctx].drbs \in Seq(tunnels.used)
       /\ ues.ctx[run.ctx].pdus \in Seq(tunnels.used)
       /\ EndOf(run.todo, run.req) /\ NothingAsked
  /\ run.pc = "drb" =>
       /\ run.session \in tunnels.used /\ run.todo # <<>>
       /\ tunnels.hash[tunnels.key[run.session]] = NoRow
       /\ run.drbs = 0 /\ tunnels.ids # Rows => run.left = Head(run.todo)

(* What a set-up is at work on has not been announced.                     *)
InHand(r) ==
  \/ \E i \in DOMAIN ues.ctx[run.ctx].drbs : ues.ctx[run.ctx].drbs[i] = r
  \/ \E i \in DOMAIN ues.ctx[run.ctx].pdus : ues.ctx[run.ctx].pdus[i] = r
  \/ run.pc = "drb" /\ run.session = r

(* What was announced stands, is of one answer only, and is not what the   *)
(* handler is at work on.                                                  *)
AnswerRecord == [ue : UeIds, ctx : UeRows, tunnels : SUBSET [key : TunnelKey, row : Rows]]

AnswerStands(a) ==
  /\ a.ue \in ues.ids /\ ues.hash[a.ue] = a.ctx
  /\ \A t \in a.tunnels :
       tunnels.hash[t.key] = t.row /\ tunnels.key[t.row] = t.key /\ t.row \in tunnels.used

AnswersStand == \A a \in answers : AnswerStands(a)

AnswersApart ==
  \A a, b \in answers : a # b =>
    a.ue # b.ue /\ \A s \in a.tunnels, t \in b.tunnels : s.row # t.row

AnswersDone ==
  Busy => \A a \in answers :
    a.ue # ues.ctx[run.ctx].cuup /\ \A t \in a.tunnels : ~InHand(t.row)

SetupInv ==
  /\ TableOK(tunnels) /\ UesOK(ues) /\ run \in RunRecord
  /\ answers \in SUBSET AnswerRecord
  /\ RunSound /\ AnswersStand /\ AnswersApart /\ AnswersDone /\ RefusedOnlyWhenFull

LEMMA AheadType ==
  ASSUME NEW n \in Nat \ {0}, NEW from \in 0 .. n - 1, NEW to \in 0 .. n - 1
  PROVE  Ahead(n, from, to) \in Nat
<1>1. to - from + n \in Nat
  OBVIOUS
<1>2. QED BY <1>1, SMT DEF Ahead

LEMMA LeastNatural ==
  ASSUME NEW S \in SUBSET Nat, S # {}
  PROVE  \E x \in S : \A y \in S : x <= y
<1> DEFINE Less == {p \in Nat \X Nat : p[1] < p[2]}
<1>1. IsWellFoundedOn(Less, Nat)
  BY NatLessThanWellFounded, Zenon DEF OpToRel
<1>2. \E x \in S : \A y \in S : <<y, x>> \notin Less
  <2> HIDE DEF Less
  <2> QED BY <1>1, WFMin
<1>3. \A x, y \in S : <<y, x>> \notin Less => x <= y
  <2> SUFFICES ASSUME NEW x \in Nat, NEW y \in Nat, ~(y < x)
               PROVE  x <= y
    OBVIOUS
  <2> QED OBVIOUS
<1>4. QED BY <1>2, <1>3

LEMMA NextInScanFound ==
  ASSUME NEW n \in Nat \ {0}, NEW last \in 0 .. n - 1,
         NEW S \in SUBSET (0 .. n - 1), Candidates(last, S) # {}
  PROVE  /\ NextInScan(n, last, S) \in S \ {last}
         /\ \A j \in S \ {last} :
              Ahead(n, last, NextInScan(n, last, S)) <= Ahead(n, last, j)
<1> DEFINE D == {Ahead(n, last, i) : i \in Candidates(last, S)}
<1>1. D \in SUBSET Nat /\ D # {}
  BY AheadType DEF Candidates
<1>2. PICK d \in D : \A e \in D : d <= e
  <2> HIDE DEF D
  <2> QED BY <1>1, LeastNatural
<1>3. PICK i \in Candidates(last, S) : d = Ahead(n, last, i)
  OBVIOUS
<1>4. \A j \in Candidates(last, S) : Ahead(n, last, i) <= Ahead(n, last, j)
  BY <1>2, <1>3
<1>5. /\ NextInScan(n, last, S) \in Candidates(last, S)
      /\ \A j \in Candidates(last, S) :
           Ahead(n, last, NextInScan(n, last, S)) <= Ahead(n, last, j)
  BY <1>4 DEF NextInScan
<1>6. QED BY <1>5 DEF Candidates

LEMMA UpTo ==
  ASSUME NEW n \in Nat, NEW S \in SUBSET (0 .. n), 0 \in S,
         \A i \in 1 .. n : i - 1 \in S => i \in S
  PROVE  S = 0 .. n
<1> DEFINE Rest == (0 .. n) \ S
<1>1. SUFFICES ASSUME Rest # {} PROVE FALSE
  OBVIOUS
<1>2. PICK m \in Rest : \A j \in Rest : m <= j
  <2>1. Rest \in SUBSET Nat
    OBVIOUS
  <2> HIDE DEF Rest
  <2>2. QED BY <1>1, <2>1, LeastNatural
<1>3. m \in 1 .. n /\ m - 1 \in 0 .. n
  BY <1>2
<1>4. m - 1 \in S
  BY <1>2, <1>3
<1>5. QED BY <1>2, <1>3, <1>4


-----------------------------------------------------------------------------
(* A search for a row finds one unless all are in use.                     *)
LEMMA NextSlotFound ==
  ASSUME NEW n \in Nat \ {0}, NEW used \in SUBSET (0 .. n - 1), used # 0 .. n - 1,
         NEW last \in 0 .. n - 1, last \in used \union {0}
  PROVE  NextSlot(n, last, used) \in (0 .. n - 1) \ used
<1> DEFINE free == (0 .. n - 1) \ used
<1>1. NextSlot(n, last, used) =
        IF Candidates(last, free) # {} THEN NextInScan(n, last, free)
        ELSE IF last = 0 /\ free # {} THEN 0 ELSE NoRow
  BY DEF NextSlot
<1>2. free \in SUBSET (0 .. n - 1) /\ free # {}
  OBVIOUS
<1>3. CASE Candidates(last, free) # {}
  <2> HIDE DEF free
  <2>1. NextInScan(n, last, free) \in free \ {last}
    BY <1>2, <1>3, NextInScanFound
  <2>2. QED BY <1>1, <1>3, <2>1 DEF free
<1>4. CASE Candidates(last, free) = {}
  <2>1. free \subseteq {last}
    BY <1>4 DEF Candidates
  <2>2. last \in free /\ last = 0
    BY <1>2, <2>1
  <2>3. QED BY <1>1, <1>2, <1>4, <2>2
<1>5. QED BY <1>3, <1>4

LEMMA RowsFacts ==
  /\ MAX_TUNNEL_COUNT \in Nat \ {0} /\ Rows = 0 .. MAX_TUNNEL_COUNT - 1 /\ 0 \in Rows
  /\ MAX_UE_COUNT \in Nat \ {0} /\ UeRows = 0 .. MAX_UE_COUNT - 1 /\ 0 \in UeRows
  /\ NoRow \notin Rows /\ NoRow \notin UeRows
  /\ NoKey \notin TunnelKey /\ NoKey \notin UeIds /\ 1 \in Rows
BY SetupAssumption DEF Rows, UeRows, UeIds

(* A table with one more row, for a key whose id is that row.              *)
Taken(t, r, k) ==
  [t EXCEPT !.ids = @ \union {r}, !.last_id = r, !.used = @ \union {r}, !.key[r] = k,
            !.last_slot = r]

LEMMA TakenFields ==
  ASSUME NEW t \in TableRecord, NEW r \in Rows, NEW k \in TunnelKey
  PROVE  /\ Taken(t, r, k) \in TableRecord
         /\ Taken(t, r, k).ids = t.ids \union {r} /\ Taken(t, r, k).used = t.used \union {r}
         /\ Taken(t, r, k).last_id = r /\ Taken(t, r, k).last_slot = r
         /\ Taken(t, r, k).zero = t.zero /\ Taken(t, r, k).hash = t.hash
         /\ Taken(t, r, k).key = [t.key EXCEPT ![r] = k]
BY DEF Taken, TableRecord

LEMMA TakenOK ==
  ASSUME NEW t, TableOK(t), NEW r \in Rows \ t.used, NEW k \in TunnelKey, k.te_id = r
  PROVE  /\ TableOK(Taken(t, r, k)) /\ t.hash[k] = NoRow
         /\ Taken(t, r, k).ids = t.ids \union {r} /\ Taken(t, r, k).used = t.used \union {r}
         /\ Taken(t, r, k).hash = t.hash /\ Taken(t, r, k).key[r] = k
         /\ \A q \in t.used : Taken(t, r, k).key[q] = t.key[q]
<1> DEFINE u == Taken(t, r, k)
<1>1. t \in TableRecord /\ InStep(t) /\ KeysInRows(t)
  BY DEF TableOK
<1>2. /\ u \in TableRecord
      /\ u.ids = t.ids \union {r} /\ u.used = t.used \union {r}
      /\ u.last_id = r /\ u.last_slot = r
      /\ u.zero = t.zero /\ u.hash = t.hash
      /\ u.key = [t.key EXCEPT ![r] = k]
  BY <1>1, TakenFields
<1> HIDE DEF u
<1>3. t.key \in [Rows -> TunnelKey \union {NoKey}] /\ t.used \in SUBSET Rows
  BY <1>1 DEF TableRecord
<1>4. u.key[r] = k /\ \A q \in t.used : u.key[q] = t.key[q]
  BY <1>2, <1>3
<1>5. t.hash[k] = NoRow
  BY <1>1 DEF KeysInRows
<1>6. InStep(u)
  BY <1>1, <1>2 DEF InStep
<1>7. KeysInRows(u)
  <2>1. \A q \in u.used : u.key[q] \in TunnelKey /\ u.key[q].te_id = q
    BY <1>1, <1>2, <1>4 DEF KeysInRows
  <2>2. \A j \in TunnelKey : u.hash[j] # NoRow =>
          u.hash[j] = j.te_id /\ j.te_id \in u.used /\ u.key[j.te_id] = j
    BY <1>1, <1>2, <1>4 DEF KeysInRows
  <2>3. u.zero # NoKey => u.zero.te_id \in u.used
    BY <1>1, <1>2 DEF KeysInRows
  <2>4. QED BY <2>1, <2>2, <2>3 DEF KeysInRows
<1>8. TableOK(u)
  BY <1>2, <1>6, <1>7 DEF TableOK
<1>9. QED BY <1>2, <1>4, <1>5, <1>8 DEF u

FreeIds(t) == Candidates(t.last_id, Rows \ t.ids)

(* No id can be had only when all are reserved.                            *)
LEMMA NoIdLeft ==
  ASSUME NEW t, TableOK(t), FreeIds(t) = {}
  PROVE  t.ids = Rows
<1>1. t.ids \in SUBSET Rows /\ t.last_id \in Rows
  BY DEF TableOK, TableRecord
<1>2. t.last_id \in t.ids \/ (t.ids = {} /\ t.last_id = 0)
  BY DEF TableOK, InStep
<1>3. Rows \ t.ids \subseteq {t.last_id}
  BY DEF FreeIds, Candidates
<1>4. t.ids # {}
  <2>1. SUFFICES ASSUME t.ids = {} PROVE FALSE
    OBVIOUS
  <2>2. 0 \in Rows /\ 1 \in Rows
    BY RowsFacts
  <2>3. QED BY <1>3, <2>1, <2>2
<1>5. QED BY <1>1, <1>2, <1>3, <1>4

(* The id and the row that go together.                                    *)
LEMMA IdAndRow ==
  ASSUME NEW t, TableOK(t), FreeIds(t) # {}
  PROVE  \E i \in Rows \ t.used :
           /\ id_alloc(t) = [tunnels |-> [t EXCEPT !.ids = @ \union {i}, !.last_id = i],
                             id |-> i]
           /\ NextSlot(MAX_TUNNEL_COUNT, t.last_slot, t.used) = i
<1> DEFINE i == NextInScan(MAX_TUNNEL_COUNT, t.last_id, Rows \ t.ids)
<1>1. /\ t.ids = t.used /\ t.last_id = t.last_slot /\ t.ids \in SUBSET Rows
      /\ t.last_id \in Rows
  BY DEF TableOK, InStep, TableRecord
<1>2. i \in Rows \ t.ids
  <2>1. /\ MAX_TUNNEL_COUNT \in Nat \ {0} /\ t.last_id \in 0 .. MAX_TUNNEL_COUNT - 1
        /\ Rows \ t.ids \in SUBSET (0 .. MAX_TUNNEL_COUNT - 1)
    BY <1>1, RowsFacts
  <2>2. QED BY <2>1, NextInScanFound DEF FreeIds
<1>3. id_alloc(t) = [tunnels |-> [t EXCEPT !.ids = @ \union {id_alloc(t).id},
                                           !.last_id = id_alloc(t).id],
                     id |-> id_alloc(t).id]
  BY DEF id_alloc, FreeIds
<1>4. id_alloc(t).id = NextInScan(MAX_TUNNEL_COUNT, t.last_id, FreeIds(t))
  BY DEF id_alloc, FreeIds
<1>5. Candidates(t.last_id, FreeIds(t)) = Candidates(t.last_id, Rows \ t.ids)
  BY DEF Candidates, FreeIds
<1>6. NextInScan(MAX_TUNNEL_COUNT, t.last_id, FreeIds(t)) = i
  BY <1>5, Zenon DEF NextInScan
<1>7. NextSlot(MAX_TUNNEL_COUNT, t.last_slot, t.used) = i
  BY <1>1 DEF NextSlot, FreeIds, Rows
<1> HIDE DEF i
<1>8. QED BY <1>1, <1>2, <1>3, <1>4, <1>6, <1>7

(* A tunnel is set up in the row its id names, or nothing changes.         *)
LEMMA SetUpResult ==
  ASSUME NEW t, TableOK(t), NEW ttype \in Types
  PROVE  \/ FreeIds(t) = {} /\ TunnelSetUp(t, ttype) = [tunnels |-> t, row |-> NoRow]
         \/ \E r \in Rows \ t.used : \E k \in TunnelKey :
              /\ k.te_id = r
              /\ TunnelSetUp(t, ttype) = [tunnels |-> Taken(t, r, k), row |-> r]
<1>1. CASE FreeIds(t) = {}
  <2>1. id_alloc(t) = [tunnels |-> t, id |-> NoRow]
    BY <1>1 DEF id_alloc, FreeIds
  <2>2. id_alloc(t).id = NoRow
    BY <2>1
  <2>3. TunnelSetUp(t, ttype) = [tunnels |-> t, row |-> NoRow]
    BY <2>2 DEF TunnelSetUp
  <2>4. QED BY <1>1, <2>3
<1>2. CASE FreeIds(t) # {}
  <2>1. PICK r \in Rows \ t.used :
          /\ id_alloc(t) = [tunnels |-> [t EXCEPT !.ids = @ \union {r}, !.last_id = r],
                            id |-> r]
          /\ NextSlot(MAX_TUNNEL_COUNT, t.last_slot, t.used) = r
    BY <1>2, IdAndRow
  <2> DEFINE k == [ttype |-> ttype, te_id |-> r]
             u == [t EXCEPT !.ids = @ \union {r}, !.last_id = r]
  <2>2. k \in TunnelKey /\ k.te_id = r /\ r # NoRow
    BY <2>1, RowsFacts DEF TunnelKey
  <2>3. t.zero # k
    <3>1. t.zero # NoKey => t.zero.te_id \in t.used
      BY DEF TableOK, KeysInRows
    <3>2. k # NoKey
      BY <2>2, RowsFacts
    <3>3. QED BY <2>1, <2>2, <3>1, <3>2
  <2>4. t \in TableRecord
    BY DEF TableOK
  <2>5. id_alloc(t).id = r /\ id_alloc(t).tunnels = u
    BY <2>1
  <2>6. u.zero = t.zero /\ u.last_slot = t.last_slot /\ u.used = t.used
    BY <2>4 DEF TableRecord
  <2>7. [u EXCEPT !.used = @ \union {r}, !.key[r] = k, !.last_slot = r] = Taken(t, r, k)
    BY <2>4 DEF TableRecord, Taken
  <2> HIDE DEF u
  <2>8. tunnel_add(u, k) = [tunnels |-> Taken(t, r, k), row |-> r]
    <3>1. tunnel_add(u, k) = tunnel_alloc(u, k)
      BY <2>3, <2>6 DEF tunnel_add
    <3>2. NextSlot(MAX_TUNNEL_COUNT, u.last_slot, u.used) = r
      BY <2>1, <2>6
    <3> HIDE DEF k
    <3>3. tunnel_alloc(u, k) =
            [tunnels |-> [u EXCEPT !.used = @ \union {r}, !.key[r] = k, !.last_slot = r],
             row |-> r]
      BY <2>2, <3>2 DEF tunnel_alloc
    <3>4. QED BY <2>7, <3>1, <3>3
  <2>9. TunnelSetUp(t, ttype) = tunnel_add(u, k)
    <3>1. tunnel_add(u, k).row = r
      BY <2>8
    <3>2. QED BY <2>2, <2>5, <3>1 DEF TunnelSetUp
  <2>10. QED BY <2>1, <2>2, <2>8, <2>9
<1>3. QED BY <1>1, <1>2

-----------------------------------------------------------------------------
(* u has the rows and ids of t, and every key stored in t.                 *)
Kept(t, u) ==
  /\ u.used = t.used /\ u.ids = t.ids /\ u.key = t.key
  /\ \A k \in TunnelKey : t.hash[k] # NoRow => u.hash[k] = t.hash[k]

LEMMA StoreFields ==
  ASSUME NEW t \in TableRecord, NEW k \in TunnelKey, NEW r \in Rows
  PROVE  /\ Store(t, k, r) \in TableRecord
         /\ Store(t, k, r).ids = t.ids /\ Store(t, k, r).used = t.used
         /\ Store(t, k, r).last_id = t.last_id /\ Store(t, k, r).last_slot = t.last_slot
         /\ Store(t, k, r).key = t.key /\ Store(t, k, r).hash = [t.hash EXCEPT ![k] = r]
         /\ Store(t, k, r).zero = IF t.zero = NoKey THEN k ELSE t.zero
BY DEF Store, TableRecord

LEMMA StoreOK ==
  ASSUME NEW t, TableOK(t), NEW r \in t.used, t.hash[t.key[r]] = NoRow
  PROVE  LET u == Store(t, t.key[r], r)
         IN  TableOK(u) /\ Kept(t, u) /\ u.hash[t.key[r]] = r
<1> DEFINE k == t.key[r]
           u == Store(t, k, r)
<1>1. t \in TableRecord /\ InStep(t) /\ KeysInRows(t)
  BY DEF TableOK
<1>2. r \in Rows /\ k \in TunnelKey /\ k.te_id = r
  BY <1>1 DEF TableRecord, KeysInRows
<1>3. t.hash \in [TunnelKey -> Rows \union {NoRow}]
  BY <1>1 DEF TableRecord
<1>4. t.hash[k] = NoRow
  OBVIOUS
<1>5. t.key[r] = k
  OBVIOUS
<1> HIDE DEF k
<1>6. /\ u \in TableRecord /\ u.ids = t.ids /\ u.used = t.used
      /\ u.last_id = t.last_id /\ u.last_slot = t.last_slot
      /\ u.key = t.key /\ u.hash = [t.hash EXCEPT ![k] = r]
      /\ u.zero = IF t.zero = NoKey THEN k ELSE t.zero
  BY <1>1, <1>2, StoreFields
<1> HIDE DEF u
<1>7. u.hash[k] = r /\ \A j \in TunnelKey \ {k} : u.hash[j] = t.hash[j]
  BY <1>2, <1>3, <1>6
<1>8. InStep(u)
  BY <1>1, <1>6 DEF InStep
<1>9. KeysInRows(u)
  <2>1. \A q \in u.used : u.key[q] \in TunnelKey /\ u.key[q].te_id = q
    BY <1>1, <1>6 DEF KeysInRows
  <2>2. ASSUME NEW j \in TunnelKey, u.hash[j] # NoRow
        PROVE  u.hash[j] = j.te_id /\ j.te_id \in u.used /\ u.key[j.te_id] = j
    <3>1. CASE j = k
      BY <1>2, <1>5, <1>6, <1>7, <3>1
    <3>2. CASE j # k
      BY <1>1, <1>6, <1>7, <2>2, <3>2 DEF KeysInRows
    <3>3. QED BY <3>1, <3>2
  <2>3. u.zero # NoKey => u.zero.te_id \in u.used
    BY <1>1, <1>2, <1>6 DEF KeysInRows
  <2>4. QED BY <2>1, <2>2, <2>3 DEF KeysInRows
<1>10. TableOK(u)
  BY <1>6, <1>8, <1>9 DEF TableOK
<1>11. Kept(t, u)
  BY <1>4, <1>6, <1>7 DEF Kept
<1>12. QED BY <1>7, <1>10, <1>11 DEF u, k

(* A row in use is committed once and for all.                             *)
LEMMA CommitOK ==
  ASSUME NEW t, TableOK(t), NEW r \in t.used
  PROVE  LET u == tunnel_commit(t, r)
         IN  TableOK(u) /\ Kept(t, u) /\ u.hash[t.key[r]] = r
<1>1. t.key[r] \in TunnelKey /\ t.key[r].te_id = r
  BY DEF TableOK, KeysInRows
<1>2. CASE t.hash[t.key[r]] = NoRow
  <2>1. tunnel_commit(t, r) = Store(t, t.key[r], r)
    BY <1>2 DEF tunnel_commit
  <2>2. QED BY <1>2, <2>1, StoreOK
<1>3. CASE t.hash[t.key[r]] # NoRow
  <2>1. t.hash[t.key[r]] = r
    BY <1>1, <1>3 DEF TableOK, KeysInRows
  <2>2. tunnel_commit(t, r) = t
    BY <1>3, <2>1 DEF tunnel_commit
  <2>3. QED BY <2>1, <2>2 DEF Kept
<1>4. QED BY <1>2, <1>3

LEMMA KeptTwice ==
  ASSUME NEW t, NEW u, NEW v, Kept(t, u), Kept(u, v)
  PROVE  Kept(t, v)
<1>1. /\ v.used = t.used /\ v.ids = t.ids /\ v.key = t.key
  BY DEF Kept
<1>2. ASSUME NEW k \in TunnelKey, t.hash[k] # NoRow PROVE v.hash[k] = t.hash[k]
  <2>1. u.hash[k] = t.hash[k]
    BY <1>2 DEF Kept
  <2>2. QED BY <1>2, <2>1 DEF Kept
<1>3. QED BY <1>1, <1>2 DEF Kept

(* The function a recursion over 0 .. n is defined by exists: F[i] is what *)
(* its step does at i.                                                     *)
LineOf(g, n, T, base, F) ==
  g \in [0 .. n -> T] /\ g[0] = base /\ \A i \in 1 .. n : g[i] = F[i][g[i - 1]]

LEMMA LineExists ==
  ASSUME NEW n \in Nat, NEW T, NEW base \in T, NEW F \in [1 .. n -> [T -> T]]
  PROVE  \E g : LineOf(g, n, T, base, F)
<1> DEFINE Line(m, g) == g[0] = base /\ \A i \in 1 .. m : g[i] = F[i][g[i - 1]]
           S == {m \in 0 .. n : \E g \in [0 .. m -> T] : Line(m, g)}
<1>1. 0 \in S
  <2>1. [i \in 0 .. 0 |-> base] \in [0 .. 0 -> T] /\ Line(0, [i \in 0 .. 0 |-> base])
    OBVIOUS
  <2>2. 0 \in 0 .. n
    OBVIOUS
  <2> HIDE DEF Line
  <2>3. QED BY <2>1, <2>2
<1>2. ASSUME NEW m \in 1 .. n, m - 1 \in S PROVE m \in S
  <2>1. PICK g \in [0 .. m - 1 -> T] : Line(m - 1, g)
    BY <1>2
  <2> DEFINE h == [i \in 0 .. m |-> IF i = m THEN F[m][g[m - 1]] ELSE g[i]]
  <2>2. /\ \A i \in 0 .. m : i # m => i \in 0 .. m - 1
        /\ \A i \in 1 .. m : i - 1 \in 0 .. m - 1 /\ i - 1 # m /\ i \in 1 .. n
        /\ \A i \in 1 .. m : i # m => i \in 1 .. m - 1
        /\ m \in 1 .. m /\ 0 \in 0 .. m /\ 0 # m
        /\ \A i \in 1 .. m : i \in 0 .. m /\ i - 1 \in 0 .. m
    OBVIOUS
  <2>3. g[m - 1] \in T
    BY <2>2
  <2>4. F[m][g[m - 1]] \in T
    <3>1. F[m] \in [T -> T]
      OBVIOUS
    <3>2. QED BY <2>3, <3>1
  <2>5. h \in [0 .. m -> T]
    <3>1. ASSUME NEW i \in 0 .. m PROVE (IF i = m THEN F[m][g[m - 1]] ELSE g[i]) \in T
      BY <2>2, <2>4
    <3>2. QED BY <3>1
  <2>6. h[0] = base
    BY <2>1, <2>2
  <2>7. ASSUME NEW i \in 1 .. m PROVE h[i] = F[i][h[i - 1]]
    <3>1. h[i - 1] = g[i - 1]
      BY <2>2
    <3>2. CASE i = m
      BY <2>2, <3>1, <3>2
    <3>3. CASE i # m
      <4>1. h[i] = g[i] /\ i \in 1 .. m - 1
        BY <2>2, <3>3
      <4>2. g[i] = F[i][g[i - 1]]
        BY <2>1, <4>1
      <4>3. QED BY <3>1, <4>1, <4>2
    <3>4. QED BY <3>2, <3>3
  <2>8. Line(m, h)
    BY <2>6, <2>7
  <2> HIDE DEF h, Line
  <2>9. m \in 0 .. n
    OBVIOUS
  <2>10. QED BY <2>5, <2>8, <2>9
<1>3. S \in SUBSET (0 .. n)
  OBVIOUS
<1>4. \A m \in 1 .. n : m - 1 \in S => m \in S
  BY <1>2
<1>5. n \in S
  <2> HIDE DEF S
  <2>1. S = 0 .. n
    BY <1>1, <1>3, <1>4, UpTo
  <2>2. QED BY <2>1
<1>6. PICK g \in [0 .. n -> T] : Line(n, g)
  BY <1>5
<1>7. LineOf(g, n, T, base, F)
  BY <1>6 DEF LineOf
<1>8. QED BY <1>7

(* A list of rows in use is committed.                                     *)
LEMMA ListCommitted ==
  ASSUME NEW t, TableOK(t), NEW list \in Seq(t.used)
  PROVE  LET u == CommitDrbs(t, list)
         IN  /\ TableOK(u) /\ Kept(t, u)
             /\ \A i \in DOMAIN list : u.hash[t.key[list[i]]] = list[i]
<1> DEFINE n == Len(list)
           T == {u \in TableRecord : TableOK(u) /\ Kept(t, u)}
           F == [i \in 1 .. n |-> [u \in T |-> tunnel_commit(u, list[i])]]
           Is(g) == g = [i \in 0 .. n |-> IF i = 0 THEN t ELSE tunnel_commit(g[i - 1], list[i])]
           f == CHOOSE g : Is(g)
<1>1. n \in Nat /\ \A i \in 1 .. n : list[i] \in t.used
  OBVIOUS
<1>2. ASSUME NEW u \in T, NEW i \in 1 .. n
      PROVE  tunnel_commit(u, list[i]) \in T /\ tunnel_commit(u, list[i]).hash[t.key[list[i]]] = list[i]
             /\ Kept(u, tunnel_commit(u, list[i]))
  <2> DEFINE v == tunnel_commit(u, list[i])
  <2>1. TableOK(u) /\ Kept(t, u)
    OBVIOUS
  <2>2. list[i] \in u.used /\ u.key = t.key
    BY <1>1, <2>1 DEF Kept
  <2>3. TableOK(v) /\ Kept(u, v) /\ v.hash[u.key[list[i]]] = list[i]
    BY <2>1, <2>2, CommitOK
  <2> HIDE DEF v
  <2>4. Kept(t, v)
    BY <2>1, <2>3, KeptTwice
  <2>5. v \in TableRecord
    BY <2>3 DEF TableOK
  <2>6. v \in T /\ v.hash[t.key[list[i]]] = list[i] /\ Kept(u, v)
    BY <2>2, <2>3, <2>4, <2>5
  <2>7. QED BY <2>6 DEF v
<1>3. t \in T
  BY DEF TableOK, Kept
<1>4. Is(f)
  <2>1. F \in [1 .. n -> [T -> T]]
    BY <1>2
  <2>2. \A i \in 1 .. n : \A u \in T : F[i][u] = tunnel_commit(u, list[i])
    OBVIOUS
  <2> HIDE DEF F, T, n
  <2>3. PICK g : g \in [0 .. n -> T] /\ g[0] = t /\ \A i \in 1 .. n : g[i] = F[i][g[i - 1]]
    <3>1. n \in Nat
      BY <1>1
    <3>2. PICK g : LineOf(g, n, T, t, F)
      BY <1>3, <2>1, <3>1, LineExists
    <3>3. QED BY <3>2 DEF LineOf
  <2>4. ASSUME NEW i \in 0 .. n
        PROVE  g[i] = IF i = 0 THEN t ELSE tunnel_commit(g[i - 1], list[i])
    <3>1. CASE i = 0
      BY <2>3, <3>1
    <3>2. CASE i # 0
      <4>1. i \in 1 .. n /\ i - 1 \in 0 .. n
        BY <1>1, <3>2
      <4>2. g[i - 1] \in T
        BY <2>3, <4>1
      <4>3. g[i] = tunnel_commit(g[i - 1], list[i])
        BY <2>2, <2>3, <4>1, <4>2
      <4>4. QED BY <3>2, <4>3
    <3>3. QED BY <3>1, <3>2
  <2>5. g = [i \in 0 .. n |-> g[i]]
    BY <2>3
  <2>6. Is(g)
    BY <2>4, <2>5
  <2>7. QED BY <2>6
<1>5. CommitDrbs(t, list) = f[n]
  BY Zenon DEF CommitDrbs
<1>6. f[0] = t /\ \A i \in 1 .. n : f[i] = tunnel_commit(f[i - 1], list[i])
  <2> HIDE DEF f, n
  <2>1. /\ 0 \in 0 .. n /\ \A i \in 1 .. n : i \in 0 .. n /\ i # 0
    BY <1>1
  <2>2. QED BY <1>4, <2>1
<1> HIDE DEF F, Is, f, T, n
<1> DEFINE S == {m \in 0 .. n : f[m] \in T /\ \A i \in 1 .. m : f[m].hash[t.key[list[i]]] = list[i]}
<1>7. 0 \in S /\ S \in SUBSET (0 .. n)
  BY <1>1, <1>3, <1>6
<1>8. ASSUME NEW m \in 1 .. n, m - 1 \in S PROVE m \in S
  <2>1. /\ f[m - 1] \in T /\ \A i \in 1 .. m - 1 : f[m - 1].hash[t.key[list[i]]] = list[i]
    BY <1>8
  <2>2. f[m] = tunnel_commit(f[m - 1], list[m])
    BY <1>6
  <2>3. f[m] \in T /\ f[m].hash[t.key[list[m]]] = list[m] /\ Kept(f[m - 1], f[m])
    BY <1>2, <2>1, <2>2
  <2>4. ASSUME NEW i \in 1 .. m - 1 PROVE f[m].hash[t.key[list[i]]] = list[i]
    <3>1. i \in 1 .. n
      BY <1>1
    <3>2. list[i] \in t.used
      BY <1>1, <3>1
    <3>3. t.key[list[i]] \in TunnelKey /\ list[i] # NoRow
      <4>1. t.key[list[i]] \in TunnelKey /\ list[i] \in Rows
        BY <3>2 DEF TableOK, KeysInRows, TableRecord
      <4>2. QED BY <4>1, RowsFacts
    <3>4. f[m - 1].hash[t.key[list[i]]] = list[i]
      BY <2>1
    <3>5. QED BY <2>3, <3>3, <3>4 DEF Kept
  <2>5. \A i \in 1 .. m : i = m \/ i \in 1 .. m - 1
    BY <1>1
  <2>6. m \in 0 .. n
    BY <1>1
  <2>7. QED BY <2>3, <2>4, <2>5, <2>6
<1>9. n \in S
  <2>1. \A m \in 1 .. n : m - 1 \in S => m \in S
    BY <1>8
  <2> HIDE DEF S
  <2>2. S = 0 .. n
    BY <1>1, <1>7, <2>1, UpTo
  <2>3. QED BY <1>1, <2>2
<1>10. f[n] \in T /\ \A i \in 1 .. n : f[n].hash[t.key[list[i]]] = list[i]
  BY <1>9
<1>11. TableOK(f[n]) /\ Kept(t, f[n])
  BY <1>10 DEF T
<1>12. DOMAIN list = 1 .. n
  BY DEF n
<1>13. QED BY <1>5, <1>10, <1>11, <1>12

-----------------------------------------------------------------------------
(* The UE context table with one more id, and with one more context.       *)
Named(u, i) ==
  [u EXCEPT !.ids = @ \union {i}, !.last_id = i,
            !.zero_id = IF @ = NoKey THEN i ELSE @]
Given(u, i, r) ==
  [Named(u, i) EXCEPT !.used = @ \union {r}, !.last_slot = r, !.ctx[r].cuup = i]
Tried(u) == [u EXCEPT !.last_id = u.last_id + 1]
WithCtx(u, r, c) == [u EXCEPT !.ctx[r] = c]

CtxRecord == [cuup : UeIds, pdus : Seq(Rows), drbs : Seq(Rows)]

LEMMA UesTypes ==
  UesRecord =
    [ids : SUBSET UeIds, last_id : UeIds, zero_id : UeIds \union {NoKey},
     used : SUBSET UeRows, last_slot : UeRows, zero : UeIds \union {NoKey},
     hash : [UeIds -> UeRows \union {NoRow}], ctx : [UeRows -> CtxRecord]]
BY Zenon DEF UesRecord, CtxRecord

LEMMA NamedFields ==
  ASSUME NEW u \in UesRecord, NEW i \in UeIds
  PROVE  /\ Named(u, i) \in UesRecord
         /\ Named(u, i).ids = u.ids \union {i} /\ Named(u, i).last_id = i
         /\ Named(u, i).zero_id \in {u.zero_id, i} /\ Named(u, i).used = u.used
         /\ Named(u, i).last_slot = u.last_slot /\ Named(u, i).zero = u.zero
         /\ Named(u, i).hash = u.hash /\ Named(u, i).ctx = u.ctx
         /\ u.zero_id # NoKey => Named(u, i).zero_id = u.zero_id
<1> DEFINE C == [UeRows -> CtxRecord]
<1>1. UesRecord =
        [ids : SUBSET UeIds, last_id : UeIds, zero_id : UeIds \union {NoKey},
         used : SUBSET UeRows, last_slot : UeRows, zero : UeIds \union {NoKey},
         hash : [UeIds -> UeRows \union {NoRow}], ctx : C]
  BY UesTypes
<1> HIDE DEF C
<1>2. QED BY <1>1 DEF Named

LEMMA GivenFields ==
  ASSUME NEW u \in UesRecord, NEW i \in UeIds, NEW r \in UeRows
  PROVE  /\ Given(u, i, r) \in UesRecord
         /\ Given(u, i, r).ids = u.ids \union {i} /\ Given(u, i, r).last_id = i
         /\ Given(u, i, r).zero_id \in {u.zero_id, i}
         /\ Given(u, i, r).used = u.used \union {r} /\ Given(u, i, r).last_slot = r
         /\ Given(u, i, r).zero = u.zero /\ Given(u, i, r).hash = u.hash
         /\ Given(u, i, r).ctx[r].cuup = i
         /\ Given(u, i, r).ctx[r].drbs = u.ctx[r].drbs
         /\ Given(u, i, r).ctx[r].pdus = u.ctx[r].pdus
         /\ \A q \in UeRows \ {r} : Given(u, i, r).ctx[q] = u.ctx[q]
<1> DEFINE C == [UeRows -> CtxRecord]
           v == Named(u, i)
           c == [v.ctx EXCEPT ![r] = [@ EXCEPT !.cuup = i]]
<1>1. UesRecord =
        [ids : SUBSET UeIds, last_id : UeIds, zero_id : UeIds \union {NoKey},
         used : SUBSET UeRows, last_slot : UeRows, zero : UeIds \union {NoKey},
         hash : [UeIds -> UeRows \union {NoRow}], ctx : C]
  BY UesTypes
<1>2. /\ v \in UesRecord
      /\ v.ids = u.ids \union {i} /\ v.last_id = i
      /\ v.zero_id \in {u.zero_id, i} /\ v.used = u.used
      /\ v.last_slot = u.last_slot /\ v.zero = u.zero
      /\ v.hash = u.hash /\ v.ctx = u.ctx
  BY NamedFields
<1> DEFINE us == v.used \union {r}
<1>3. Given(u, i, r) = [v EXCEPT !.used = us, !.last_slot = r, !.ctx = c]
  BY DEF Given
<1> HIDE DEF v
<1>4. v.ctx \in [UeRows -> CtxRecord]
  BY <1>1, <1>2
<1>5. /\ c \in [UeRows -> CtxRecord]
      /\ c[r] = [v.ctx[r] EXCEPT !.cuup = i] /\ v.ctx[r] \in CtxRecord
      /\ \A q \in UeRows \ {r} : c[q] = v.ctx[q]
  <2>1. [v.ctx[r] EXCEPT !.cuup = i] \in CtxRecord
    BY <1>4 DEF CtxRecord
  <2> HIDE DEF CtxRecord
  <2>2. QED BY <1>4, <2>1
<1>6. c[r].cuup = i /\ c[r].drbs = v.ctx[r].drbs /\ c[r].pdus = v.ctx[r].pdus
  BY <1>5 DEF CtxRecord
<1> HIDE DEF c
<1>7. c \in C
  BY <1>5
<1>8. us \in SUBSET UeRows
  BY <1>1, <1>2
<1> HIDE DEF C, us
<1>9. /\ Given(u, i, r) \in UesRecord
      /\ Given(u, i, r).ids = v.ids /\ Given(u, i, r).last_id = v.last_id
      /\ Given(u, i, r).zero_id = v.zero_id
      /\ Given(u, i, r).used = us /\ Given(u, i, r).last_slot = r
      /\ Given(u, i, r).zero = v.zero /\ Given(u, i, r).hash = v.hash
      /\ Given(u, i, r).ctx = c
  <2>1. v \in UesRecord /\ c \in C /\ us \in SUBSET UeRows /\ r \in UeRows
    BY <1>2, <1>7, <1>8
  <2>2. Given(u, i, r) =
          [ids |-> v.ids, last_id |-> v.last_id, zero_id |-> v.zero_id, used |-> us,
           last_slot |-> r, zero |-> v.zero, hash |-> v.hash, ctx |-> c]
    BY <1>1, <1>3, <2>1
  <2>3. /\ v.ids \in SUBSET UeIds /\ v.last_id \in UeIds /\ v.zero_id \in UeIds \union {NoKey}
        /\ v.zero \in UeIds \union {NoKey} /\ v.hash \in [UeIds -> UeRows \union {NoRow}]
    BY <1>1, <2>1
  <2>4. Given(u, i, r) \in UesRecord
    BY <1>1, <2>1, <2>2, <2>3
  <2>5. QED BY <2>2, <2>4
<1>10. QED BY <1>2, <1>5, <1>6, <1>9 DEF us

LEMMA TriedFields ==
  ASSUME NEW u \in UesRecord, u.last_id + 1 \in UeIds
  PROVE  /\ Tried(u) \in UesRecord
         /\ Tried(u).ids = u.ids /\ Tried(u).last_id = u.last_id + 1
         /\ Tried(u).zero_id = u.zero_id /\ Tried(u).used = u.used
         /\ Tried(u).last_slot = u.last_slot /\ Tried(u).zero = u.zero
         /\ Tried(u).hash = u.hash /\ Tried(u).ctx = u.ctx
<1> DEFINE C == [UeRows -> CtxRecord]
<1>1. UesRecord =
        [ids : SUBSET UeIds, last_id : UeIds, zero_id : UeIds \union {NoKey},
         used : SUBSET UeRows, last_slot : UeRows, zero : UeIds \union {NoKey},
         hash : [UeIds -> UeRows \union {NoRow}], ctx : C]
  BY UesTypes
<1> HIDE DEF C
<1>2. QED BY <1>1 DEF Tried

LEMMA WithCtxFields ==
  ASSUME NEW u \in UesRecord, NEW r \in UeRows, NEW c \in CtxRecord
  PROVE  /\ WithCtx(u, r, c) \in UesRecord
         /\ WithCtx(u, r, c).ids = u.ids /\ WithCtx(u, r, c).last_id = u.last_id
         /\ WithCtx(u, r, c).zero_id = u.zero_id /\ WithCtx(u, r, c).used = u.used
         /\ WithCtx(u, r, c).last_slot = u.last_slot /\ WithCtx(u, r, c).zero = u.zero
         /\ WithCtx(u, r, c).hash = u.hash /\ WithCtx(u, r, c).ctx[r] = c
         /\ \A q \in UeRows \ {r} : WithCtx(u, r, c).ctx[q] = u.ctx[q]
<1> DEFINE C == [UeRows -> CtxRecord]
           d == [u.ctx EXCEPT ![r] = c]
<1>1. UesRecord =
        [ids : SUBSET UeIds, last_id : UeIds, zero_id : UeIds \union {NoKey},
         used : SUBSET UeRows, last_slot : UeRows, zero : UeIds \union {NoKey},
         hash : [UeIds -> UeRows \union {NoRow}], ctx : C]
  BY UesTypes
<1>2. u.ctx \in [UeRows -> CtxRecord]
  BY <1>1
<1>3. d \in C /\ d[r] = c /\ \A q \in UeRows \ {r} : d[q] = u.ctx[q]
  BY <1>2
<1>4. WithCtx(u, r, c) = [u EXCEPT !.ctx = d]
  BY DEF WithCtx
<1> HIDE DEF C, d
<1>5. QED BY <1>1, <1>3, <1>4

LEMMA UesFinite ==
  ASSUME NEW u, UesOK(u)
  PROVE  /\ IsFiniteSet(u.ids) /\ IsFiniteSet(u.used) /\ u.used \in SUBSET UeRows
         /\ Cardinality(u.ids) \in Nat /\ Cardinality(u.ids) <= MAX_UE_COUNT
         /\ u.used = UeRows <=> Cardinality(u.ids) = MAX_UE_COUNT
<1>1. u.used \in SUBSET UeRows /\ u.last_id \in Nat
  BY DEF UesOK, UesRecord, UeIds
<1>2. Cardinality(u.used) = Cardinality(u.ids) /\ u.ids \subseteq 1 .. u.last_id
  BY DEF UesOK, UesSound
<1>3. IsFiniteSet(UeRows) /\ Cardinality(UeRows) = MAX_UE_COUNT
  <2>1. 0 \in Int /\ MAX_UE_COUNT - 1 \in Int /\ ~(0 > MAX_UE_COUNT - 1)
        /\ MAX_UE_COUNT - 1 - 0 + 1 = MAX_UE_COUNT /\ UeRows = 0 .. MAX_UE_COUNT - 1
    BY RowsFacts
  <2>2. QED BY <2>1, FS_Interval
<1>4. IsFiniteSet(1 .. u.last_id)
  BY <1>1, FS_Interval
<1>5. IsFiniteSet(u.ids)
  BY <1>2, <1>4, FS_Subset
<1>6. /\ IsFiniteSet(u.used) /\ Cardinality(u.used) <= Cardinality(UeRows)
      /\ Cardinality(u.used) = Cardinality(UeRows) => u.used = UeRows
  BY <1>1, <1>3, FS_Subset
<1>7. Cardinality(u.ids) \in Nat
  BY <1>5, FS_CardinalityType
<1>8. QED BY <1>1, <1>2, <1>3, <1>5, <1>6, <1>7

LEMMA TriedOK ==
  ASSUME NEW u, UesOK(u), u.last_id < LastUeId
  PROVE  UesOK(Tried(u))
<1>1. u \in UesRecord /\ u.last_id \in Nat /\ LastUeId \in Nat
  BY SetupAssumption DEF UesOK, UesRecord, UeIds
<1>2. u.last_id + 1 \in UeIds
  BY <1>1 DEF UeIds
<1> DEFINE v == Tried(u)
<1>3. /\ v \in UesRecord
      /\ v.ids = u.ids /\ v.last_id = u.last_id + 1
      /\ v.zero_id = u.zero_id /\ v.used = u.used
      /\ v.last_slot = u.last_slot /\ v.zero = u.zero
      /\ v.hash = u.hash /\ v.ctx = u.ctx
  BY <1>1, <1>2, TriedFields
<1> HIDE DEF v
<1>4. UesSound(u)
  BY DEF UesOK
<1>5. 1 .. u.last_id \subseteq 1 .. v.last_id
  BY <1>1, <1>3
<1>6. UesSound(v)
  BY <1>3, <1>4, <1>5 DEF UesSound
<1>7. QED BY <1>3, <1>6 DEF UesOK, v

LEMMA GivenOK ==
  ASSUME NEW u, UesOK(u), u.last_id < LastUeId, NEW r \in UeRows \ u.used
  PROVE  UesOK(Given(u, u.last_id + 1, r))
<1> DEFINE i == u.last_id + 1
           v == Given(u, i, r)
<1>1. u \in UesRecord /\ u.last_id \in Nat /\ LastUeId \in Nat
  BY SetupAssumption DEF UesOK, UesRecord, UeIds
<1>2. i \in UeIds /\ i \notin 1 .. u.last_id /\ i \in 1 .. i /\ 1 .. u.last_id \subseteq 1 .. i
  BY <1>1 DEF UeIds
<1> HIDE DEF i
<1>3. /\ v \in UesRecord
      /\ v.ids = u.ids \union {i} /\ v.last_id = i
      /\ v.zero_id \in {u.zero_id, i}
      /\ v.used = u.used \union {r} /\ v.last_slot = r
      /\ v.zero = u.zero
      /\ \A q \in UeRows \ {r} : v.ctx[q] = u.ctx[q]
  BY <1>1, <1>2, GivenFields
<1> HIDE DEF v
<1>4. UesSound(u)
  BY DEF UesOK
<1>5. v.ids \subseteq 1 .. v.last_id /\ i \notin u.ids
  BY <1>2, <1>3, <1>4 DEF UesSound
<1>6. v.zero_id \in v.ids \union {NoKey} /\ v.zero \in v.ids \union {NoKey}
  BY <1>3, <1>4 DEF UesSound
<1>7. Cardinality(v.used) = Cardinality(v.ids)
  <2>1. IsFiniteSet(u.ids) /\ IsFiniteSet(u.used)
    BY UesFinite
  <2>2. Cardinality(u.used \union {r}) = Cardinality(u.used) + 1
    BY <2>1, FS_AddElement
  <2>3. Cardinality(u.ids \union {i}) = Cardinality(u.ids) + 1
    BY <1>5, <2>1, FS_AddElement
  <2>4. Cardinality(u.used) = Cardinality(u.ids)
    BY <1>4 DEF UesSound
  <2>5. QED BY <1>3, <2>2, <2>3, <2>4
<1>8. v.last_slot \in v.used \union {0}
  BY <1>3
<1>9. \A q \in UeRows \ v.used : v.ctx[q].drbs = <<>> /\ v.ctx[q].pdus = <<>>
  BY <1>3, <1>4 DEF UesSound
<1>10. UesSound(v)
  BY <1>5, <1>6, <1>7, <1>8, <1>9 DEF UesSound
<1>11. QED BY <1>3, <1>10 DEF UesOK, v, i

(* A context that is in use may be filled in.                              *)
LEMMA WithCtxOK ==
  ASSUME NEW u, UesOK(u), NEW r \in u.used, NEW c \in CtxRecord
  PROVE  UesOK(WithCtx(u, r, c))
<1> DEFINE v == WithCtx(u, r, c)
<1>1. u \in UesRecord /\ UesSound(u) /\ r \in UeRows
  BY DEF UesOK, UesRecord
<1>2. /\ v \in UesRecord
      /\ v.ids = u.ids /\ v.last_id = u.last_id
      /\ v.zero_id = u.zero_id /\ v.used = u.used
      /\ v.last_slot = u.last_slot /\ v.zero = u.zero
      /\ \A q \in UeRows \ {r} : v.ctx[q] = u.ctx[q]
  BY <1>1, WithCtxFields
<1> HIDE DEF v
<1>3. UesSound(v)
  BY <1>1, <1>2 DEF UesSound
<1>4. QED BY <1>2, <1>3 DEF UesOK, v

(* The next UE id is one past the last, and is had with a context for it   *)
(* unless as many are reserved as there may be.                            *)
LEMMA UeIdResult ==
  ASSUME NEW u, UesOK(u), u.last_id < LastUeId
  PROVE  LET i == ue_ctx_id_alloc(u)
             a == ue_ctx_add(i.ues, i.id)
         IN  \/ /\ Cardinality(u.ids) = MAX_UE_COUNT
                /\ i.id = NoRow /\ i.ues = Tried(u)
             \/ /\ i.id = u.last_id + 1 /\ i.id # NoRow
                /\ \E r \in UeRows \ u.used :
                     a = [ues |-> Given(u, u.last_id + 1, r), row |-> r]
<1> DEFINE i == u.last_id + 1
<1>1. u \in UesRecord /\ u.last_id \in Nat /\ LastUeId \in Nat /\ NoRow \notin Nat
  BY SetupAssumption DEF UesOK, UesRecord, UeIds
<1>2. UesSound(u)
  BY DEF UesOK
<1>3. i \in UeIds /\ i \notin 1 .. u.last_id /\ i # u.last_id /\ i \in Nat
  BY <1>1 DEF UeIds
<1>4. i \notin u.ids
  BY <1>2, <1>3 DEF UesSound
<1>5. NextUeId(u) = i
  BY <1>4 DEF NextUeId, Reserved
<1>6. ue_ctx_id_alloc(u) = Reserve(u, i)
  BY <1>5 DEF ue_ctx_id_alloc
<1>7. CASE Cardinality(u.ids) = MAX_UE_COUNT
  <2>1. Reserve(u, i) = [ues |-> Tried(u), id |-> NoRow]
    BY <1>4, <1>7 DEF Reserve, Tried
  <2>2. QED BY <1>6, <1>7, <2>1
<1>8. CASE Cardinality(u.ids) # MAX_UE_COUNT
  <2> HIDE DEF i
  <2>1. Reserve(u, i) = [ues |-> Named(u, i), id |-> i]
    BY <1>3, <1>4, <1>8 DEF Reserve, Named
  <2> DEFINE v == Named(u, i)
             r == NextSlot(MAX_UE_COUNT, u.last_slot, u.used)
  <2>2. v.zero = u.zero /\ v.last_slot = u.last_slot /\ v.used = u.used
    BY <1>1, <1>3, NamedFields
  <2>3. r \in UeRows \ u.used
    <3>1. u.used # 0 .. MAX_UE_COUNT - 1 /\ u.used \in SUBSET (0 .. MAX_UE_COUNT - 1)
      BY <1>8, UesFinite, RowsFacts
    <3>2. u.last_slot \in 0 .. MAX_UE_COUNT - 1 /\ u.last_slot \in u.used \union {0}
      BY <1>1, <1>2, RowsFacts DEF UesRecord, UesSound
    <3>3. MAX_UE_COUNT \in Nat \ {0} /\ UeRows = 0 .. MAX_UE_COUNT - 1
      BY RowsFacts
    <3>4. QED BY <3>1, <3>2, <3>3, NextSlotFound
  <2>4. v.zero # i
    <3>1. u.zero \in u.ids \union {NoKey} /\ i # NoKey
      BY <1>2, <1>3, RowsFacts DEF UesSound
    <3>2. QED BY <1>4, <2>2, <3>1
  <2>5. r # NoRow
    BY <2>3, RowsFacts
  <2> HIDE DEF v
  <2>6. NextSlot(MAX_UE_COUNT, v.last_slot, v.used) = r
    BY <2>2
  <2> HIDE DEF r
  <2>7. ue_ctx_add(v, i) = [ues |-> Given(u, i, r), row |-> r]
    <3>1. Given(u, i, r) =
            [v EXCEPT !.used = @ \union {r}, !.last_slot = r, !.ctx[r].cuup = i]
      BY DEF Given, v
    <3>2. ue_ctx_add(v, i) =
            [ues |-> [v EXCEPT !.used = @ \union {r}, !.last_slot = r, !.ctx[r].cuup = i],
             row |-> r]
      BY <2>4, <2>5, <2>6 DEF ue_ctx_add
    <3>3. QED BY <3>1, <3>2
  <2>8. i # NoRow
    BY <1>1, <1>3
  <2>9. ue_ctx_id_alloc(u).ues = v /\ ue_ctx_id_alloc(u).id = i
    BY <1>6, <2>1 DEF v
  <2>10. QED BY <2>3, <2>7, <2>8, <2>9 DEF i
<1>9. QED BY <1>7, <1>8

-----------------------------------------------------------------------------
(* Every tunnel of t that a key leads to stays where it is in u.           *)
Grown(t, u) ==
  /\ t.used \subseteq u.used /\ t.ids \subseteq u.ids
  /\ \A r \in t.used : u.key[r] = t.key[r]
  /\ \A k \in TunnelKey : t.hash[k] # NoRow => u.hash[k] = t.hash[k]

(* An answer stands as long as its UE id stays with its context.           *)
LEMMA StandsOn ==
  ASSUME NEW a \in AnswerRecord, AnswerStands(a), Grown(tunnels, tunnels'),
         ues.ids \subseteq ues'.ids, ues'.hash[a.ue] = ues.hash[a.ue]
  PROVE  AnswerStands(a)'
<1>1. a.ue \in ues'.ids /\ ues'.hash[a.ue] = a.ctx
  BY DEF AnswerStands
<1>2. ASSUME NEW t \in a.tunnels
      PROVE  /\ tunnels'.hash[t.key] = t.row /\ tunnels'.key[t.row] = t.key
             /\ t.row \in tunnels'.used
  <2>1. t.key \in TunnelKey /\ t.row \in Rows /\ t.row # NoRow
    BY RowsFacts DEF AnswerRecord
  <2>2. tunnels.hash[t.key] = t.row /\ tunnels.key[t.row] = t.key /\ t.row \in tunnels.used
    BY DEF AnswerStands
  <2>3. QED BY <2>1, <2>2 DEF Grown
<1>3. QED BY <1>1, <1>2 DEF AnswerStands

LEMMA AllStandOn ==
  ASSUME answers \in SUBSET AnswerRecord, AnswersStand,
         Grown(tunnels, tunnels'), ues.ids \subseteq ues'.ids, answers' = answers,
         ues'.hash = ues.hash
  PROVE  AnswersStand'
BY StandsOn DEF AnswersStand

LEMMA RunTypes ==
  NoRequest \in RunRecord /\ \A req \in Requests : req \in Seq(Nat)
BY SetupAssumption DEF NoRequest, RunRecord

(* What is left when a session is done with is the end of the request too. *)
LEMMA TailEnd ==
  ASSUME NEW todo \in Seq(Nat), NEW req \in Seq(Nat), todo # <<>>, EndOf(todo, req)
  PROVE  /\ Tail(todo) \in Seq(Nat) /\ EndOf(Tail(todo), req) /\ Head(todo) \in Nat
         /\ Len(req) - Len(todo) \in Nat
         /\ Len(req) - Len(Tail(todo)) = Len(req) - Len(todo) + 1
         /\ req[Len(req) - Len(todo) + 1] = Head(todo)
<1>1. /\ Len(todo) \in Nat \ {0} /\ Len(req) \in Nat /\ Tail(todo) \in Seq(Nat)
      /\ Len(Tail(todo)) = Len(todo) - 1 /\ Head(todo) = todo[1] /\ Head(todo) \in Nat
      /\ \A i \in 1 .. Len(todo) - 1 : Tail(todo)[i] = todo[i + 1]
  OBVIOUS
<1>2. Len(todo) <= Len(req) /\ \A i \in 1 .. Len(todo) : todo[i] = req[Len(req) - Len(todo) + i]
  BY DEF EndOf
<1>3. 1 \in 1 .. Len(todo)
  BY <1>1
<1>4. ASSUME NEW i \in 1 .. Len(todo) - 1
      PROVE  Tail(todo)[i] = req[Len(req) - (Len(todo) - 1) + i]
  <2>1. i + 1 \in 1 .. Len(todo)
    BY <1>1
  <2>2. Len(req) - Len(todo) + (i + 1) = Len(req) - (Len(todo) - 1) + i
    BY <1>1
  <2>3. QED BY <1>1, <1>2, <2>1, <2>2
<1>5. EndOf(Tail(todo), req)
  <2> DEFINE rest == Tail(todo)
  <2>1. Len(rest) = Len(todo) - 1
    BY <1>1
  <2>2. \A i \in 1 .. Len(todo) - 1 : rest[i] = req[Len(req) - (Len(todo) - 1) + i]
    BY <1>4
  <2> HIDE DEF rest
  <2>3. Len(rest) <= Len(req)
    BY <1>1, <1>2, <2>1
  <2>4. \A i \in 1 .. Len(rest) : rest[i] = req[Len(req) - Len(rest) + i]
    BY <2>1, <2>2
  <2>5. EndOf(rest, req)
    BY <2>3, <2>4 DEF EndOf
  <2>6. QED BY <2>5 DEF rest
<1>6. Len(req) - Len(todo) \in Nat
  BY <1>1, <1>2
<1>7. Len(req) - Len(Tail(todo)) = Len(req) - Len(todo) + 1
  BY <1>1
<1>8. QED BY <1>1, <1>2, <1>3, <1>5, <1>6, <1>7

(* A request begins: it is refused, or has a context with an empty list of *)
(* tunnels.                                                                *)
LEMMA ReceiveResult ==
  ASSUME UesOK(ues), NEW req \in Requests, Receive(req)
  PROVE  /\ ues.last_id < LastUeId /\ UNCHANGED <<tunnels, answers>>
         /\ \/ /\ Cardinality(ues.ids) = MAX_UE_COUNT /\ ues' = Tried(ues)
               /\ run' = [NoRequest EXCEPT !.pc = "refused", !.req = req]
            \/ \E r \in UeRows \ ues.used :
                 /\ ues' = Given(ues, ues.last_id + 1, r)
                 /\ run' = [NoRequest EXCEPT !.pc = "session", !.req = req, !.todo = req,
                                             !.ctx = r]
<1> DEFINE i == ue_ctx_id_alloc(ues)
           a == ue_ctx_add(i.ues, i.id)
<1>1. ues.last_id < LastUeId /\ UNCHANGED <<tunnels, answers>>
  BY DEF Receive
<1>2. IF i.id = NoRow
      THEN ues' = i.ues /\ run' = [NoRequest EXCEPT !.pc = "refused", !.req = req]
      ELSE IF a.row = NoRow
      THEN /\ ues' = ue_ctx_id_free(a.ues, i.id)
           /\ run' = [NoRequest EXCEPT !.pc = "refused", !.req = req]
      ELSE /\ ues' = a.ues
           /\ run' = [NoRequest EXCEPT !.pc = "session", !.req = req, !.todo = req,
                                       !.ctx = a.row]
  BY DEF Receive
<1>3. \/ /\ Cardinality(ues.ids) = MAX_UE_COUNT
         /\ i.id = NoRow /\ i.ues = Tried(ues)
      \/ /\ i.id = ues.last_id + 1 /\ i.id # NoRow
         /\ \E r \in UeRows \ ues.used :
              a = [ues |-> Given(ues, ues.last_id + 1, r), row |-> r]
  BY <1>1, UeIdResult
<1> HIDE DEF i, a
<1>4. CASE /\ Cardinality(ues.ids) = MAX_UE_COUNT
           /\ i.id = NoRow /\ i.ues = Tried(ues)
  BY <1>1, <1>2, <1>4
<1>5. CASE /\ i.id = ues.last_id + 1 /\ i.id # NoRow
           /\ \E r \in UeRows \ ues.used :
                a = [ues |-> Given(ues, ues.last_id + 1, r), row |-> r]
  <2>1. PICK r \in UeRows \ ues.used :
               a = [ues |-> Given(ues, ues.last_id + 1, r), row |-> r]
    BY <1>5
  <2>2. a.ues = Given(ues, ues.last_id + 1, r) /\ a.row = r /\ r # NoRow
    BY <2>1, RowsFacts
  <2>3. QED BY <1>1, <1>2, <1>5, <2>2
<1>6. QED BY <1>3, <1>4, <1>5

LEMMA SameTable ==
  ASSUME NEW t
  PROVE  Grown(t, t)
BY DEF Grown

LEMMA ReceiveStep ==
  ASSUME SetupInv, NEW req \in Requests, Receive(req)
  PROVE  SetupInv'
<1>1. /\ TableOK(tunnels) /\ UesOK(ues) /\ run \in RunRecord
      /\ answers \in SUBSET AnswerRecord /\ AnswersStand /\ AnswersApart
  BY DEF SetupInv
<1>2. /\ ues.last_id < LastUeId /\ tunnels' = tunnels /\ answers' = answers
      /\ \/ /\ Cardinality(ues.ids) = MAX_UE_COUNT /\ ues' = Tried(ues)
            /\ run' = [NoRequest EXCEPT !.pc = "refused", !.req = req]
         \/ \E r \in UeRows \ ues.used :
              /\ ues' = Given(ues, ues.last_id + 1, r)
              /\ run' = [NoRequest EXCEPT !.pc = "session", !.req = req, !.todo = req,
                                          !.ctx = r]
  BY <1>1, ReceiveResult
<1>3. ues \in UesRecord /\ ues.last_id + 1 \in UeIds
  <2>1. ues \in UesRecord /\ ues.last_id \in Nat /\ LastUeId \in Nat
    BY <1>1, SetupAssumption DEF UesOK, UesRecord, UeIds
  <2>2. ues.last_id < LastUeId
    BY <1>2
  <2>3. QED BY <2>1, <2>2 DEF UeIds
<1>4. Grown(tunnels, tunnels') /\ TableOK(tunnels)' /\ (answers \in SUBSET AnswerRecord)'
      /\ AnswersApart'
  <2>1. TableOK(tunnels')
    BY <1>1, <1>2
  <2>2. AnswersApart'
    BY <1>1, <1>2 DEF AnswersApart
  <2>3. QED BY <1>1, <1>2, <2>1, <2>2, SameTable
<1>5. req \in Seq(Nat) /\ NoRequest \in RunRecord
  BY RunTypes
<1>6. CASE /\ Cardinality(ues.ids) = MAX_UE_COUNT /\ ues' = Tried(ues)
           /\ run' = [NoRequest EXCEPT !.pc = "refused", !.req = req]
  <2>1. ues'.ids = ues.ids /\ ues'.hash = ues.hash
    BY <1>3, <1>6, TriedFields
  <2>2. UesOK(ues')
    BY <1>1, <1>2, <1>6, TriedOK
  <2>3. run' \in RunRecord /\ run'.pc = "refused"
    BY <1>5, <1>6 DEF RunRecord
  <2>4. RunSound' /\ AnswersDone'
    BY <2>3 DEF RunSound, AnswersDone, Busy
  <2>5. AnswersStand'
    BY <1>1, <1>2, <1>4, <2>1, AllStandOn
  <2>6. RefusedOnlyWhenFull'
    BY <1>6, <2>1 DEF RefusedOnlyWhenFull
  <2>7. QED BY <1>4, <2>2, <2>3, <2>4, <2>5, <2>6 DEF SetupInv
<1>7. ASSUME NEW r \in UeRows \ ues.used, ues' = Given(ues, ues.last_id + 1, r),
             run' = [NoRequest EXCEPT !.pc = "session", !.req = req, !.todo = req, !.ctx = r]
      PROVE  SetupInv'
  <2>1. /\ ues'.ids = ues.ids \union {ues.last_id + 1} /\ ues'.hash = ues.hash
        /\ ues'.used = ues.used \union {r} /\ ues'.ctx[r].cuup = ues.last_id + 1
        /\ ues'.ctx[r].drbs = ues.ctx[r].drbs /\ ues'.ctx[r].pdus = ues.ctx[r].pdus
    BY <1>3, <1>7, GivenFields
  <2>2. ues.ctx[r].drbs = <<>> /\ ues.ctx[r].pdus = <<>>
    BY <1>1 DEF UesOK, UesSound
  <2>3. UesOK(ues')
    BY <1>1, <1>2, <1>7, GivenOK
  <2>4. /\ run' \in RunRecord /\ run'.pc = "session" /\ run'.req = req /\ run'.todo = req
        /\ run'.ctx = r /\ run'.sessions = 0
    BY <1>5, <1>7 DEF RunRecord, NoRequest
  <2>5. EndOf(req, req) /\ 1 .. Len(req) - Len(req) = {}
    BY <1>5 DEF EndOf
  <2>6. RunSound'
    <3>1. <<>> \in Seq(tunnels'.used)
      OBVIOUS
    <3>2. NothingAsked'
      BY <2>4, <2>5 DEF NothingAsked
    <3>3. QED BY <2>1, <2>2, <2>4, <2>5, <3>1, <3>2 DEF RunSound, Busy
  <2>7. AnswersStand'
    BY <1>1, <1>2, <1>4, <2>1, AllStandOn
  <2>8. AnswersDone'
    <3>1. \A a \in answers : a.ue \in ues.ids
      BY <1>1 DEF AnswersStand, AnswerStands
    <3>2. ues.last_id + 1 \notin ues.ids
      <4>1. ues.last_id \in Nat /\ ues.ids \subseteq 1 .. ues.last_id
        BY <1>1 DEF UesOK, UesSound, UesRecord, UeIds
      <4>2. QED BY <4>1
    <3>3. \A q : ~InHand(q)'
      BY <2>1, <2>2, <2>4 DEF InHand
    <3>4. run'.ctx = r /\ ues'.ctx[r].cuup = ues.last_id + 1 /\ answers' = answers
      BY <1>2, <2>1, <2>4
    <3>5. \A e \in answers' : e.ue # (ues.ctx[run.ctx].cuup)'
      BY <3>1, <3>2, <3>4
    <3>6. QED BY <3>3, <3>5, Zenon DEF AnswersDone
  <2>9. RefusedOnlyWhenFull'
    BY <2>4 DEF RefusedOnlyWhenFull
  <2>10. QED BY <1>4, <2>3, <2>4, <2>6, <2>7, <2>8, <2>9 DEF SetupInv
<1>8. QED BY <1>2, <1>6, <1>7

LEMMA TakenGrows ==
  ASSUME NEW t, TableOK(t), NEW r \in Rows \ t.used, NEW k \in TunnelKey, k.te_id = r
  PROVE  Grown(t, Taken(t, r, k))
BY TakenOK DEF Grown

LEMMA KeptGrows ==
  ASSUME NEW t, NEW u, Kept(t, u)
  PROVE  Grown(t, u)
BY DEF Kept, Grown

(* No answer has a row that is not in use.                                 *)
LEMMA AnsweredInUse ==
  ASSUME AnswersStand, NEW a \in answers, NEW t \in a.tunnels
  PROVE  t.row \in tunnels.used
BY DEF AnswersStand, AnswerStands

LEMMA IdsOnlyGrow ==
  ASSUME TableOK(tunnels), TableOK(tunnels'), Grown(tunnels, tunnels')
  PROVE  /\ tunnels'.ids # Rows => tunnels.ids # Rows
         /\ \A list \in Seq(tunnels.used) : list \in Seq(tunnels'.used)
<1>1. tunnels.ids \subseteq tunnels'.ids /\ tunnels'.ids \subseteq Rows
  BY DEF Grown, TableOK, TableRecord
<1>2. tunnels.used \subseteq tunnels'.used
  BY DEF Grown
<1>3. \A list \in Seq(tunnels.used) : list \in Seq(tunnels'.used)
  <2> DEFINE A == tunnels.used
             B == tunnels'.used
  <2>1. A \subseteq B
    BY <1>2
  <2> HIDE DEF A, B
  <2>2. \A list \in Seq(A) : list \in Seq(B)
    BY <2>1
  <2>3. QED BY <2>2 DEF A, B
<1>4. QED BY <1>1, <1>3

LEMMA SessionSetUpStep ==
  ASSUME SetupInv, SessionSetUp
  PROVE  SetupInv'
<1> DEFINE a == TunnelSetUp(tunnels, "pdus")
<1>1. /\ TableOK(tunnels) /\ UesOK(ues) /\ run \in RunRecord
      /\ answers \in SUBSET AnswerRecord /\ RunSound /\ AnswersStand /\ AnswersApart
      /\ AnswersDone
  BY DEF SetupInv
<1>2. /\ run.pc = "session" /\ run.todo # <<>> /\ ues' = ues /\ answers' = answers
      /\ tunnels' = a.tunnels
      /\ run' = IF a.row = NoRow THEN [run EXCEPT !.todo = Tail(@)]
                ELSE [run EXCEPT !.pc = "drb", !.session = a.row, !.left = Head(run.todo),
                                 !.drbs = 0]
  BY DEF SessionSetUp
<1>3. /\ run.ctx \in ues.used /\ ues.ctx[run.ctx].cuup \in ues.ids
      /\ ues.ctx[run.ctx].drbs \in Seq(tunnels.used)
      /\ ues.ctx[run.ctx].pdus \in Seq(tunnels.used)
      /\ EndOf(run.todo, run.req) /\ NothingAsked
  BY <1>1, <1>2 DEF RunSound, Busy
<1>4. UesOK(ues') /\ (answers \in SUBSET AnswerRecord)' /\ AnswersApart'
  <2>1. AnswersApart'
    BY <1>1, <1>2 DEF AnswersApart
  <2>2. QED BY <1>1, <1>2, <2>1
<1>5. run.todo \in Seq(Nat) /\ run.req \in Seq(Nat)
  BY <1>1 DEF RunRecord
<1>6. /\ Tail(run.todo) \in Seq(Nat) /\ EndOf(Tail(run.todo), run.req)
      /\ Head(run.todo) \in Nat
  BY <1>2, <1>3, <1>5, TailEnd
<1>7. \/ FreeIds(tunnels) = {} /\ a = [tunnels |-> tunnels, row |-> NoRow]
      \/ \E r \in Rows \ tunnels.used : \E k \in TunnelKey :
           k.te_id = r /\ a = [tunnels |-> Taken(tunnels, r, k), row |-> r]
  BY <1>1, SetUpResult DEF Types
<1> HIDE DEF a
<1>8. CASE FreeIds(tunnels) = {} /\ a = [tunnels |-> tunnels, row |-> NoRow]
  <2>1. tunnels' = tunnels /\ run' = [run EXCEPT !.todo = Tail(@)]
    BY <1>2, <1>8
  <2>2. /\ run' \in RunRecord /\ run'.pc = "session" /\ run'.ctx = run.ctx
        /\ run'.req = run.req /\ run'.todo = Tail(run.todo)
    BY <1>1, <1>2, <1>6, <2>1 DEF RunRecord
  <2>3. tunnels.ids = Rows
    BY <1>1, <1>8, NoIdLeft
  <2>4. RunSound'
    <3>1. NothingAsked'
      BY <2>1, <2>3 DEF NothingAsked
    <3>2. QED BY <1>2, <1>3, <1>6, <2>1, <2>2, <3>1 DEF RunSound, Busy
  <2>5. Grown(tunnels, tunnels') /\ TableOK(tunnels')
    BY <1>1, <2>1, SameTable
  <2>6. AnswersStand'
    BY <1>1, <1>2, <2>5, AllStandOn
  <2>7. AnswersDone'
    <3>1. \A q : InHand(q)' => InHand(q)
      BY <1>2, <2>2 DEF InHand
    <3>2. QED BY <1>1, <1>2, <2>2, <3>1 DEF AnswersDone, Busy
  <2>8. RefusedOnlyWhenFull'
    BY <2>2 DEF RefusedOnlyWhenFull
  <2>9. QED BY <1>4, <2>2, <2>4, <2>5, <2>6, <2>7, <2>8 DEF SetupInv
<1>9. ASSUME NEW r \in Rows \ tunnels.used, NEW k \in TunnelKey, k.te_id = r,
             a = [tunnels |-> Taken(tunnels, r, k), row |-> r]
      PROVE  SetupInv'
  <2>1. /\ tunnels' = Taken(tunnels, r, k)
        /\ run' = [run EXCEPT !.pc = "drb", !.session = r, !.left = Head(run.todo),
                              !.drbs = 0]
    <3>1. a.tunnels = Taken(tunnels, r, k) /\ a.row = r /\ r # NoRow
      BY <1>9, RowsFacts
    <3>2. QED BY <1>2, <3>1
  <2>2. /\ run' \in RunRecord /\ run'.pc = "drb" /\ run'.ctx = run.ctx
        /\ run'.req = run.req /\ run'.todo = run.todo /\ run'.session = r
        /\ run'.left = Head(run.todo) /\ run'.sessions = run.sessions
    <3> DEFINE h == Head(run.todo)
    <3>1. h \in Nat /\ run \in RunRecord /\ r \in Rows
      BY <1>1, <1>6
    <3>2. run' = [run EXCEPT !.pc = "drb", !.session = r, !.left = h, !.drbs = 0]
      BY <2>1
    <3> HIDE DEF h
    <3>3. /\ run' \in RunRecord /\ run'.pc = "drb" /\ run'.ctx = run.ctx
          /\ run'.req = run.req /\ run'.todo = run.todo /\ run'.session = r
          /\ run'.left = h /\ run'.sessions = run.sessions
      BY <3>1, <3>2 DEF RunRecord
    <3>4. QED BY <3>3 DEF h
  <2>3. /\ TableOK(tunnels') /\ tunnels.hash[k] = NoRow
        /\ tunnels'.used = tunnels.used \union {r}
        /\ tunnels'.hash = tunnels.hash /\ tunnels'.key[r] = k
    BY <1>1, <1>9, <2>1, TakenOK
  <2>4. Grown(tunnels, tunnels')
    BY <1>1, <1>9, <2>1, TakenGrows
  <2>5. RunSound'
    <3>1. /\ tunnels'.ids # Rows => tunnels.ids # Rows
          /\ ues'.ctx[run'.ctx].drbs \in Seq(tunnels'.used)
          /\ ues'.ctx[run'.ctx].pdus \in Seq(tunnels'.used)
      BY <1>1, <1>2, <1>3, <2>2, <2>3, <2>4, IdsOnlyGrow
    <3>2. NothingAsked'
      BY <1>3, <2>2, <3>1 DEF NothingAsked
    <3>3. QED BY <1>2, <1>3, <2>2, <2>3, <3>1, <3>2 DEF RunSound, Busy
  <2>6. AnswersStand'
    BY <1>1, <1>2, <2>4, AllStandOn
  <2>7. AnswersDone'
    <3>1. \A q : InHand(q)' => InHand(q) \/ q = r
      BY <1>2, <2>2 DEF InHand
    <3>2. \A b \in answers : \A t \in b.tunnels : t.row # r
      BY <1>1, AnsweredInUse
    <3>3. QED BY <1>1, <1>2, <2>2, <3>1, <3>2 DEF AnswersDone, Busy
  <2>8. RefusedOnlyWhenFull'
    BY <2>2 DEF RefusedOnlyWhenFull
  <2>9. QED BY <1>4, <2>2, <2>3, <2>5, <2>6, <2>7, <2>8 DEF SetupInv
<1>10. QED BY <1>7, <1>8, <1>9

(* The lists of a context that is in use.                                  *)
LEMMA CtxFacts ==
  ASSUME NEW u, UesOK(u), NEW r \in u.used
  PROVE  /\ r \in UeRows /\ u.ctx[r] \in CtxRecord
         /\ u.ctx[r].cuup \in UeIds
         /\ u.ctx[r].drbs \in Seq(Rows) /\ u.ctx[r].pdus \in Seq(Rows)
<1>1. u.ctx \in [UeRows -> CtxRecord] /\ r \in UeRows
  BY UesTypes DEF UesOK, UesRecord, CtxRecord
<1>2. u.ctx[r] \in CtxRecord
  BY <1>1
<1>3. QED BY <1>1, <1>2 DEF CtxRecord

LEMMA Appended ==
  ASSUME NEW S, NEW list \in Seq(S), NEW r \in S
  PROVE  /\ Append(list, r) \in Seq(S)
         /\ \A q : (\E i \in DOMAIN Append(list, r) : Append(list, r)[i] = q)
                   => q = r \/ \E i \in DOMAIN list : list[i] = q
<1>1. /\ Append(list, r) \in Seq(S) /\ Len(list) \in Nat
      /\ DOMAIN list = 1 .. Len(list) /\ DOMAIN Append(list, r) = 1 .. Len(list) + 1
      /\ \A i \in 1 .. Len(list) : Append(list, r)[i] = list[i]
      /\ Append(list, r)[Len(list) + 1] = r
  OBVIOUS
<1>2. \A i \in 1 .. Len(list) + 1 : i = Len(list) + 1 \/ i \in 1 .. Len(list)
  BY <1>1
<1>3. QED BY <1>1, <1>2

LEMMA DrbStep ==
  ASSUME SetupInv, drb_setup
  PROVE  SetupInv'
<1> DEFINE a == TunnelSetUp(tunnels, "drb")
           c == ues.ctx[run.ctx]
<1>1. /\ TableOK(tunnels) /\ UesOK(ues) /\ run \in RunRecord
      /\ answers \in SUBSET AnswerRecord /\ RunSound /\ AnswersStand /\ AnswersApart
      /\ AnswersDone
  BY DEF SetupInv
<1>2. /\ run.pc = "drb" /\ run.left > 0 /\ answers' = answers
      /\ tunnels' = a.tunnels
      /\ IF a.row = NoRow
         THEN run' = [run EXCEPT !.left = @ - 1] /\ ues' = ues
         ELSE /\ run' = [run EXCEPT !.left = @ - 1, !.drbs = @ + 1]
              /\ ues' = [ues EXCEPT !.ctx[run.ctx].drbs = Append(@, a.row)]
  BY DEF drb_setup
<1>3. /\ run.ctx \in ues.used /\ ues.ctx[run.ctx].cuup \in ues.ids
      /\ ues.ctx[run.ctx].drbs \in Seq(tunnels.used)
      /\ ues.ctx[run.ctx].pdus \in Seq(tunnels.used)
      /\ EndOf(run.todo, run.req) /\ NothingAsked
      /\ run.session \in tunnels.used /\ run.todo # <<>>
      /\ tunnels.hash[tunnels.key[run.session]] = NoRow
  BY <1>1, <1>2 DEF RunSound, Busy
<1>4. (answers \in SUBSET AnswerRecord)' /\ AnswersApart'
  <2>1. AnswersApart'
    BY <1>1, <1>2 DEF AnswersApart
  <2>2. QED BY <1>1, <1>2, <2>1
<1>5. run.left \in Nat /\ run.drbs \in Nat /\ run.left - 1 \in Nat /\ run.drbs + 1 \in Nat \ {0}
  <2>1. run.left \in Nat /\ run.drbs \in Nat
    BY <1>1 DEF RunRecord
  <2>2. run.left > 0
    BY <1>2
  <2>3. QED BY <2>1, <2>2
<1>6. \/ FreeIds(tunnels) = {} /\ a = [tunnels |-> tunnels, row |-> NoRow]
      \/ \E r \in Rows \ tunnels.used : \E k \in TunnelKey :
           k.te_id = r /\ a = [tunnels |-> Taken(tunnels, r, k), row |-> r]
  BY <1>1, SetUpResult DEF Types
<1> HIDE DEF a
<1>7. CASE FreeIds(tunnels) = {} /\ a = [tunnels |-> tunnels, row |-> NoRow]
  <2>1. tunnels' = tunnels /\ run' = [run EXCEPT !.left = @ - 1] /\ ues' = ues
    BY <1>2, <1>7
  <2>2. /\ run' \in RunRecord /\ run'.pc = "drb" /\ run'.ctx = run.ctx
        /\ run'.req = run.req /\ run'.todo = run.todo /\ run'.session = run.session
        /\ run'.sessions = run.sessions
    BY <1>1, <1>2, <1>5, <2>1 DEF RunRecord
  <2>3. tunnels.ids = Rows
    BY <1>1, <1>7, NoIdLeft
  <2>4. RunSound'
    <3>1. NothingAsked'
      BY <2>1, <2>3 DEF NothingAsked
    <3>2. QED BY <1>3, <2>1, <2>2, <2>3, <3>1 DEF RunSound, Busy
  <2>5. Grown(tunnels, tunnels') /\ TableOK(tunnels')
    BY <1>1, <2>1, SameTable
  <2>6. AnswersStand'
    BY <1>1, <1>2, <2>1, <2>5, AllStandOn
  <2>7. AnswersDone'
    <3>1. \A q : InHand(q)' => InHand(q)
      <4>1. ues' = ues /\ run'.ctx = run.ctx /\ run'.session = run.session /\ run'.pc = run.pc
        BY <1>2, <2>1, <2>2
      <4>2. QED BY <4>1 DEF InHand
    <3>2. QED BY <1>1, <1>2, <2>1, <2>2, <3>1 DEF AnswersDone, Busy
  <2>8. RefusedOnlyWhenFull'
    BY <2>2 DEF RefusedOnlyWhenFull
  <2>9. QED BY <1>1, <1>4, <2>1, <2>2, <2>4, <2>5, <2>6, <2>7, <2>8 DEF SetupInv
<1>8. ASSUME NEW r \in Rows \ tunnels.used, NEW k \in TunnelKey, k.te_id = r,
             a = [tunnels |-> Taken(tunnels, r, k), row |-> r]
      PROVE  SetupInv'
  <2> DEFINE d == [c EXCEPT !.drbs = Append(@, r)]
  <2>1. /\ tunnels' = Taken(tunnels, r, k)
        /\ run' = [run EXCEPT !.left = @ - 1, !.drbs = @ + 1]
        /\ ues' = WithCtx(ues, run.ctx, d)
    <3>1. a.tunnels = Taken(tunnels, r, k) /\ a.row = r /\ r # NoRow
      BY <1>8, RowsFacts
    <3>2. QED BY <1>2, <3>1 DEF WithCtx
  <2>2. /\ run' \in RunRecord /\ run'.pc = "drb" /\ run'.ctx = run.ctx
        /\ run'.req = run.req /\ run'.todo = run.todo /\ run'.session = run.session
        /\ run'.sessions = run.sessions /\ run'.drbs = run.drbs + 1
    BY <1>1, <1>2, <1>5, <2>1 DEF RunRecord
  <2>3. /\ TableOK(tunnels') /\ tunnels'.used = tunnels.used \union {r}
        /\ tunnels'.hash = tunnels.hash
        /\ \A q \in tunnels.used : tunnels'.key[q] = tunnels.key[q]
    BY <1>1, <1>8, <2>1, TakenOK
  <2>4. Grown(tunnels, tunnels')
    BY <1>1, <1>8, <2>1, TakenGrows
  <2>5. c \in CtxRecord /\ run.ctx \in UeRows
    BY <1>1, <1>3, CtxFacts
  <2>6. /\ d \in CtxRecord /\ d.cuup = c.cuup /\ d.pdus = c.pdus
        /\ d.drbs = Append(c.drbs, r)
    <3>1. Append(c.drbs, r) \in Seq(Rows)
      BY <2>5, Appended DEF CtxRecord
    <3>2. QED BY <2>5, <3>1 DEF CtxRecord
  <2> HIDE DEF d, c
  <2>7. UesOK(ues')
    BY <1>1, <1>3, <2>1, <2>6, WithCtxOK
  <2>8. /\ ues'.ids = ues.ids /\ ues'.used = ues.used /\ ues'.hash = ues.hash
        /\ ues'.ctx[run.ctx] = d
    <3>1. ues \in UesRecord
      BY <1>1 DEF UesOK
    <3>2. QED BY <2>1, <2>5, <2>6, <3>1, WithCtxFields
  <2>9. RunSound'
    <3>1. /\ tunnels'.ids # Rows => tunnels.ids # Rows
          /\ c.drbs \in Seq(tunnels'.used) /\ c.pdus \in Seq(tunnels'.used)
      BY <1>1, <1>3, <2>3, <2>4, IdsOnlyGrow DEF c
    <3>2. d.drbs \in Seq(tunnels'.used) /\ d.pdus \in Seq(tunnels'.used)
      BY <2>3, <2>6, <3>1, Appended
    <3>3. NothingAsked'
      BY <1>3, <2>2, <3>1 DEF NothingAsked
    <3>4. d.cuup \in ues'.ids
      BY <1>3, <2>6, <2>8 DEF c
    <3>5. tunnels'.key[run.session] = tunnels.key[run.session] /\ run.session \in tunnels'.used
      BY <1>3, <2>3
    <3>6. run'.drbs # 0
      BY <1>5, <2>2
    <3>7. QED BY <1>3, <2>2, <2>3, <2>8, <3>2, <3>3, <3>4, <3>5, <3>6 DEF RunSound, Busy
  <2>10. AnswersStand'
    BY <1>1, <1>2, <2>4, <2>8, AllStandOn
  <2>11. AnswersDone'
    <3>1. \A q : InHand(q)' => InHand(q) \/ q = r
      <4>1. \A q : (\E i \in DOMAIN d.drbs : d.drbs[i] = q)
                   => q = r \/ \E i \in DOMAIN c.drbs : c.drbs[i] = q
        BY <1>3, <2>5, <2>6, Appended DEF CtxRecord
      <4>2. SUFFICES ASSUME NEW q, InHand(q)' PROVE InHand(q) \/ q = r
        OBVIOUS
      <4>3. \/ \E i \in DOMAIN d.drbs : d.drbs[i] = q
            \/ \E i \in DOMAIN d.pdus : d.pdus[i] = q
            \/ run.session = q
        BY <2>2, <2>8, <4>2 DEF InHand
      <4>4. \/ \E i \in DOMAIN c.drbs : c.drbs[i] = q
            \/ \E i \in DOMAIN c.pdus : c.pdus[i] = q
            \/ run.session = q \/ q = r
        BY <2>6, <4>1, <4>3
      <4>5. QED BY <1>2, <4>4 DEF InHand, c
    <3>2. \A b \in answers : \A t \in b.tunnels : t.row # r
      BY <1>1, AnsweredInUse
    <3>3. ues'.ctx[run'.ctx].cuup = ues.ctx[run.ctx].cuup
      BY <2>2, <2>6, <2>8 DEF c
    <3>4. QED BY <1>1, <1>2, <2>2, <3>1, <3>2, <3>3 DEF AnswersDone, Busy
  <2>12. RefusedOnlyWhenFull'
    BY <2>2 DEF RefusedOnlyWhenFull
  <2>13. QED BY <1>4, <2>2, <2>3, <2>7, <2>9, <2>10, <2>11, <2>12 DEF SetupInv
<1>9. QED BY <1>6, <1>7, <1>8

(* A session given up is stored for good, though nothing announces it.     *)
LEMMA GivenUp ==
  ASSUME NEW t, TableOK(t), NEW r \in t.used, t.hash[t.key[r]] = NoRow
  PROVE  TableOK(GiveUp(t, r)) /\ Kept(t, GiveUp(t, r))
<1>1. tunnel_remove(t, t.key[r]) = t
  BY DEF tunnel_remove
<1>2. GiveUp(t, r) = tunnel_commit(t, r)
  BY <1>1 DEF GiveUp
<1>3. QED BY <1>2, CommitOK

LEMMA SessionDoneStep ==
  ASSUME SetupInv, SessionDone
  PROVE  SetupInv'
<1> DEFINE c == ues.ctx[run.ctx]
           done == IF run.drbs = 0 THEN 0 ELSE 1
<1>1. /\ TableOK(tunnels) /\ UesOK(ues) /\ run \in RunRecord
      /\ answers \in SUBSET AnswerRecord /\ RunSound /\ AnswersStand /\ AnswersApart
      /\ AnswersDone
  BY DEF SetupInv
<1>2. /\ run.pc = "drb" /\ run.left = 0 /\ answers' = answers
      /\ IF run.drbs = 0
         THEN tunnels' = GiveUp(tunnels, run.session) /\ ues' = ues
         ELSE /\ ues' = [ues EXCEPT !.ctx[run.ctx].pdus = Append(@, run.session)]
              /\ tunnels' = tunnels
      /\ run' = [run EXCEPT !.pc = "session", !.todo = Tail(@), !.session = NoRow,
                            !.sessions = @ + done]
  BY DEF SessionDone
<1>3. /\ run.ctx \in ues.used /\ c.cuup \in ues.ids
      /\ c.drbs \in Seq(tunnels.used) /\ c.pdus \in Seq(tunnels.used)
      /\ EndOf(run.todo, run.req) /\ NothingAsked
      /\ run.session \in tunnels.used /\ run.todo # <<>>
      /\ tunnels.hash[tunnels.key[run.session]] = NoRow
      /\ run.drbs = 0 /\ tunnels.ids # Rows => run.left = Head(run.todo)
  BY <1>1, <1>2 DEF RunSound, Busy
<1>4. (answers \in SUBSET AnswerRecord)' /\ AnswersApart'
  <2>1. AnswersApart'
    BY <1>1, <1>2 DEF AnswersApart
  <2>2. QED BY <1>1, <1>2, <2>1
<1>5. run.todo \in Seq(Nat) /\ run.req \in Seq(Nat) /\ run.sessions \in Nat
  BY <1>1 DEF RunRecord
<1>6. /\ Tail(run.todo) \in Seq(Nat) /\ EndOf(Tail(run.todo), run.req)
      /\ Len(run.req) - Len(run.todo) \in Nat
      /\ Len(run.req) - Len(Tail(run.todo)) = Len(run.req) - Len(run.todo) + 1
      /\ run.req[Len(run.req) - Len(run.todo) + 1] = Head(run.todo)
  BY <1>3, <1>5, TailEnd
<1>7. /\ run' \in RunRecord /\ run'.pc = "session" /\ run'.ctx = run.ctx
      /\ run'.req = run.req /\ run'.todo = Tail(run.todo)
      /\ run'.sessions = run.sessions + done
  <2>1. done \in Nat /\ run.sessions + done \in Nat
    BY <1>5
  <2> HIDE DEF done
  <2>2. QED BY <1>1, <1>2, <1>6, <2>1 DEF RunRecord
<1>8. RefusedOnlyWhenFull'
  BY <1>7 DEF RefusedOnlyWhenFull
<1>9. CASE run.drbs = 0
  <2>1. tunnels' = GiveUp(tunnels, run.session) /\ ues' = ues /\ run'.sessions = run.sessions
    BY <1>2, <1>5, <1>7, <1>9
  <2>2. TableOK(tunnels') /\ Kept(tunnels, tunnels')
    BY <1>1, <1>3, <2>1, GivenUp
  <2>3. /\ Grown(tunnels, tunnels') /\ tunnels'.ids = tunnels.ids
        /\ tunnels'.used = tunnels.used
    BY <2>2, KeptGrows DEF Kept
  <2>4. RunSound'
    <3>1. NothingAsked'
      <4>1. SUFFICES ASSUME run'.sessions = 0, tunnels'.ids # Rows,
                            NEW i \in 1 .. Len(run.req) - Len(run.todo) + 1
                     PROVE  run.req[i] = 0
        BY <1>6, <1>7 DEF NothingAsked
      <4>2. CASE i = Len(run.req) - Len(run.todo) + 1
        BY <1>2, <1>3, <1>6, <1>9, <2>3, <4>1, <4>2
      <4>3. CASE i # Len(run.req) - Len(run.todo) + 1
        <5>1. i \in 1 .. Len(run.req) - Len(run.todo)
          <6> DEFINE n == Len(run.req) - Len(run.todo)
          <6>1. n \in Nat /\ i \in 1 .. n + 1 /\ i # n + 1
            BY <1>6, <4>3
          <6> HIDE DEF n
          <6>2. i \in 1 .. n
            BY <6>1
          <6>3. QED BY <6>2 DEF n
        <5>2. QED BY <1>3, <2>1, <2>3, <4>1, <5>1 DEF NothingAsked
      <4>4. QED BY <4>2, <4>3
    <3>2. QED BY <1>3, <1>6, <1>7, <2>1, <2>3, <3>1 DEF RunSound, Busy
  <2>5. AnswersStand'
    BY <1>1, <1>2, <2>1, <2>3, AllStandOn
  <2>6. AnswersDone'
    <3>1. \A q : InHand(q)' => InHand(q)
      BY <1>2, <1>7, <2>1 DEF InHand
    <3>2. QED BY <1>1, <1>2, <1>7, <2>1, <3>1 DEF AnswersDone, Busy
  <2>7. QED BY <1>1, <1>4, <1>7, <1>8, <2>1, <2>2, <2>4, <2>5, <2>6 DEF SetupInv
<1>10. CASE run.drbs # 0
  <2> DEFINE d == [c EXCEPT !.pdus = Append(@, run.session)]
  <2>1. ues' = WithCtx(ues, run.ctx, d) /\ tunnels' = tunnels
    BY <1>2, <1>10 DEF WithCtx
  <2>2. run'.sessions # 0
    <3>1. done = 1
      BY <1>10
    <3>2. QED BY <1>5, <1>7, <3>1
  <2>3. c \in CtxRecord /\ run.ctx \in UeRows
    BY <1>1, <1>3, CtxFacts
  <2>4. /\ d \in CtxRecord /\ d.cuup = c.cuup /\ d.drbs = c.drbs
        /\ d.pdus = Append(c.pdus, run.session)
    <3>1. run.session \in Rows
      BY <1>1, <1>3 DEF TableOK, TableRecord
    <3>2. Append(c.pdus, run.session) \in Seq(Rows)
      BY <2>3, <3>1, Appended DEF CtxRecord
    <3>3. QED BY <2>3, <3>2 DEF CtxRecord
  <2> HIDE DEF d, c
  <2>5. UesOK(ues')
    BY <1>1, <1>3, <2>1, <2>4, WithCtxOK
  <2>6. /\ ues'.ids = ues.ids /\ ues'.used = ues.used /\ ues'.hash = ues.hash
        /\ ues'.ctx[run.ctx] = d
    <3>1. ues \in UesRecord
      BY <1>1 DEF UesOK
    <3>2. QED BY <2>1, <2>3, <2>4, <3>1, WithCtxFields
  <2>7. Grown(tunnels, tunnels') /\ TableOK(tunnels')
    BY <1>1, <2>1, SameTable
  <2>8. RunSound'
    <3>1. d.drbs \in Seq(tunnels'.used) /\ d.pdus \in Seq(tunnels'.used)
      <4> DEFINE S == tunnels.used
      <4>1. c.drbs \in Seq(S) /\ c.pdus \in Seq(S) /\ run.session \in S
        BY <1>3
      <4>2. tunnels'.used = S
        BY <2>1
      <4> HIDE DEF S
      <4>3. Append(c.pdus, run.session) \in Seq(S)
        BY <4>1
      <4>4. QED BY <2>4, <4>1, <4>2, <4>3
    <3>2. NothingAsked'
      BY <2>2 DEF NothingAsked
    <3>3. d.cuup \in ues'.ids
      BY <1>3, <2>4, <2>6
    <3>4. QED BY <1>3, <1>6, <1>7, <2>6, <3>1, <3>2, <3>3 DEF RunSound, Busy
  <2>9. AnswersStand'
    BY <1>1, <1>2, <2>6, <2>7, AllStandOn
  <2>10. AnswersDone'
    <3>1. \A q : InHand(q)' => InHand(q)
      <4>1. \A q : (\E i \in DOMAIN d.pdus : d.pdus[i] = q)
                   => q = run.session \/ \E i \in DOMAIN c.pdus : c.pdus[i] = q
        BY <1>3, <2>4, Appended
      <4>2. SUFFICES ASSUME NEW q, InHand(q)' PROVE InHand(q)
        OBVIOUS
      <4>3. \/ \E i \in DOMAIN d.drbs : d.drbs[i] = q
            \/ \E i \in DOMAIN d.pdus : d.pdus[i] = q
        BY <1>7, <2>6, <4>2 DEF InHand
      <4>4. \/ \E i \in DOMAIN c.drbs : c.drbs[i] = q
            \/ \E i \in DOMAIN c.pdus : c.pdus[i] = q
            \/ run.session = q
        BY <2>4, <4>1, <4>3
      <4>5. QED BY <1>2, <4>4 DEF InHand, c
    <3>2. ues'.ctx[run'.ctx].cuup = ues.ctx[run.ctx].cuup
      BY <1>7, <2>4, <2>6 DEF c
    <3>3. QED BY <1>1, <1>2, <1>7, <3>1, <3>2 DEF AnswersDone, Busy
  <2>11. QED BY <1>4, <1>7, <1>8, <2>5, <2>7, <2>8, <2>9, <2>10 DEF SetupInv
<1>11. QED BY <1>9, <1>10

-----------------------------------------------------------------------------
(* The UE context table with a context stored in its hash.                 *)
Hashed(u, i, r) ==
  [u EXCEPT !.hash[i] = r, !.zero = IF @ = NoKey THEN i ELSE @]

LEMMA HashedFields ==
  ASSUME NEW u \in UesRecord, NEW i \in UeIds, NEW r \in UeRows
  PROVE  /\ Hashed(u, i, r) \in UesRecord
         /\ Hashed(u, i, r).ids = u.ids /\ Hashed(u, i, r).last_id = u.last_id
         /\ Hashed(u, i, r).zero_id = u.zero_id /\ Hashed(u, i, r).used = u.used
         /\ Hashed(u, i, r).last_slot = u.last_slot /\ Hashed(u, i, r).zero \in {u.zero, i}
         /\ Hashed(u, i, r).hash = [u.hash EXCEPT ![i] = r]
         /\ Hashed(u, i, r).ctx = u.ctx
<1> DEFINE C == [UeRows -> CtxRecord]
           h == [u.hash EXCEPT ![i] = r]
           z == IF u.zero = NoKey THEN i ELSE u.zero
<1>1. UesRecord =
        [ids : SUBSET UeIds, last_id : UeIds, zero_id : UeIds \union {NoKey},
         used : SUBSET UeRows, last_slot : UeRows, zero : UeIds \union {NoKey},
         hash : [UeIds -> UeRows \union {NoRow}], ctx : C]
  BY UesTypes
<1> HIDE DEF C
<1>2. h \in [UeIds -> UeRows \union {NoRow}] /\ z \in UeIds \union {NoKey} /\ z \in {u.zero, i}
  BY <1>1
<1>3. Hashed(u, i, r) = [u EXCEPT !.hash = h, !.zero = z]
  BY DEF Hashed
<1>4. h = [u.hash EXCEPT ![i] = r]
  OBVIOUS
<1> HIDE DEF h, z
<1>5. QED BY <1>1, <1>2, <1>3, <1>4

LEMMA HashedOK ==
  ASSUME NEW u, UesOK(u), NEW i \in u.ids, NEW r \in u.used
  PROVE  UesOK(Hashed(u, i, r))
<1> DEFINE v == Hashed(u, i, r)
<1>1. u \in UesRecord /\ UesSound(u) /\ r \in UeRows /\ i \in UeIds
  BY DEF UesOK, UesRecord
<1>2. /\ v \in UesRecord
      /\ v.ids = u.ids /\ v.last_id = u.last_id
      /\ v.zero_id = u.zero_id /\ v.used = u.used
      /\ v.last_slot = u.last_slot /\ v.zero \in {u.zero, i}
      /\ v.ctx = u.ctx
  BY <1>1, HashedFields, ZenonT(40)
<1> HIDE DEF v
<1>3. UesSound(v)
  BY <1>1, <1>2 DEF UesSound
<1>4. QED BY <1>2, <1>3 DEF UesOK, v

(* What is left of a context's lists when it has been committed.           *)
Packed(c) ==
  [c EXCEPT !.drbs = <<>>,
            !.pdus = [i \in 1 .. Len(c.pdus) |->
                        IF i <= Len(c.drbs) THEN c.drbs[i] ELSE c.pdus[i]]]

LEMMA PackedType ==
  ASSUME NEW c \in CtxRecord
  PROVE  Packed(c) \in CtxRecord /\ Packed(c).cuup = c.cuup
<1> DEFINE list == [i \in 1 .. Len(c.pdus) |->
                      IF i <= Len(c.drbs) THEN c.drbs[i] ELSE c.pdus[i]]
<1>1. c.drbs \in Seq(Rows) /\ c.pdus \in Seq(Rows)
  BY DEF CtxRecord
<1>2. list \in Seq(Rows)
  <2>1. /\ Len(c.pdus) \in Nat /\ Len(c.drbs) \in Nat
        /\ \A i \in 1 .. Len(c.pdus) : c.pdus[i] \in Rows
        /\ \A i \in 1 .. Len(c.drbs) : c.drbs[i] \in Rows
    BY <1>1
  <2>2. \A i \in 1 .. Len(c.pdus) :
          (IF i <= Len(c.drbs) THEN c.drbs[i] ELSE c.pdus[i]) \in Rows
    BY <2>1
  <2>3. list \in [1 .. Len(c.pdus) -> Rows]
    BY <2>2
  <2> HIDE DEF list
  <2>4. QED BY <2>1, <2>3
<1>3. Packed(c) = [c EXCEPT !.drbs = <<>>, !.pdus = list]
  BY DEF Packed
<1> HIDE DEF list
<1>4. <<>> \in Seq(Rows)
  OBVIOUS
<1>5. QED BY <1>2, <1>3, <1>4 DEF CtxRecord

(* Both lists of a context are committed; it is stored and packed.         *)
LEMMA UeCommitted ==
  ASSUME TableOK(tunnels), UesOK(ues), NEW r \in ues.used,
         ues.ctx[r].cuup \in ues.ids, ues.ctx[r].drbs \in Seq(tunnels.used),
         ues.ctx[r].pdus \in Seq(tunnels.used), ue_ctx_commit(r)
  PROVE  /\ TableOK(tunnels') /\ Kept(tunnels, tunnels')
         /\ \A i \in DOMAIN ues.ctx[r].drbs :
              tunnels'.hash[tunnels.key[ues.ctx[r].drbs[i]]] = ues.ctx[r].drbs[i]
         /\ \A i \in DOMAIN ues.ctx[r].pdus :
              tunnels'.hash[tunnels.key[ues.ctx[r].pdus[i]]] = ues.ctx[r].pdus[i]
         /\ UesOK(ues') /\ ues'.ids = ues.ids
         /\ ues'.hash = [ues.hash EXCEPT ![ues.ctx[r].cuup] = r]
<1> DEFINE c == ues.ctx[r]
           mid == CommitDrbs(tunnels, c.drbs)
<1>1. /\ tunnels' = CommitDrbs(mid, c.pdus)
      /\ ues' = Hashed(WithCtx(ues, r, Packed(c)), c.cuup, r)
  <2>1. WithCtx(ues, r, Packed(c)) =
          [ues EXCEPT !.ctx[r].drbs = <<>>,
             !.ctx[r].pdus = [i \in 1 .. Len(c.pdus) |->
                                IF i <= Len(c.drbs) THEN c.drbs[i] ELSE c.pdus[i]]]
    <3>1. ues \in UesRecord /\ r \in UeRows
      BY DEF UesOK, UesRecord
    <3>2. ues.ctx \in [UeRows -> CtxRecord]
      BY <3>1, UesTypes
    <3>3. QED BY <3>1, <3>2 DEF WithCtx, Packed
  <2>2. QED BY <2>1 DEF ue_ctx_commit, Hashed
<1>2. c \in CtxRecord /\ r \in UeRows /\ c.cuup \in UeIds
  BY CtxFacts
<1>3. c.drbs \in Seq(tunnels.used) /\ c.pdus \in Seq(tunnels.used) /\ c.cuup \in ues.ids
  OBVIOUS
<1> HIDE DEF c
<1>4. /\ TableOK(mid) /\ Kept(tunnels, mid)
      /\ \A i \in DOMAIN c.drbs : mid.hash[tunnels.key[c.drbs[i]]] = c.drbs[i]
  BY <1>3, ListCommitted
<1> HIDE DEF mid
<1>5. mid.used = tunnels.used /\ mid.key = tunnels.key
  BY <1>4 DEF Kept
<1>6. /\ TableOK(tunnels') /\ Kept(mid, tunnels')
      /\ \A i \in DOMAIN c.pdus : tunnels'.hash[tunnels.key[c.pdus[i]]] = c.pdus[i]
  BY <1>1, <1>3, <1>4, <1>5, ListCommitted
<1>7. Kept(tunnels, tunnels')
  BY <1>4, <1>6, KeptTwice
<1>8. ASSUME NEW i \in DOMAIN c.drbs
      PROVE  tunnels'.hash[tunnels.key[c.drbs[i]]] = c.drbs[i]
  <2>1. c.drbs[i] \in tunnels.used
    BY <1>3
  <2>2. tunnels.key[c.drbs[i]] \in TunnelKey /\ c.drbs[i] # NoRow
    <3>1. tunnels.key[c.drbs[i]] \in TunnelKey /\ c.drbs[i] \in Rows
      BY <2>1 DEF TableOK, KeysInRows, TableRecord
    <3>2. QED BY <3>1, RowsFacts
  <2>3. QED BY <1>4, <1>6, <2>2 DEF Kept
<1> DEFINE v == WithCtx(ues, r, Packed(c))
<1>9. /\ UesOK(v) /\ v.ids = ues.ids /\ v.hash = ues.hash /\ v.used = ues.used
  <2>1. Packed(c) \in CtxRecord
    BY <1>2, PackedType
  <2>2. ues \in UesRecord
    BY DEF UesOK
  <2>3. QED BY <1>2, <2>1, <2>2, WithCtxOK, WithCtxFields
<1>10. UesOK(ues') /\ ues'.ids = ues.ids /\ ues'.hash = [ues.hash EXCEPT ![c.cuup] = r]
  <2>1. v \in UesRecord
    BY <1>9 DEF UesOK
  <2>2. ues' = Hashed(v, c.cuup, r)
    BY <1>1
  <2> HIDE DEF v
  <2>3. UesOK(ues')
    BY <1>3, <1>9, <2>2, HashedOK
  <2>4. QED BY <1>2, <1>9, <2>1, <2>2, <2>3, HashedFields
<1>11. QED BY <1>6, <1>7, <1>8, <1>10 DEF c

(* An answer announces the context's UE id and the rows of its lists.      *)
LEMMA AnnounceResult ==
  ASSUME TableOK(tunnels), UesOK(ues), NEW r \in ues.used,
         ues.ctx[r].drbs \in Seq(tunnels.used), ues.ctx[r].pdus \in Seq(tunnels.used)
  PROVE  /\ Announce(r) \in AnswerRecord
         /\ Announce(r).ue = ues.ctx[r].cuup /\ Announce(r).ctx = r
         /\ \A t \in Announce(r).tunnels :
              /\ t.row \in tunnels.used /\ t.key = tunnels.key[t.row]
              /\ \/ \E i \in DOMAIN ues.ctx[r].drbs : ues.ctx[r].drbs[i] = t.row
                 \/ \E i \in DOMAIN ues.ctx[r].pdus : ues.ctx[r].pdus[i] = t.row
<1> DEFINE c == ues.ctx[r]
           rows == {c.drbs[i] : i \in DOMAIN c.drbs} \union {c.pdus[i] : i \in DOMAIN c.pdus}
           set == {[key |-> tunnels.key[q], row |-> q] : q \in rows}
<1>1. r \in UeRows /\ c.cuup \in UeIds
  BY CtxFacts
<1>2. Announce(r) = [ue |-> c.cuup, ctx |-> r, tunnels |-> set]
  BY DEF Announce
<1>3. \A q \in rows : q \in tunnels.used
  OBVIOUS
<1>4. \A q \in rows : \/ \E i \in DOMAIN c.drbs : c.drbs[i] = q
                      \/ \E i \in DOMAIN c.pdus : c.pdus[i] = q
  OBVIOUS
<1> HIDE DEF rows
<1>5. \A q \in rows : tunnels.key[q] \in TunnelKey /\ q \in Rows
  BY <1>3 DEF TableOK, KeysInRows, TableRecord
<1>6. ASSUME NEW t \in set
      PROVE  /\ t \in [key : TunnelKey, row : Rows]
             /\ t.row \in tunnels.used /\ t.key = tunnels.key[t.row]
             /\ \/ \E i \in DOMAIN c.drbs : c.drbs[i] = t.row
                \/ \E i \in DOMAIN c.pdus : c.pdus[i] = t.row
  <2>1. PICK q \in rows : t = [key |-> tunnels.key[q], row |-> q]
    OBVIOUS
  <2>2. t.row = q /\ t.key = tunnels.key[q] /\ t \in [key : TunnelKey, row : Rows]
    BY <1>5, <2>1
  <2>3. QED BY <1>3, <1>4, <2>2
<1> HIDE DEF set, c
<1>7. set \in SUBSET [key : TunnelKey, row : Rows]
  BY <1>6
<1>8. /\ Announce(r) \in AnswerRecord /\ Announce(r).ue = c.cuup /\ Announce(r).ctx = r
      /\ Announce(r).tunnels = set
  BY <1>1, <1>2, <1>7 DEF AnswerRecord
<1>9. QED BY <1>6, <1>8 DEF c

LEMMA AnswerStep ==
  ASSUME SetupInv, Answer
  PROVE  SetupInv'
<1> DEFINE c == ues.ctx[run.ctx]
<1>1. PICK n : n = Announce(run.ctx)
  OBVIOUS
<1>2. /\ TableOK(tunnels) /\ UesOK(ues) /\ run \in RunRecord
      /\ answers \in SUBSET AnswerRecord /\ RunSound /\ AnswersStand /\ AnswersApart
      /\ AnswersDone
  BY DEF SetupInv
<1>3. /\ run.pc = "session" /\ run.todo = <<>> /\ ue_ctx_commit(run.ctx)
      /\ \/ /\ run.sessions = 0 /\ answers' = answers
            /\ run' = [NoRequest EXCEPT !.pc = "refused", !.req = run.req]
         \/ run' = NoRequest /\ answers' = answers \union {n}
  BY <1>1 DEF Answer
<1>4. /\ run.ctx \in ues.used /\ c.cuup \in ues.ids
      /\ c.drbs \in Seq(tunnels.used) /\ c.pdus \in Seq(tunnels.used)
      /\ NothingAsked
  BY <1>2, <1>3 DEF RunSound, Busy
<1>5. /\ TableOK(tunnels') /\ Kept(tunnels, tunnels')
      /\ \A i \in DOMAIN c.drbs : tunnels'.hash[tunnels.key[c.drbs[i]]] = c.drbs[i]
      /\ \A i \in DOMAIN c.pdus : tunnels'.hash[tunnels.key[c.pdus[i]]] = c.pdus[i]
      /\ UesOK(ues') /\ ues'.ids = ues.ids
      /\ ues'.hash = [ues.hash EXCEPT ![c.cuup] = run.ctx]
  BY <1>2, <1>3, <1>4, UeCommitted
<1>6. /\ n \in AnswerRecord /\ n.ue = c.cuup /\ n.ctx = run.ctx
      /\ \A t \in n.tunnels :
           /\ t.row \in tunnels.used /\ t.key = tunnels.key[t.row]
           /\ \/ \E i \in DOMAIN c.drbs : c.drbs[i] = t.row
              \/ \E i \in DOMAIN c.pdus : c.pdus[i] = t.row
  BY <1>1, <1>2, <1>4, AnnounceResult
<1>7. \A a \in answers : a.ue # c.cuup /\ \A t \in a.tunnels : ~InHand(t.row)
  BY <1>2, <1>3 DEF AnswersDone, Busy
<1>8. \A t \in n.tunnels : InHand(t.row)
  BY <1>6 DEF InHand
<1>9. ues.hash \in [UeIds -> UeRows \union {NoRow}] /\ c.cuup \in UeIds
  BY <1>2, <1>4 DEF UesOK, UesRecord
<1> HIDE DEF c
<1>10. ASSUME NEW a \in answers PROVE AnswerStands(a)'
  <2>1. a \in AnswerRecord /\ AnswerStands(a) /\ a.ue # c.cuup
    BY <1>2, <1>7 DEF AnswersStand
  <2>2. ues'.hash[a.ue] = ues.hash[a.ue]
    <3>1. a.ue \in UeIds
      BY <2>1 DEF AnswerRecord
    <3>2. QED BY <1>5, <1>9, <2>1, <3>1
  <2>3. Grown(tunnels, tunnels') /\ ues.ids \subseteq ues'.ids
    BY <1>5, KeptGrows
  <2>4. QED BY <2>1, <2>2, <2>3, StandsOn
<1>11. AnswerStands(n)'
  <2>1. n.ue \in ues'.ids /\ ues'.hash[n.ue] = n.ctx
    BY <1>4, <1>5, <1>6, <1>9
  <2>2. ASSUME NEW t \in n.tunnels
        PROVE  /\ tunnels'.hash[t.key] = t.row /\ tunnels'.key[t.row] = t.key
               /\ t.row \in tunnels'.used
    <3>1. tunnels'.key = tunnels.key /\ tunnels'.used = tunnels.used
      BY <1>5 DEF Kept
    <3>2. tunnels'.hash[tunnels.key[t.row]] = t.row
      BY <1>5, <1>6
    <3>3. QED BY <1>6, <3>1, <3>2
  <2>3. QED BY <2>1, <2>2 DEF AnswerStands
<1>12. CASE /\ run.sessions = 0 /\ answers' = answers
            /\ run' = [NoRequest EXCEPT !.pc = "refused", !.req = run.req]
  <2>1. run' \in RunRecord /\ run'.pc = "refused" /\ run'.req = run.req
    <3>1. NoRequest \in RunRecord /\ run.req \in Seq(Nat)
      BY <1>2, RunTypes DEF RunRecord
    <3>2. QED BY <1>12, <3>1 DEF RunRecord
  <2>2. RunSound' /\ AnswersDone'
    BY <2>1 DEF RunSound, AnswersDone, Busy
  <2>3. AnswersStand' /\ AnswersApart' /\ (answers \in SUBSET AnswerRecord)'
    <3>1. AnswersStand'
      BY <1>10, <1>12 DEF AnswersStand
    <3>2. AnswersApart'
      BY <1>2, <1>12 DEF AnswersApart
    <3>3. QED BY <1>2, <1>12, <3>1, <3>2
  <2>4. RefusedOnlyWhenFull'
    <3>1. tunnels'.ids = tunnels.ids
      BY <1>5 DEF Kept
    <3>2. tunnels.ids = Rows \/ \A i \in DOMAIN run.req : run.req[i] = 0
      <4>1. Len(run.todo) = 0 /\ DOMAIN run.req = 1 .. Len(run.req) /\ Len(run.req) \in Nat
        BY <1>2, <1>3 DEF RunRecord
      <4>2. 1 .. Len(run.req) - Len(run.todo) = DOMAIN run.req
        BY <4>1
      <4>3. QED BY <1>4, <1>12, <4>2 DEF NothingAsked
    <3>3. QED BY <2>1, <3>1, <3>2 DEF RefusedOnlyWhenFull
  <2>5. QED BY <1>5, <2>1, <2>2, <2>3, <2>4 DEF SetupInv
<1>13. CASE run' = NoRequest /\ answers' = answers \union {n}
  <2>1. run' \in RunRecord /\ run'.pc = "idle"
    BY <1>13, RunTypes DEF NoRequest
  <2>2. RunSound' /\ AnswersDone' /\ RefusedOnlyWhenFull'
    BY <2>1 DEF RunSound, AnswersDone, Busy, RefusedOnlyWhenFull
  <2>3. AnswersStand'
    BY <1>10, <1>11, <1>13 DEF AnswersStand
  <2>4. AnswersApart'
    <3>1. ASSUME NEW a \in answers
          PROVE  a.ue # n.ue /\ \A s \in a.tunnels, t \in n.tunnels : s.row # t.row
      BY <1>6, <1>7, <1>8
    <3>2. SUFFICES ASSUME NEW a \in answers \union {n}, NEW b \in answers \union {n}, a # b
                   PROVE  a.ue # b.ue /\ \A s \in a.tunnels, t \in b.tunnels : s.row # t.row
      BY <1>13 DEF AnswersApart
    <3>3. CASE a \in answers /\ b \in answers
      BY <1>2, <3>2, <3>3 DEF AnswersApart
    <3>4. CASE a \in answers /\ b = n
      BY <3>1, <3>4
    <3>5. CASE a = n /\ b \in answers
      BY <3>1, <3>5
    <3>6. QED BY <3>2, <3>3, <3>4, <3>5
  <2>5. (answers \in SUBSET AnswerRecord)'
    BY <1>2, <1>6, <1>13
  <2>6. QED BY <1>5, <2>1, <2>2, <2>3, <2>4, <2>5 DEF SetupInv
<1>14. QED BY <1>3, <1>12, <1>13

-----------------------------------------------------------------------------
LEMMA InitSetup ==
  ASSUME Init
  PROVE  SetupInv
<1>1. tunnels \in TableRecord
  BY RowsFacts DEF Init, TableRecord
<1>2. TableOK(tunnels)
  <2>1. InStep(tunnels)
    BY DEF Init, InStep
  <2>2. KeysInRows(tunnels)
    BY DEF Init, KeysInRows
  <2>3. QED BY <1>1, <2>1, <2>2 DEF TableOK
<1>3. ues \in UesRecord
  <2>1. 0 \in UeIds
    BY SetupAssumption DEF UeIds
  <2>2. [cuup |-> 0, pdus |-> <<>>, drbs |-> <<>>] \in CtxRecord
    BY <2>1 DEF CtxRecord
  <2> HIDE DEF CtxRecord
  <2>3. [r \in UeRows |-> [cuup |-> 0, pdus |-> <<>>, drbs |-> <<>>]] \in [UeRows -> CtxRecord]
    BY <2>2
  <2>4. ues = [ids |-> {}, last_id |-> 0, zero_id |-> NoKey, used |-> {}, last_slot |-> 0,
               zero |-> NoKey, hash |-> [i \in UeIds |-> NoRow],
               ctx |-> [r \in UeRows |-> [cuup |-> 0, pdus |-> <<>>, drbs |-> <<>>]]]
    BY DEF Init
  <2> DEFINE f == [r \in UeRows |-> [cuup |-> 0, pdus |-> <<>>, drbs |-> <<>>]]
             C == [UeRows -> CtxRecord]
  <2>5. ues = [ids |-> {}, last_id |-> 0, zero_id |-> NoKey, used |-> {}, last_slot |-> 0,
               zero |-> NoKey, hash |-> [i \in UeIds |-> NoRow], ctx |-> f]
    BY <2>4
  <2>6. f \in C
    BY <2>3
  <2>7. UesRecord =
          [ids : SUBSET UeIds, last_id : UeIds, zero_id : UeIds \union {NoKey},
           used : SUBSET UeRows, last_slot : UeRows, zero : UeIds \union {NoKey},
           hash : [UeIds -> UeRows \union {NoRow}], ctx : C]
    BY UesTypes
  <2> HIDE DEF f, C
  <2>8. 0 \in UeRows
    BY RowsFacts
  <2>9. QED BY <2>1, <2>5, <2>6, <2>7, <2>8
<1>4. UesOK(ues)
  <2>1. UesSound(ues)
    BY DEF Init, UesSound
  <2>2. QED BY <1>3, <2>1 DEF UesOK
<1>5. run = NoRequest /\ run.pc = "idle" /\ answers = {}
  BY DEF Init, NoRequest
<1>6. run \in RunRecord
  BY <1>5, RunTypes
<1>7. RunSound /\ AnswersStand /\ AnswersApart /\ AnswersDone /\ RefusedOnlyWhenFull
  BY <1>5 DEF RunSound, AnswersStand, AnswersApart, AnswersDone, RefusedOnlyWhenFull, Busy
<1>8. QED BY <1>2, <1>4, <1>5, <1>6, <1>7 DEF SetupInv

LEMMA SessionDiesStep ==
  ASSUME SetupInv, SessionDies
  PROVE  SetupInv'
<1>1. /\ tunnels' = tunnels /\ ues' = ues /\ answers' = answers
      /\ run \in RunRecord /\ run' = [run EXCEPT !.pc = "dead"]
  BY DEF SetupInv, SessionDies
<1>2. run' \in RunRecord /\ run'.pc = "dead"
  BY <1>1 DEF RunRecord
<1>3. AnswersStand' /\ AnswersApart'
  BY <1>1 DEF SetupInv, AnswersStand, AnswerStands, AnswersApart
<1>4. RunSound' /\ AnswersDone' /\ RefusedOnlyWhenFull'
  BY <1>2 DEF RunSound, AnswersDone, RefusedOnlyWhenFull, Busy
<1>5. QED BY <1>1, <1>2, <1>3, <1>4 DEF SetupInv

LEMMA StutterStep ==
  ASSUME SetupInv, UNCHANGED vars
  PROVE  SetupInv'
<1>1. tunnels' = tunnels /\ ues' = ues /\ run' = run /\ answers' = answers
  BY DEF vars
<1>2. AnswersStand' /\ AnswersApart' /\ AnswersDone'
  BY <1>1 DEF SetupInv, AnswersStand, AnswerStands, AnswersApart, AnswersDone, Busy, InHand
<1>3. RunSound' /\ RefusedOnlyWhenFull'
  BY <1>1 DEF SetupInv, RunSound, Busy, NothingAsked, RefusedOnlyWhenFull
<1>4. QED BY <1>1, <1>2, <1>3 DEF SetupInv

LEMMA SetupStep ==
  ASSUME SetupInv, [Next]_vars
  PROVE  SetupInv'
<1>1. CASE \E req \in Requests : Receive(req)
  BY <1>1, ReceiveStep
<1>2. CASE SessionSetUp
  BY <1>2, SessionSetUpStep
<1>3. CASE drb_setup
  BY <1>3, DrbStep
<1>4. CASE SessionDone
  BY <1>4, SessionDoneStep
<1>5. CASE Answer
  BY <1>5, AnswerStep
<1>6. CASE UNCHANGED vars
  BY <1>6, StutterStep
<1>7. CASE SessionDies
  BY <1>7, SessionDiesStep
<1>8. QED BY <1>1, <1>2, <1>3, <1>4, <1>5, <1>6, <1>7 DEF Next

(* Types, the two tables, the handler and what it has announced, through   *)
(* every request (e1ap_bearer_setup.c, tunnel.c, ue_ctx.c).           *)
THEOREM SetupInvariant == Spec => []SetupInv
<1>1. Init => SetupInv
  BY InitSetup
<1>2. SetupInv /\ [Next]_vars => SetupInv'
  BY SetupStep
<1>3. QED BY <1>1, <1>2, PTL DEF Spec

LEMMA RowForEveryIdHolds ==
  ASSUME SetupInv
  PROVE  RowForEveryId
<1>1. TableOK(tunnels) /\ UesOK(ues)
  BY DEF SetupInv
<1>2. ASSUME id_alloc(tunnels).id # NoRow
      PROVE  /\ NextSlot(MAX_TUNNEL_COUNT, tunnels.last_slot, tunnels.used) # NoRow
             /\ ~Endless(MAX_TUNNEL_COUNT, tunnels.last_slot, tunnels.used)
  <2>1. FreeIds(tunnels) # {}
    BY <1>2 DEF id_alloc, FreeIds
  <2>2. PICK i \in Rows \ tunnels.used :
          NextSlot(MAX_TUNNEL_COUNT, tunnels.last_slot, tunnels.used) = i
    BY <1>1, <2>1, IdAndRow
  <2>3. QED BY <2>2, RowsFacts DEF Endless
<1>3. ASSUME Cardinality(ues.ids) < MAX_UE_COUNT
      PROVE  ~Endless(MAX_UE_COUNT, ues.last_slot, ues.used)
  <2>1. MAX_UE_COUNT \in Nat /\ UeRows = 0 .. MAX_UE_COUNT - 1
    BY RowsFacts
  <2>2. Cardinality(ues.ids) # MAX_UE_COUNT
    BY <1>1, <1>3, <2>1, UesFinite
  <2>3. ues.used # UeRows
    BY <1>1, <2>2, UesFinite
  <2>4. QED BY <2>1, <2>3 DEF Endless
<1>4. QED BY <1>2, <1>3 DEF RowForEveryId

LEMMA AnnouncedHolds ==
  ASSUME SetupInv
  PROVE  Announced
<1>1. AnswersStand /\ AnswersApart
  BY DEF SetupInv
<1>2. ASSUME NEW a \in answers
      PROVE  /\ ues.hash[a.ue] = a.ctx
             /\ \A t \in a.tunnels :
                  /\ tunnels.hash[t.key] = t.row
                  /\ tunnels.key[t.row] = t.key /\ t.row \in tunnels.used
  BY <1>1 DEF AnswersStand, AnswerStands
<1>3. ASSUME NEW a \in answers, NEW b \in answers \ {a}
      PROVE  a.ue # b.ue /\ a.tunnels \intersect b.tunnels = {}
  <2>1. a.ue # b.ue /\ \A s \in a.tunnels, t \in b.tunnels : s.row # t.row
    BY <1>1 DEF AnswersApart
  <2>2. QED BY <2>1
<1>4. QED BY <1>2, <1>3 DEF Announced

(* As long as an id can be had, the search for its row finds one and ends  *)
(* (tunnel_add and ue_ctx_add after their id_alloc).                       *)
THEOREM RowsSuffice == Spec => []RowForEveryId
<1>1. SetupInv => RowForEveryId
  BY RowForEveryIdHolds
<1>2. QED BY <1>1, SetupInvariant, PTL

(* No later request, successful or not, disturbs what a successful answer  *)
(* has announced (ue_ctx_commit, tunnel_commit).                           *)
THEOREM AnswersKept == Spec => []Announced
<1>1. SetupInv => Announced
  BY AnnouncedHolds
<1>2. QED BY <1>1, SetupInvariant, PTL

(* A set-up is refused only when ids are out or no DRB is asked for, in    *)
(* spite of the look-ups that take position 0 for a failure (ue_ctx.c:51,  *)
(* tunnel.c:278).                                                          *)
THEOREM RefusedRightly == Spec => []RefusedOnlyWhenFull
<1>1. SetupInv => RefusedOnlyWhenFull
  BY DEF SetupInv
<1>2. QED BY <1>1, SetupInvariant, PTL
=============================================================================
