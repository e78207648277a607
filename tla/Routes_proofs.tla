---------------------------- MODULE Routes_proofs ----------------------------
(***************************************************************************)
(* Theorems about the route table for every width of an address, every     *)
(* size of the table and any number of threads.                            *)
(***************************************************************************)
EXTENDS Routes, TLAPS

PCs == {"idle", "create", "assign", "up", "begin", "count", "fill", "read", "dead"}

(* Who holds a key holds it with the prefix whose rule has it; the adder   *)
(* also with the route that was last asked for.                            *)
HeldKeys ==
  /\ \A t \in Threads : at[t].pc = "read" =>
       /\ at[t].prefix \in Prefixes /\ at[t].key # NoKey
       /\ rule[at[t].prefix] = at[t].key
  /\ at[Adder].pc \in {"count", "fill"} =>
       /\ at[Adder].prefix \in Prefixes /\ at[Adder].key # NoKey
       /\ rule[at[Adder].prefix] = at[Adder].key
       /\ told[at[Adder].prefix] = at[Adder].gateway
  /\ at[Adder].pc = "count" => at[Adder].key = entry_count
  /\ at[Adder].pc = "fill" => at[Adder].key < entry_count

(* As long as no two threads have met in lpm_init there is at most one,    *)
(* none when the table is up, and a thread about to say so has checked.    *)
OneMaker ==
  /\ \A t, u \in Threads : InLpmInit(t) /\ InLpmInit(u) => t = u
  /\ \A t \in Threads : lpm_up => ~InLpmInit(t)
  /\ \A t \in Threads : at[t].pc = "up" => lpm_mapper
  /\ lpm_up => lpm_mapper

RoutesInv == TypeOK /\ RulesLeadToRows /\ HeldKeys /\ (~met => OneMaker)

(***************************************************************************)
(* A step moves one thread, unless it is the last of the program.          *)
(***************************************************************************)
ThreadState == [pc : PCs, for : Calls \union {"none"}, ptr : BOOLEAN,
                key : Keys \union {NoKey}, prefix : Prefixes \union {NoPrefix},
                gateway : Gateways \union {NoGateway}]

LEMMA ThreadTyped ==
  ASSUME TypeOK
  PROVE  at \in [Threads -> ThreadState]
BY DEF TypeOK, ThreadState, PCs

LEMMA IdleTyped == Idle \in ThreadState
BY DEF Idle, ThreadState, PCs, Calls

LEMMA TypeInit == Init => TypeOK
<1> SUFFICES ASSUME Init PROVE TypeOK
  OBVIOUS
<1>1. at \in [Threads -> ThreadState]
  BY IdleTyped DEF Init
<1>5. /\ lpm_made \in BOOLEAN /\ lpm_mapper \in BOOLEAN /\ lpm_up \in BOOLEAN /\ met \in BOOLEAN
  BY Zenon DEF Init
<1>2. /\ rule \in [Prefixes -> Keys \union {NoKey}]
      /\ told \in [Prefixes -> Gateways \union {NoGateway}]
      /\ entry_count \in 0 .. PFM_ROUTE_LPM_MAX_ENTRIES
  BY RoutesAssumption DEF Init
<1>3. route_table \in [Keys -> [prefix : Prefixes \union {NoPrefix},
                                gateway : Gateways \union {NoGateway}]]
  BY DEF Init
<1>4. QED BY <1>1, <1>2, <1>3, <1>5 DEF TypeOK, ThreadState, PCs

LEMMA TypeStep ==
  ASSUME TypeOK, HeldKeys, [Next]_vars
  PROVE  TypeOK'
<1> USE RoutesAssumption
<1>0. at \in [Threads -> ThreadState] /\ Idle \in ThreadState
  BY ThreadTyped, IdleTyped
<1>1. ASSUME NEW t \in Threads, NEW for \in Calls, Call(t, for) PROVE TypeOK'
  <2>1. [Idle EXCEPT !.pc = IF lpm_up THEN "begin" ELSE "create", !.for = for] \in ThreadState
    BY <1>0 DEF ThreadState, PCs
  <2>2. at' \in [Threads -> ThreadState]
    BY <1>0, <1>1, <2>1 DEF Call
  <2>3. met' \in BOOLEAN
    BY <1>1, Zenon DEF Call, TypeOK
  <2>4. QED BY <1>1, <2>2, <2>3 DEF Call, TypeOK, ThreadState, PCs, lpm, table
<1>2. ASSUME NEW t \in Threads, Create(t) PROVE TypeOK'
  <2>1. PICK made \in {FALSE, ~lpm_made} :
          /\ lpm_made' = (lpm_made \/ made)
          /\ at' = [at EXCEPT ![t] = [@ EXCEPT !.pc = "assign", !.ptr = made]]
    BY <1>2 DEF Create
  <2>2. made \in BOOLEAN /\ lpm_made' \in BOOLEAN
    BY <2>1, Zenon DEF TypeOK
  <2>3. at' \in [Threads -> ThreadState]
    <3>1. at[t] \in ThreadState
      BY <1>0
    <3>2. [at[t] EXCEPT !.pc = "assign", !.ptr = made] \in ThreadState
      BY <3>1, <2>2 DEF ThreadState, PCs
    <3>3. at' = [at EXCEPT ![t] = [at[t] EXCEPT !.pc = "assign", !.ptr = made]]
      BY <2>1, <1>0
    <3>4. QED BY <1>0, <3>2, <3>3
  <2>4. QED BY <1>2, <2>2, <2>3 DEF Create, TypeOK, ThreadState, PCs, table
<1>3. ASSUME NEW t \in Threads, Assign(t) PROVE TypeOK'
  <2>1. at' \in [Threads -> ThreadState]
    BY <1>0, <1>3 DEF Assign, ThreadState, PCs
  <2>2. lpm_mapper' \in BOOLEAN
    BY <1>0, <1>3 DEF Assign, ThreadState
  <2>3. QED BY <1>3, <2>1, <2>2 DEF Assign, TypeOK, ThreadState, PCs, table
<1>4. ASSUME NEW t \in Threads, SetUp(t) PROVE TypeOK'
  <2>1. at' \in [Threads -> ThreadState]
    BY <1>0, <1>4 DEF SetUp, ThreadState, PCs
  <2>2. QED BY <1>4, <2>1 DEF SetUp, TypeOK, ThreadState, PCs, table
<1>5. ASSUME NEW t \in Threads, Lost(t) PROVE TypeOK'
  <2>1. ASSUME NEW u \in Threads PROVE [at[u] EXCEPT !.pc = "dead"] \in ThreadState
    <3>1. at[u] \in ThreadState
      BY <1>0
    <3>2. QED BY <3>1 DEF ThreadState, PCs
  <2>3. at' \in [Threads -> ThreadState]
    BY <1>5, <2>1, Zenon DEF Lost
  <2>2. QED BY <1>5, <2>3 DEF Lost, TypeOK, ThreadState, PCs, lpm, table
<1>6. ASSUME NEW t \in Threads, NEW ip \in Addresses, Query(t, ip) PROVE TypeOK'
  <2>1. ASSUME NEW p \in Longest(ip),
               at' = [at EXCEPT ![t] = [Idle EXCEPT !.pc = "read", !.for = "query",
                                                    !.key = rule[p], !.prefix = p]]
        PROVE  at' \in [Threads -> ThreadState]
    <3>1. p \in Prefixes /\ rule[p] \in Keys \union {NoKey}
      BY DEF Longest, Matching, TypeOK
    <3>2. QED BY <1>0, <2>1, <3>1 DEF ThreadState, PCs, Calls
  <2>2. at' \in [Threads -> ThreadState]
    BY <1>0, <1>6, <2>1 DEF Query
  <2>3. QED BY <1>6, <2>2 DEF Query, TypeOK, ThreadState, PCs, lpm, table
<1>7. ASSUME NEW t \in Threads, Read(t) \/ PrintRows(t) PROVE TypeOK'
  <2>1. at' \in [Threads -> ThreadState]
    BY <1>0, <1>7 DEF Read, PrintRows
  <2>2. QED BY <1>7, <2>1 DEF Read, PrintRows, TypeOK, ThreadState, PCs, lpm, table
<1>8. ASSUME NEW p \in Prefixes, NEW g \in Gateways, AddRule(p, g) PROVE TypeOK'
  <2>1. /\ rule' \in [Prefixes -> Keys \union {NoKey}]
        /\ entry_count' \in 0 .. PFM_ROUTE_LPM_MAX_ENTRIES
    BY <1>8 DEF AddRule, TypeOK, Keys
  <2>2. rule'[p] \in Keys \union {NoKey}
    BY <2>1
  <2>3. at' \in [Threads -> ThreadState]
    <3>1. at[Adder] \in ThreadState
      BY <1>0
    <3> DEFINE pc == IF rule[p] # NoKey THEN "fill" ELSE "count"
    <3>2. [at[Adder] EXCEPT !.pc = pc, !.key = rule'[p], !.prefix = p, !.gateway = g]
            \in ThreadState
      BY <3>1, <2>2 DEF ThreadState, PCs
    <3>3. at' = [at EXCEPT ![Adder] =
                   [at[Adder] EXCEPT !.pc = pc, !.key = rule'[p], !.prefix = p,
                                     !.gateway = g]]
      BY <1>8, <1>0 DEF AddRule
    <3>4. QED BY <1>0, <3>2, <3>3
  <2>4. told' \in [Prefixes -> Gateways \union {NoGateway}]
    BY <1>8 DEF AddRule, TypeOK
  <2>5. QED BY <1>8, <2>1, <2>3, <2>4 DEF AddRule, TypeOK, ThreadState, PCs, lpm
<1>9. ASSUME AddFails PROVE TypeOK'
  <2>1. at' \in [Threads -> ThreadState]
    BY <1>0, <1>9 DEF AddFails
  <2>2. QED BY <1>9, <2>1 DEF AddFails, TypeOK, ThreadState, PCs, lpm, table
<1>10. ASSUME FillRow PROVE TypeOK'
  <2>1. at' \in [Threads -> ThreadState] /\ at[Adder] \in ThreadState
    BY <1>0, <1>10 DEF FillRow
  <2>2. route_table' \in [Keys -> [prefix : Prefixes \union {NoPrefix},
                                   gateway : Gateways \union {NoGateway}]]
    BY <1>10, <2>1 DEF FillRow, TypeOK, ThreadState
  <2>3. QED BY <1>10, <2>1, <2>2 DEF FillRow, TypeOK, ThreadState, PCs, lpm
<1>11. ASSUME CountEntry PROVE TypeOK'
  <2>1. at' \in [Threads -> ThreadState]
    BY <1>0, <1>11 DEF CountEntry, ThreadState, PCs
  <2>2. entry_count' \in 0 .. PFM_ROUTE_LPM_MAX_ENTRIES
    <3>1. at[Adder].key = entry_count /\ at[Adder].key # NoKey /\ at[Adder] \in ThreadState
      BY <1>0, <1>11 DEF CountEntry, HeldKeys
    <3>2. entry_count \in Keys
      BY <3>1 DEF ThreadState
    <3>3. QED BY <1>11, <3>2 DEF CountEntry, Keys
  <2>3. QED BY <1>11, <2>1, <2>2 DEF CountEntry, TypeOK, ThreadState, PCs, lpm
<1>12. CASE UNCHANGED vars
  BY <1>12 DEF vars, lpm, table, TypeOK
<1>13. QED
  BY <1>1, <1>2, <1>3, <1>4, <1>5, <1>6, <1>7, <1>8, <1>9, <1>10, <1>11, <1>12 DEF Next

-----------------------------------------------------------------------------
(***************************************************************************)
(* Every step but the three of pfm_route_add leaves the table alone, and the *)
(* row that is being filled, if there is one, remains so.                  *)
(***************************************************************************)
Elsewhere == /\ UNCHANGED <<rule, entry_count, route_table, told>>
             /\ \A k \in Keys : Filling(k) => Filling(k)'

Others == \/ \E t \in Threads : \/ \E for \in Calls : Call(t, for)
                                \/ Create(t) \/ Assign(t) \/ SetUp(t) \/ Lost(t)
                                \/ \E ip \in Addresses : Query(t, ip)
                                \/ Read(t) \/ PrintRows(t)
          \/ AddFails
          \/ UNCHANGED vars

LEMMA OtherSteps ==
  ASSUME TypeOK, Others
  PROVE  Elsewhere
<1> USE RoutesAssumption
<1>0. at \in [Threads -> ThreadState]
  BY ThreadTyped
<1>1. ASSUME NEW t \in Threads, at[t].pc \notin {"count", "fill", "dead"},
             \A u \in Threads \ {t} : at'[u] = at[u],
             UNCHANGED <<rule, entry_count, route_table, told>>
      PROVE  Elsewhere
  <2>1. CASE t = Adder
    BY <1>1, <2>1 DEF Elsewhere, Filling
  <2>2. CASE t # Adder
    BY <1>1, <2>2 DEF Elsewhere, Filling
  <2>3. QED BY <2>1, <2>2
<1>2. ASSUME NEW t \in Threads, NEW for \in Calls, Call(t, for) PROVE Elsewhere
  BY <1>0, <1>1, <1>2 DEF Call, table
<1>3. ASSUME NEW t \in Threads, Create(t) PROVE Elsewhere
  BY <1>0, <1>1, <1>3 DEF Create, table
<1>4. ASSUME NEW t \in Threads, Assign(t) PROVE Elsewhere
  BY <1>0, <1>1, <1>4 DEF Assign, table
<1>5. ASSUME NEW t \in Threads, SetUp(t) PROVE Elsewhere
  BY <1>0, <1>1, <1>5 DEF SetUp, table
<1>6. ASSUME NEW t \in Threads, Lost(t) PROVE Elsewhere
  <2>1. at[Adder] \in ThreadState /\ at'[Adder] = [at[Adder] EXCEPT !.pc = "dead"]
    BY <1>0, <1>6 DEF Lost
  <2>2. at'[Adder].pc = "dead" /\ at'[Adder].key = at[Adder].key
    BY <2>1 DEF ThreadState
  <2>3. QED BY <1>6, <2>2 DEF Lost, Elsewhere, Filling, table
<1>7. ASSUME NEW t \in Threads, NEW ip \in Addresses, Query(t, ip) PROVE Elsewhere
  <2>1. \A u \in Threads \ {t} : at'[u] = at[u]
    BY <1>0, <1>7 DEF Query
  <2>2. QED BY <1>1, <1>7, <2>1 DEF Query, table
<1>8. ASSUME NEW t \in Threads, Read(t) \/ PrintRows(t) PROVE Elsewhere
  BY <1>0, <1>1, <1>8 DEF Read, PrintRows, table
<1>9. ASSUME AddFails PROVE Elsewhere
  BY <1>0, <1>1, <1>9 DEF AddFails, table
<1>10. CASE UNCHANGED vars
  BY <1>10 DEF vars, table, Elsewhere, Filling
<1>11. QED
  BY <1>2, <1>3, <1>4, <1>5, <1>6, <1>7, <1>8, <1>9, <1>10 DEF Others

(***************************************************************************)
(* Rules and rows.  A new rule gets the next key, which no other rule can  *)
(* have, and its row is the one that is being filled.                      *)
(***************************************************************************)
LEMMA RulesStep ==
  ASSUME TypeOK, RulesLeadToRows, HeldKeys, [Next]_vars
  PROVE  RulesLeadToRows'
<1> USE RoutesAssumption
<1>0. at \in [Threads -> ThreadState]
  BY ThreadTyped
<1>1. CASE Others
  <2>1. Elsewhere
    BY <1>1, OtherSteps
  <2>2. \A p \in Prefixes : rule[p] \in Keys \union {NoKey}
    BY DEF TypeOK
  <2>3. QED BY <2>1, <2>2 DEF Elsewhere, RulesLeadToRows
<1>2. ASSUME NEW p \in Prefixes, NEW g \in Gateways, AddRule(p, g)
      PROVE  RulesLeadToRows'
  <2>1. /\ rule' = [rule EXCEPT ![p] = IF rule[p] # NoKey THEN rule[p] ELSE entry_count]
        /\ entry_count' = entry_count
        /\ told' = [told EXCEPT ![p] = g] /\ route_table' = route_table
        /\ at[Adder].pc = "begin"
    BY <1>2 DEF AddRule
  <2>2. at'[Adder].pc \in {"count", "fill"} /\ at'[Adder].key = rule'[p]
    <3>1. at'[Adder] = [at[Adder] EXCEPT !.pc = IF rule[p] # NoKey THEN "fill" ELSE "count",
                                        !.key = rule'[p],
                                        !.prefix = p, !.gateway = g]
      BY <1>0, <1>2 DEF AddRule
    <3>2. at[Adder] \in ThreadState
      BY <1>0
    <3>3. QED BY <3>1, <3>2 DEF ThreadState
  <2>3. /\ rule \in [Prefixes -> Keys \union {NoKey}] /\ entry_count \in Nat
        /\ Keys \subseteq Nat /\ told \in [Prefixes -> Gateways \union {NoGateway}]
    BY DEF TypeOK, Keys
  <2>8. \A q \in Prefixes : rule[q] # NoKey => rule[q] \in Nat /\ rule[q] < entry_count
    <3>1. \A k : ~Filling(k)
      BY <2>1 DEF Filling
    <3>2. QED BY <2>3, <3>1, ZenonT(30) DEF RulesLeadToRows
  <2>4. ASSUME NEW q \in Prefixes, rule'[q] # NoKey
        PROVE  rule'[q] < entry_count' \/ (Filling(rule[q])' /\ rule'[q] = entry_count')
    <3>2. CASE q = p /\ rule[p] = NoKey
      BY <2>1, <2>2, <2>3, <3>2 DEF Filling
    <3>3. CASE q # p \/ rule[p] # NoKey
      <4>1. rule'[q] = rule[q]
        BY <2>1, <2>3, <3>3
      <4>2. QED BY <2>1, <2>3, <2>4, <2>8, <4>1
    <3>4. QED BY <3>2, <3>3
  <2>5. \A q, r \in Prefixes : rule'[q] = rule'[r] /\ rule'[q] # NoKey => q = r
    <3>1. \A q \in Prefixes : rule[q] # entry_count
      BY <2>3, <2>8, RoutesAssumption
    <3>2. QED BY <2>1, <2>3, <3>1 DEF RulesLeadToRows
  <2>6. ASSUME NEW q \in Prefixes, rule'[q] # NoKey, ~Filling(rule[q])'
        PROVE  route_table'[rule'[q]] = [prefix |-> q, gateway |-> told'[q]]
    <3>1. q # p
      BY <2>2, <2>6 DEF Filling
    <3>2. rule'[q] = rule[q] /\ told'[q] = told[q]
      BY <2>1, <2>3, <3>1
    <3>3. ~Filling(rule[q])
      BY <2>1 DEF Filling
    <3>4. QED BY <2>1, <2>6, <3>2, <3>3 DEF RulesLeadToRows
  <2>7. QED BY <2>4, <2>5, <2>6 DEF RulesLeadToRows
<1>3. CASE FillRow
  <2> DEFINE a == at[Adder]
             k == a.key
  <2>1. /\ a.pc = "fill" /\ rule' = rule /\ entry_count' = entry_count /\ told' = told
        /\ route_table' = [route_table EXCEPT ![k] =
                             [prefix |-> a.prefix, gateway |-> a.gateway]]
    BY <1>3 DEF FillRow
  <2>2. /\ a.prefix \in Prefixes /\ k # NoKey /\ rule[a.prefix] = k
        /\ told[a.prefix] = a.gateway
    BY <2>1 DEF HeldKeys
  <2>3. ASSUME NEW q \in Prefixes, rule[q] # NoKey
        PROVE  route_table'[rule[q]] = [prefix |-> q, gateway |-> told[q]]
    <3>1. rule[q] \in Keys /\ route_table \in [Keys -> [prefix : Prefixes \union {NoPrefix},
                                                gateway : Gateways \union {NoGateway}]]
      BY <2>3 DEF TypeOK
    <3>2. CASE rule[q] = k
      <4>1. q = a.prefix
        BY <2>2, <2>3, <3>2 DEF RulesLeadToRows
      <4>2. QED BY <2>1, <2>2, <3>1, <3>2, <4>1
    <3>3. CASE rule[q] # k
      <4>1. ~Filling(rule[q])
        BY <3>3 DEF Filling
      <4>2. QED BY <2>1, <2>3, <3>1, <3>3, <4>1 DEF RulesLeadToRows
    <3>4. QED BY <3>2, <3>3
  <2>4. ASSUME NEW q \in Prefixes, rule[q] # NoKey
        PROVE  rule[q] < entry_count
    <3>1. CASE rule[q] < entry_count
      BY <3>1
    <3>2. CASE Filling(rule[q]) /\ rule[q] = entry_count
      BY <1>0, <2>1, <3>2, <2>2, <2>4 DEF RulesLeadToRows, Filling, HeldKeys
    <3>3. QED BY <2>4, <3>1, <3>2 DEF RulesLeadToRows
  <2>5. QED BY <2>1, <2>3, <2>4 DEF RulesLeadToRows
<1>4. CASE CountEntry
  <2>1. /\ at[Adder].pc = "count" /\ at'[Adder].pc = "fill" /\ at'[Adder].key = at[Adder].key
        /\ UNCHANGED <<rule, route_table, told>> /\ entry_count' = entry_count + 1
    BY <1>0, <1>4 DEF CountEntry, ThreadState
  <2>2. \A k : Filling(k) <=> Filling(k)'
    BY <2>1 DEF Filling
  <2>3. /\ rule \in [Prefixes -> Keys \union {NoKey}] /\ entry_count \in Nat
        /\ Keys \subseteq Nat
    BY DEF TypeOK, Keys
  <2>4. ASSUME NEW q \in Prefixes, rule[q] # NoKey
        PROVE  rule[q] < entry_count + 1
    <3>1. rule[q] \in Nat
      BY <2>3, <2>4
    <3>2. rule[q] < entry_count \/ rule[q] = entry_count
      BY <2>4 DEF RulesLeadToRows
    <3>3. QED BY <2>3, <3>1, <3>2
  <2>5. QED BY <2>1, <2>2, <2>4 DEF RulesLeadToRows
<1>5. QED BY <1>1, <1>2, <1>3, <1>4 DEF Next, Others

(***************************************************************************)
(* A key that is held stays the key of its prefix, for no rule is changed  *)
(* and none removed.                                                       *)
(***************************************************************************)
LEMMA HeldStep ==
  ASSUME TypeOK, RulesLeadToRows, HeldKeys, [Next]_vars
  PROVE  HeldKeys'
<1> USE RoutesAssumption
<1>0. at \in [Threads -> ThreadState] /\ Idle \in ThreadState
  BY ThreadTyped, IdleTyped
<1>1. ASSUME \A t \in Threads : at'[t].pc \in {"count", "fill", "read"} => at'[t] = at[t],
             at'[Adder].pc \in {"count", "fill"} => entry_count' = entry_count,
             rule' = rule, told' = told
      PROVE  HeldKeys'
  BY <1>1 DEF HeldKeys
<1>2. ASSUME NEW t \in Threads, at'[t].pc \notin {"count", "fill", "read"},
             \A u \in Threads \ {t} : at'[u] = at[u],
             t = Adder \/ entry_count' = entry_count,
             rule' = rule, told' = told
      PROVE  HeldKeys'
  BY <1>1, <1>2
<1>3. ASSUME NEW t \in Threads, NEW for \in Calls, Call(t, for) PROVE HeldKeys'
  <2>1. at'[t].pc \in {"begin", "create"}
    BY <1>0, <1>3 DEF Call, Idle
  <2>2. QED BY <1>0, <1>2, <1>3, <2>1 DEF Call, table
<1>4. ASSUME NEW t \in Threads, Create(t) PROVE HeldKeys'
  <2>1. at[t] \in ThreadState
    BY <1>0
  <2>2. at'[t].pc = "assign"
    BY <1>0, <1>4, <2>1 DEF Create, ThreadState
  <2>3. QED BY <1>0, <1>2, <1>4, <2>2 DEF Create, table
<1>5. ASSUME NEW t \in Threads, Assign(t) PROVE HeldKeys'
  <2>1. at[t] \in ThreadState
    BY <1>0
  <2>2. at'[t].pc \in {"up", "idle"}
    BY <1>0, <1>5, <2>1 DEF Assign, ThreadState, Idle
  <2>3. QED BY <1>0, <1>2, <1>5, <2>2 DEF Assign, table
<1>6. ASSUME NEW t \in Threads, SetUp(t) PROVE HeldKeys'
  <2>1. at[t] \in ThreadState
    BY <1>0
  <2>2. at'[t].pc = "begin"
    BY <1>0, <1>6, <2>1 DEF SetUp, ThreadState
  <2>3. QED BY <1>0, <1>2, <1>6, <2>2 DEF SetUp, table
<1>7. ASSUME NEW t \in Threads, Lost(t) PROVE HeldKeys'
  <2>1. ASSUME NEW u \in Threads PROVE at'[u].pc = "dead"
    <3>1. at[u] \in ThreadState /\ at'[u] = [at[u] EXCEPT !.pc = "dead"]
      BY <1>0, <1>7 DEF Lost
    <3>2. QED BY <3>1 DEF ThreadState
  <2>2. QED BY <1>1, <1>7, <2>1 DEF Lost, table
<1>8. ASSUME NEW t \in Threads, NEW ip \in Addresses, Query(t, ip) PROVE HeldKeys'
  <2>1. CASE at' = [at EXCEPT ![t] = Idle]
    BY <1>0, <1>2, <1>8, <2>1 DEF Query, Idle, table
  <2>2. ASSUME NEW p \in Longest(ip),
               at' = [at EXCEPT ![t] = [Idle EXCEPT !.pc = "read", !.for = "query",
                                                    !.key = rule[p], !.prefix = p]]
        PROVE  HeldKeys'
    <3>1. p \in Prefixes /\ rule[p] # NoKey
      BY DEF Longest, Matching
    <3>2. at'[t].pc = "read" /\ at'[t].key = rule[p] /\ at'[t].prefix = p
      BY <1>0, <2>2 DEF Idle
    <3>3. \A u \in Threads \ {t} : at'[u] = at[u]
      BY <1>0, <2>2
    <3>4. rule' = rule /\ told' = told /\ entry_count' = entry_count
      BY <1>8 DEF Query, table
    <3>5. QED BY <3>1, <3>2, <3>3, <3>4 DEF HeldKeys
  <2>3. QED BY <1>8, <2>1, <2>2 DEF Query
<1>9. ASSUME NEW t \in Threads, Read(t) \/ PrintRows(t) PROVE HeldKeys'
  BY <1>0, <1>2, <1>9 DEF Read, PrintRows, Idle, table
<1>10. CASE AddFails
  BY <1>0, <1>2, <1>10 DEF AddFails, Idle, table
<1>11. CASE FillRow
  BY <1>0, <1>2, <1>11 DEF FillRow, Idle
<1>12. ASSUME NEW p \in Prefixes, NEW g \in Gateways, AddRule(p, g)
       PROVE  HeldKeys'
  <2>1. /\ at[Adder] \in ThreadState
        /\ at'[Adder] = [at[Adder] EXCEPT !.pc = IF rule[p] # NoKey THEN "fill" ELSE "count",
                                          !.key = rule'[p],
                                          !.prefix = p, !.gateway = g]
        /\ \A u \in Threads \ {Adder} : at'[u] = at[u]
    BY <1>0, <1>12 DEF AddRule
  <2>2. /\ at'[Adder].pc = (IF rule[p] # NoKey THEN "fill" ELSE "count")
        /\ at'[Adder].key = rule'[p]
        /\ at'[Adder].prefix = p /\ at'[Adder].gateway = g
    BY <2>1 DEF ThreadState
  <2>3. /\ rule \in [Prefixes -> Keys \union {NoKey}] /\ entry_count # NoKey
        /\ told \in [Prefixes -> Gateways \union {NoGateway}]
    BY DEF TypeOK
  <2>4. /\ \A q \in Prefixes : rule[q] # NoKey => rule'[q] = rule[q]
        /\ rule'[p] # NoKey /\ told'[p] = g
        /\ rule[p] = NoKey => rule'[p] = entry_count'
        /\ rule[p] # NoKey => rule'[p] = rule[p] /\ entry_count' = entry_count
    BY <1>12, <2>3 DEF AddRule
  <2>7. rule[p] # NoKey => rule'[p] < entry_count'
    <3>1. ~Filling(rule[p])
      BY <1>12 DEF AddRule, Filling
    <3>2. QED BY <2>4, <3>1 DEF RulesLeadToRows
  <2>5. ASSUME NEW t \in Threads, at'[t].pc = "read"
        PROVE  /\ at'[t].prefix \in Prefixes /\ at'[t].key # NoKey
               /\ rule'[at'[t].prefix] = at'[t].key
    <3>1. t # Adder
      BY <2>2, <2>5
    <3>2. at'[t] = at[t]
      BY <2>1, <3>1
    <3>3. QED BY <2>4, <2>5, <3>2 DEF HeldKeys
  <2>6. QED BY <2>2, <2>4, <2>5, <2>7 DEF HeldKeys
<1>13. CASE CountEntry
  <2>1. /\ at[Adder].pc = "count" /\ at'[Adder] = [at[Adder] EXCEPT !.pc = "fill"]
        /\ at[Adder] \in ThreadState
        /\ rule' = rule /\ told' = told
        /\ \A u \in Threads \ {Adder} : at'[u] = at[u]
    BY <1>0, <1>13 DEF CountEntry
  <2>2. /\ at'[Adder].pc = "fill" /\ at'[Adder].key = at[Adder].key
        /\ at'[Adder].prefix = at[Adder].prefix /\ at'[Adder].gateway = at[Adder].gateway
    BY <2>1 DEF ThreadState
  <2>4. at[Adder].key = entry_count /\ entry_count' = entry_count + 1 /\ entry_count \in Nat
    BY <1>13, <2>1 DEF CountEntry, HeldKeys, TypeOK
  <2>5. ASSUME NEW t \in Threads, at'[t].pc = "read"
        PROVE  /\ at'[t].prefix \in Prefixes /\ at'[t].key # NoKey
               /\ rule'[at'[t].prefix] = at'[t].key
    <3>1. t # Adder
      BY <2>2, <2>5
    <3>2. at'[t] = at[t]
      BY <2>1, <3>1
    <3>3. QED BY <2>1, <2>5, <3>2 DEF HeldKeys
  <2>6. /\ at[Adder].prefix \in Prefixes /\ at[Adder].key # NoKey
        /\ rule[at[Adder].prefix] = at[Adder].key
        /\ told[at[Adder].prefix] = at[Adder].gateway
    BY <2>1 DEF HeldKeys
  <2>7. at'[Adder].key < entry_count'
    BY <2>2, <2>4
  <2>3. QED BY <2>1, <2>2, <2>5, <2>6, <2>7 DEF HeldKeys
<1>14. CASE UNCHANGED vars
  BY <1>14 DEF vars, table, HeldKeys
<1>15. QED
  BY <1>3, <1>4, <1>5, <1>6, <1>7, <1>8, <1>9, <1>10, <1>11, <1>12, <1>13, <1>14 DEF Next

(***************************************************************************)
(* The table's maker.                                                      *)
(***************************************************************************)
LEMMA MakerStep ==
  ASSUME TypeOK, ~met => OneMaker, [Next]_vars, ~met'
  PROVE  OneMaker'
<1> USE RoutesAssumption
<1>0. at \in [Threads -> ThreadState] /\ Idle \in ThreadState
  BY ThreadTyped, IdleTyped
<1>1. ASSUME ~met, UNCHANGED <<lpm_up, lpm_mapper>>,
             \A t \in Threads : at'[t].pc \in {"create", "assign", "up"} => at'[t].pc = at[t].pc
      PROVE  OneMaker'
  BY <1>1 DEF OneMaker, InLpmInit
<1>2. ASSUME NEW t \in Threads, at'[t].pc \notin {"create", "assign", "up"},
             \A u \in Threads \ {t} : at'[u] = at[u],
             ~met, UNCHANGED <<lpm_up, lpm_mapper>>
      PROVE  OneMaker'
  BY <1>1, <1>2
<1>3. ASSUME NEW t \in Threads, NEW for \in Calls, Call(t, for) PROVE OneMaker'
  <2>1. /\ ~met /\ OneMaker /\ UNCHANGED <<lpm_up, lpm_mapper>>
        /\ \A u \in Threads \ {t} : at'[u] = at[u]
    BY <1>0, <1>3 DEF Call, lpm
  <2>2. CASE lpm_up
    <3>1. at'[t].pc = "begin"
      BY <1>0, <1>3, <2>2 DEF Call, Idle
    <3>2. QED BY <1>2, <2>1, <3>1
  <2>3. CASE ~lpm_up
    <3>1. at'[t].pc = "create"
      BY <1>0, <1>3, <2>3 DEF Call, Idle
    <3>2. \A u \in Threads \ {t} : ~InLpmInit(u)
      BY <1>3, <2>3 DEF Call
    <3>3. \A u \in Threads \ {t} : at'[u].pc \notin {"create", "assign", "up"}
      BY <2>1, <3>2 DEF InLpmInit
    <3>4. QED BY <2>1, <2>3, <3>1, <3>3 DEF OneMaker, InLpmInit
  <2>4. QED BY <2>2, <2>3
<1>4. ASSUME NEW t \in Threads, Create(t) PROVE OneMaker'
  <2>1. at[t] \in ThreadState /\ at[t].pc = "create"
    BY <1>0, <1>4 DEF Create
  <2>2. at'[t].pc = "assign" /\ \A u \in Threads \ {t} : at'[u] = at[u]
    BY <1>0, <1>4, <2>1 DEF Create, ThreadState
  <2>3. OneMaker /\ UNCHANGED <<lpm_up, lpm_mapper>>
    BY <1>4 DEF Create
  <2>4. \A u \in Threads : InLpmInit(u)' <=> InLpmInit(u)
    BY <2>1, <2>2 DEF InLpmInit
  <2>5. QED BY <2>2, <2>3, <2>4 DEF OneMaker
<1>5. ASSUME NEW t \in Threads, Assign(t) PROVE OneMaker'
  <2>1. at[t] \in ThreadState /\ at[t].pc = "assign" /\ OneMaker
    BY <1>0, <1>5 DEF Assign
  <2>2. /\ at'[t].pc \in {"up", "idle"} /\ (at'[t].pc = "up" => lpm_mapper')
        /\ \A u \in Threads \ {t} : at'[u] = at[u]
    BY <1>0, <1>5, <2>1 DEF Assign, ThreadState, Idle
  <2>3. ~lpm_up' /\ \A u \in Threads \ {t} : ~InLpmInit(u)
    BY <1>5, <2>1 DEF OneMaker, InLpmInit, Assign
  <2>4. \A u \in Threads \ {t} : at'[u].pc \notin {"create", "assign", "up"}
    BY <2>2, <2>3 DEF InLpmInit
  <2>5. QED BY <2>2, <2>3, <2>4 DEF OneMaker, InLpmInit
<1>6. ASSUME NEW t \in Threads, SetUp(t) PROVE OneMaker'
  <2>1. at[t] \in ThreadState /\ at[t].pc = "up" /\ OneMaker /\ lpm_mapper' = lpm_mapper
    BY <1>0, <1>6 DEF SetUp
  <2>2. at'[t].pc = "begin" /\ \A u \in Threads \ {t} : at'[u] = at[u]
    BY <1>0, <1>6, <2>1 DEF SetUp, ThreadState
  <2>3. lpm_mapper /\ \A u \in Threads \ {t} : ~InLpmInit(u)
    BY <2>1 DEF OneMaker, InLpmInit
  <2>4. \A u \in Threads : at'[u].pc \notin {"create", "assign", "up"}
    BY <2>2, <2>3 DEF InLpmInit
  <2>5. QED BY <2>1, <2>3, <2>4 DEF OneMaker, InLpmInit
<1>7. ASSUME NEW t \in Threads, Lost(t) PROVE OneMaker'
  <2>1. ASSUME NEW u \in Threads PROVE at'[u].pc = "dead"
    <3>1. at[u] \in ThreadState /\ at'[u] = [at[u] EXCEPT !.pc = "dead"]
      BY <1>0, <1>7 DEF Lost
    <3>2. QED BY <3>1 DEF ThreadState
  <2>2. QED BY <1>1, <1>7, <2>1 DEF Lost, lpm
<1>8. ASSUME NEW t \in Threads, NEW ip \in Addresses, Query(t, ip) PROVE OneMaker'
  <2>1. \A u \in Threads \ {t} : at'[u] = at[u]
    BY <1>0, <1>8 DEF Query
  <2>2. CASE at' = [at EXCEPT ![t] = Idle]
    BY <1>0, <1>2, <1>8, <2>1, <2>2 DEF Query, Idle, lpm
  <2>3. ASSUME NEW p \in Prefixes,
               at' = [at EXCEPT ![t] = [Idle EXCEPT !.pc = "read", !.for = "query",
                                                    !.key = rule[p], !.prefix = p]]
        PROVE  OneMaker'
    <3>1. at'[t].pc = "read"
      BY <1>0, <2>3 DEF Idle
    <3>2. QED BY <1>2, <1>8, <2>1, <3>1 DEF Query, lpm
  <2>4. QED BY <1>8, <2>2, <2>3 DEF Query, Longest, Matching
<1>9. ASSUME NEW t \in Threads, Read(t) \/ PrintRows(t) PROVE OneMaker'
  BY <1>0, <1>2, <1>9 DEF Read, PrintRows, Idle, lpm
<1>10. CASE AddFails
  BY <1>0, <1>2, <1>10 DEF AddFails, Idle, lpm
<1>11. CASE FillRow
  BY <1>0, <1>2, <1>11 DEF FillRow, Idle, lpm
<1>12. ASSUME NEW p \in Prefixes, NEW g \in Gateways, AddRule(p, g)
       PROVE  OneMaker'
  <2>1. /\ at[Adder] \in ThreadState
        /\ at'[Adder] = [at[Adder] EXCEPT !.pc = IF rule[p] # NoKey THEN "fill" ELSE "count",
                                          !.key = rule'[p],
                                          !.prefix = p, !.gateway = g]
        /\ \A u \in Threads \ {Adder} : at'[u] = at[u]
    BY <1>0, <1>12 DEF AddRule
  <2>2. at'[Adder].pc \in {"count", "fill"}
    BY <2>1 DEF ThreadState
  <2>3. QED BY <1>2, <1>12, <2>1, <2>2 DEF AddRule, lpm
<1>13. CASE CountEntry
  <2>1. /\ at'[Adder].pc = "fill" /\ \A u \in Threads \ {Adder} : at'[u] = at[u]
    BY <1>0, <1>13 DEF CountEntry, ThreadState
  <2>2. QED BY <1>2, <1>13, <2>1 DEF CountEntry, lpm
<1>14. CASE UNCHANGED vars
  BY <1>1, <1>14 DEF vars, lpm
<1>15. QED
  BY <1>3, <1>4, <1>5, <1>6, <1>7, <1>8, <1>9, <1>10, <1>11, <1>12, <1>13, <1>14 DEF Next

-----------------------------------------------------------------------------
LEMMA RoutesInit == Init => RoutesInv
<1> SUFFICES ASSUME Init PROVE RoutesInv
  OBVIOUS
<1>1. TypeOK
  BY TypeInit
<1>2. \A t \in Threads : at[t].pc = "idle"
  BY DEF Init, Idle
<1>3. \A p \in Prefixes : rule[p] = NoKey
  BY DEF Init
<1>4. RulesLeadToRows
  BY <1>3 DEF RulesLeadToRows
<1>5. HeldKeys
  BY <1>2, RoutesAssumption DEF HeldKeys
<1>6. OneMaker
  BY <1>2 DEF OneMaker, InLpmInit, Init
<1>7. QED BY <1>1, <1>4, <1>5, <1>6 DEF RoutesInv

(* Rules and rows agree, who holds a key holds its prefix's, and the table *)
(* has one maker at a time unless two threads met (all of pfm_route.c).    *)
THEOREM RoutesSafe == Spec => []RoutesInv
<1>1. RoutesInv /\ [Next]_vars => RoutesInv'
  BY TypeStep, RulesStep, HeldStep, MakerStep DEF RoutesInv
<1>2. QED BY <1>1, RoutesInit, PTL DEF Spec

(* The table is as safe as its types (pfm_route.c): no index leaves it.    *)
THEOREM RoutesTyped == Spec => []TypeOK
<1>1. RoutesInv => TypeOK
  BY DEF RoutesInv
<1>2. QED BY <1>1, RoutesSafe, PTL

(* A rule leads to a row of its own, counted, which holds its prefix and   *)
(* the route last asked for it; the row that pfm_route_add is at work on   *)
(* is the only one excepted, and is the next to be counted.                *)
THEOREM RulesSound == Spec => []RulesLeadToRows
<1>1. RoutesInv => RulesLeadToRows
  BY DEF RoutesInv
<1>2. QED BY <1>1, RoutesSafe, PTL

(* However late a worker reads through its pointer, it reads the route of  *)
(* the prefix it found (pfm_route_query, pfm_data_req).                    *)
THEOREM ReadersSound == Spec => []ReadsOwnRoute
<1>1. RoutesInv => ReadsOwnRoute
  BY DEF RoutesInv, HeldKeys, RulesLeadToRows, ReadsOwnRoute
<1>2. QED BY <1>1, RoutesSafe, PTL

(* A table that counts as up is there, unless two threads met in lpm_init. *)
THEOREM MapperSafe == Spec => []MapperSound
<1>1. RoutesInv => MapperSound
  BY DEF RoutesInv, OneMaker, MapperSound
<1>2. QED BY <1>1, RoutesSafe, PTL
=============================================================================
