-------------------------------- MODULE Routes --------------------------------
(***************************************************************************)
(* The route table (pfm_route.c): DPDK's longest-prefix-match table leads  *)
(* from a prefix to a row of route_table.  Whoever comes first makes the   *)
(* LPM table; nothing keeps two lcores from doing so at once.  One thread  *)
(* adds routes, any thread looks them up, without a lock.                  *)
(***************************************************************************)
EXTENDS Naturals

CONSTANTS
  PFM_ROUTE_LPM_MAX_ENTRIES,
  Threads, Adder,            \* the lcores, and the one that adds routes
  WIDTH,                     \* bits of an address: 32
  Gateways,                  \* gateway and link of a route
  NoGateway, NoKey

ASSUME RoutesAssumption ==
  /\ PFM_ROUTE_LPM_MAX_ENTRIES \in Nat /\ WIDTH \in Nat \ {0}
  /\ Adder \in Threads
  /\ NoGateway \notin Gateways /\ NoKey \notin Nat

VARIABLES
  lpm_made,                  \* DPDK has a table of this name
  lpm_mapper,                \* the pointer to it is not NULL
  lpm_up,
  rule,                      \* the LPM table: from prefix to key
  entry_count, route_table,
  at,                        \* where each thread is
  told,                      \* history: the last route asked for each prefix
  met                        \* history: two threads were in lpm_init at once

lpm == <<lpm_made, lpm_mapper, lpm_up>>
table == <<rule, entry_count, route_table>>
vars == <<lpm, table, at, told, met>>

Addresses == 0 .. 2 ^ WIDTH - 1
Keys == 0 .. PFM_ROUTE_LPM_MAX_ENTRIES - 1
Prefixes == UNION {[net : 0 .. 2 ^ d - 1, depth : {d}] : d \in 1 .. WIDTH}
Prefix(ip, depth) == [net |-> ip \div 2 ^ (WIDTH - depth), depth |-> depth]
NoPrefix == [net |-> 0, depth |-> 0]

(* A thread at work: what it does next, and on what.                       *)
Idle == [pc |-> "idle", for |-> "none", ptr |-> FALSE, key |-> NoKey, prefix |-> NoPrefix,
         gateway |-> NoGateway]
Calls == {"query", "add", "print"}

Init ==
  /\ lpm_made = FALSE /\ lpm_mapper = FALSE /\ lpm_up = FALSE
  /\ rule = [p \in Prefixes |-> NoKey]
  /\ entry_count = 0
  /\ route_table = [k \in Keys |-> [prefix |-> NoPrefix, gateway |-> NoGateway]]
  /\ at = [t \in Threads |-> Idle]
  /\ told = [p \in Prefixes |-> NoGateway]
  /\ met = FALSE

-----------------------------------------------------------------------------
(* The beginning of pfm_route_add, pfm_route_query and pfm_route_print.    *)
InLpmInit(t) == at[t].pc \in {"create", "assign", "up"}

Call(t, for) ==
  /\ at[t].pc = "idle"
  /\ for = "add" => t = Adder
  /\ at' = [at EXCEPT ![t] = [Idle EXCEPT !.pc = IF lpm_up THEN "begin" ELSE "create",
                                          !.for = for]]
  /\ met' = (met \/ (~lpm_up /\ \E u \in Threads \ {t} : InLpmInit(u)))
  /\ UNCHANGED <<lpm, table, told>>

(* rte_lpm_create returns NULL if there is a table of this name, or no     *)
(* memory.                                                                 *)
Create(t) ==
  /\ at[t].pc = "create"
  /\ \E made \in {FALSE, ~lpm_made} :
       /\ lpm_made' = (lpm_made \/ made)
       /\ at' = [at EXCEPT ![t] = [@ EXCEPT !.pc = "assign", !.ptr = made]]
  /\ UNCHANGED <<lpm_mapper, lpm_up, table, told, met>>

(* Mutant: the pointer is not looked at.                                   *)
Assign_Unchecked(t) ==
  /\ at[t].pc = "assign"
  /\ lpm_mapper' = at[t].ptr
  /\ at' = [at EXCEPT ![t].pc = "up"]
  /\ UNCHANGED <<lpm_made, lpm_up, table, told, met>>

Assign(t) ==
  /\ at[t].pc = "assign"
  /\ lpm_mapper' = at[t].ptr
  /\ at' = [at EXCEPT ![t] = IF at[t].ptr THEN [@ EXCEPT !.pc = "up"] ELSE Idle]
  /\ UNCHANGED <<lpm_made, lpm_up, table, told, met>>

SetUp(t) ==
  /\ at[t].pc = "up"
  /\ lpm_up' = TRUE
  /\ at' = [at EXCEPT ![t].pc = "begin"]
  /\ UNCHANGED <<lpm_made, lpm_mapper, table, told, met>>

-----------------------------------------------------------------------------
(* With a NULL table a query dereferences it, and an addition takes the    *)
(* error for a rule and writes to a row nobody chose: the program is lost. *)
Lost(t) ==
  /\ at[t].pc = "begin" /\ ~lpm_mapper /\ at[t].for # "print"
  /\ at' = [u \in Threads |-> [at[u] EXCEPT !.pc = "dead"]]
  /\ UNCHANGED <<lpm, table, told, met>>

(* pfm_route_add: a rule of the LPM table keeps its key, a new one gets    *)
(* the next.  There may be no room for it, in our table or in DPDK's.      *)
AddRule(p, g) ==
  LET known == rule[p] # NoKey
  IN  /\ at[Adder].pc = "begin" /\ at[Adder].for = "add" /\ lpm_mapper
      /\ known \/ entry_count < PFM_ROUTE_LPM_MAX_ENTRIES
      /\ rule' = [rule EXCEPT ![p] = IF known THEN @ ELSE entry_count]
      /\ at' = [at EXCEPT ![Adder] = [@ EXCEPT !.pc = IF known THEN "fill" ELSE "count",
                                               !.key = rule'[p],
                                               !.prefix = p, !.gateway = g]]
      /\ told' = [told EXCEPT ![p] = g]
      /\ UNCHANGED <<lpm, entry_count, route_table, met>>

(* The rule is there, and found by others, before its row is counted.      *)
(* Mutant: the entry is not counted.                                       *)
CountEntry_Forgotten ==
  /\ at[Adder].pc = "count"
  /\ at' = [at EXCEPT ![Adder].pc = "fill"]
  /\ UNCHANGED <<lpm, table, told, met>>

CountEntry ==
  /\ at[Adder].pc = "count"
  /\ entry_count' = entry_count + 1
  /\ at' = [at EXCEPT ![Adder].pc = "fill"]
  /\ UNCHANGED <<lpm, rule, route_table, told, met>>

AddFails ==
  /\ at[Adder].pc = "begin" /\ at[Adder].for = "add" /\ lpm_mapper
  /\ at' = [at EXCEPT ![Adder] = Idle]
  /\ UNCHANGED <<lpm, table, told, met>>

(* The row is filled after the rule leads to it.                           *)
(* Mutant: a rule that is there already keeps its route.                   *)
FillRow_KeepsOld ==
  /\ at[Adder].pc = "fill"
  /\ route_table' = [route_table EXCEPT ![at[Adder].key] =
       IF @.prefix # NoPrefix THEN @
       ELSE [prefix |-> at[Adder].prefix, gateway |-> at[Adder].gateway]]
  /\ at' = [at EXCEPT ![Adder] = Idle]
  /\ UNCHANGED <<lpm, rule, entry_count, told, met>>

FillRow ==
  /\ at[Adder].pc = "fill"
  /\ route_table' = [route_table EXCEPT ![at[Adder].key] =
                       [prefix |-> at[Adder].prefix, gateway |-> at[Adder].gateway]]
  /\ at' = [at EXCEPT ![Adder] = Idle]
  /\ UNCHANGED <<lpm, rule, entry_count, told, met>>

-----------------------------------------------------------------------------
(* rte_lpm_lookup: among the rules the address matches, the longest.       *)
Matching(ip) == {p \in Prefixes : rule[p] # NoKey /\ Prefix(ip, p.depth) = p}
Longest(ip) == {p \in Matching(ip) : \A q \in Matching(ip) : q.depth <= p.depth}

(* pfm_route_query returns the row, which its caller then reads.           *)
Query(t, ip) ==
  /\ at[t].pc = "begin" /\ at[t].for = "query" /\ lpm_mapper
  /\ \/ Matching(ip) = {} /\ at' = [at EXCEPT ![t] = Idle]
     \/ \E p \in Longest(ip) :
          at' = [at EXCEPT ![t] = [Idle EXCEPT !.pc = "read", !.for = "query",
                                               !.key = rule[p], !.prefix = p]]
  /\ UNCHANGED <<lpm, table, told, met>>

Read(t) ==
  /\ at[t].pc = "read"
  /\ at' = [at EXCEPT ![t] = Idle]
  /\ UNCHANGED <<lpm, table, told, met>>

(* pfm_route_print: the rows up to entry_count.                            *)
PrintRows(t) ==
  /\ at[t].pc = "begin" /\ at[t].for = "print"
  /\ at' = [at EXCEPT ![t] = Idle]
  /\ UNCHANGED <<lpm, table, told, met>>

Next ==
  \/ \E t \in Threads : \/ \E for \in Calls : Call(t, for)
                        \/ Create(t) \/ Assign(t) \/ SetUp(t) \/ Lost(t)
                        \/ \E ip \in Addresses : Query(t, ip)
                        \/ Read(t) \/ PrintRows(t)
  \/ \E p \in Prefixes, g \in Gateways : AddRule(p, g)
  \/ AddFails \/ CountEntry \/ FillRow

Spec == Init /\ [][Next]_vars

-----------------------------------------------------------------------------
TypeOK ==
  /\ lpm_made \in BOOLEAN /\ lpm_mapper \in BOOLEAN /\ lpm_up \in BOOLEAN /\ met \in BOOLEAN
  /\ rule \in [Prefixes -> Keys \union {NoKey}]
  /\ entry_count \in 0 .. PFM_ROUTE_LPM_MAX_ENTRIES
  /\ route_table \in [Keys -> [prefix : Prefixes \union {NoPrefix},
                               gateway : Gateways \union {NoGateway}]]
  /\ at \in [Threads -> [pc : {"idle", "create", "assign", "up", "begin", "count", "fill",
                               "read", "dead"},
                         for : Calls \union {"none"}, ptr : BOOLEAN,
                         key : Keys \union {NoKey}, prefix : Prefixes \union {NoPrefix},
                         gateway : Gateways \union {NoGateway}]]
  /\ told \in [Prefixes -> Gateways \union {NoGateway}]

(* The LPM table and the rows agree, whoever looks and whenever: a rule    *)
(* leads to a row of its own, which holds the prefix of the rule and the   *)
(* route last asked for it, and which is counted.  Only the row that       *)
(* pfm_route_add is at work on is excepted: its rule is there before it is *)
(* counted and before it is filled, and it is the next to be counted       *)
(* (pfm_route.c:71-108).                                                   *)
Filling(k) == at[Adder].pc \in {"count", "fill", "dead"} /\ at[Adder].key = k

RulesLeadToRows ==
  /\ \A p \in Prefixes : rule[p] # NoKey =>
       rule[p] < entry_count \/ (Filling(rule[p]) /\ rule[p] = entry_count)
  /\ \A p, q \in Prefixes : rule[p] = rule[q] /\ rule[p] # NoKey => p = q
  /\ \A p \in Prefixes : rule[p] # NoKey /\ ~Filling(rule[p]) =>
       route_table[rule[p]] = [prefix |-> p, gateway |-> told[p]]

(* What a worker reads through the pointer it got is the route of the      *)
(* longest prefix there was when it looked, however late it reads, as long *)
(* as that route is not being changed (pfm_route.c:128-146,                *)
(* pfm_worker_loop.c:240-246).                                             *)
ReadsOwnRoute ==
  \A t \in Threads : at[t].pc = "read" /\ ~Filling(at[t].key) =>
    route_table[at[t].key] = [prefix |-> at[t].prefix, gateway |-> told[at[t].prefix]]

(* Only two lcores in lpm_init at once can leave a NULL pointer behind in  *)
(* a table that counts as up: alone, it makes one table or, if that fails, *)
(* lets a later call try again (pfm_route.c:25-49).                        *)
MapperSound == lpm_up /\ ~met => lpm_mapper
=============================================================================
