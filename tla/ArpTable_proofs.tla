--------------------------- MODULE ArpTable_proofs ---------------------------
(***************************************************************************)
(* Theorems about the ARP table for every number of rows, addresses and    *)
(* workers.  Liveness is left to TLC.                                      *)
(***************************************************************************)
EXTENDS ArpTable, TLAPS

(* The types of the parts, by name.                                        *)
RxState == [pc : {"idle", "added", "filled", "deleted"}, ip : Ips \union {NoIp},
            pos : Positions \union {NoPos}, mac : Macs \union {NoMac}]
ReaderState == [pc : {"idle", "found", "read"}, ip : Ips \union {NoIp},
                pos : Positions \union {NoPos}, mac : Macs \union {NoMac}, clean : BOOLEAN]

Pointing == \A w \in Workers : reader[w].pc # "idle" => reader[w].pos \in Positions

Types ==
  /\ hash \in [Ips -> Positions \union {NoPos}]
  /\ free \in Seq(Positions)
  /\ row \in [Positions -> Row]
  /\ rx \in RxState
  /\ reader \in [Workers -> ReaderState] /\ Pointing
  /\ told \in [Ips -> SUBSET Macs]
  /\ asked \in [Ips -> 0 .. 2]

Used(p) == \E ip \in Ips : hash[ip] = p

(* The hash: an address has a position of its own, and the free positions  *)
(* are the others, each once.                                              *)
HashSound ==
  /\ \A ip, jp \in Ips : hash[ip] = hash[jp] /\ hash[ip] # NoPos => ip = jp
  /\ \A i, j \in 1 .. Len(free) : free[i] = free[j] => i = j
  /\ \A p \in Positions : (\E i \in 1 .. Len(free) : free[i] = p) <=> ~Used(p)

(* The rows, all but the one the receive loop is at work on.               *)
Holds(p, ip) ==
  /\ row[p].dst_ip_addr = ip /\ row[p].armed
  /\ told[ip] = {row[p].mac_addr} /\ asked[ip] = row[p].try_count

RowsSound ==
  \A p \in Positions \ {rx.pos} :
    /\ \A ip \in Ips : hash[ip] = p => Holds(p, ip)
    /\ ~Used(p) => row[p] = EmptyRow

(* That one: it has the key already, or no longer.                         *)
RxSound ==
  /\ rx.pc = "idle" => rx.pos = NoPos
  /\ rx.pc # "idle" => rx.pos \in Positions
  /\ rx.pc \in {"added", "filled"} =>
       /\ rx.ip \in Ips /\ hash[rx.ip] = rx.pos
       /\ told[rx.ip] = {rx.mac} /\ asked[rx.ip] = 0
  /\ rx.pc = "filled" =>
       /\ row[rx.pos].dst_ip_addr = rx.ip /\ row[rx.pos].mac_addr = rx.mac
       /\ row[rx.pos].try_count = 0
  /\ rx.pc = "deleted" => ~Used(rx.pos)

(* A worker nobody has disturbed holds a row whose address still has it.   *)
ReaderSound(w) ==
  reader[w].clean /\ reader[w].pc # "idle" =>
    /\ reader[w].ip \in Ips /\ reader[w].pos \in Positions
    /\ hash[reader[w].ip] = reader[w].pos /\ reader[w].pos # rx.pos
    /\ reader[w].pc = "read" => reader[w].mac \in told[reader[w].ip]

ReadersSound == \A w \in Workers : ReaderSound(w)

ArpInv == Types /\ HashSound /\ RowsSound /\ RxSound /\ ReadersSound

-----------------------------------------------------------------------------
(***************************************************************************)
(* What the proof needs of records and sequences.                          *)
(***************************************************************************)
LEMMA Constants ==
  /\ PFM_ARP_TABLE_ENTRIES \in Nat /\ Positions \subseteq Nat
  /\ NoPos \notin Positions /\ NoIp \notin Ips /\ NoMac \notin Macs
BY EntriesAssumption, NoneAssumption DEF Positions

LEMMA Blank == EmptyRow \in Row /\ ~EmptyRow.armed
BY DEF EmptyRow, Row

LEMMA IdleStates == RxIdle \in RxState /\ ReaderIdle \in ReaderState
BY DEF RxIdle, ReaderIdle, RxState, ReaderState

LEMMA Popped ==
  ASSUME NEW S, NEW s \in Seq(S), s # <<>>
  PROVE  /\ Head(s) = s[1] /\ s[1] \in S /\ 1 <= Len(s) /\ Len(s) \in Nat
         /\ Tail(s) \in Seq(S) /\ Len(Tail(s)) = Len(s) - 1
         /\ \A i \in 1 .. Len(s) - 1 : Tail(s)[i] = s[i + 1]
OBVIOUS

LEMMA Pushed ==
  ASSUME NEW S, NEW s \in Seq(S), NEW e \in S
  PROVE  /\ Append(s, e) \in Seq(S) /\ Len(Append(s, e)) = Len(s) + 1 /\ Len(s) \in Nat
         /\ \A i \in 1 .. Len(s) : Append(s, e)[i] = s[i]
         /\ Append(s, e)[Len(s) + 1] = e
OBVIOUS

LEMMA Updated ==
  ASSUME NEW D, NEW R, NEW f \in [D -> R], NEW d \in D, NEW e \in R
  PROVE  /\ [f EXCEPT ![d] = e] \in [D -> R]
         /\ [f EXCEPT ![d] = e][d] = e
         /\ \A c \in D \ {d} : [f EXCEPT ![d] = e][c] = f[c]
OBVIOUS

(* A worker that is still undisturbed held another position all along.     *)
LEMMA Undisturbed ==
  ASSUME Types, NEW p, Disturb(p)
  PROVE  /\ reader' \in [Workers -> ReaderState] /\ Pointing'
         /\ \A w \in Workers : reader'[w].clean => reader'[w] = reader[w] /\ reader[w].pos # p
<1>1. ASSUME NEW w \in Workers
      PROVE  /\ reader'[w] \in ReaderState
             /\ reader'[w].pc = reader[w].pc /\ reader'[w].pos = reader[w].pos
             /\ reader'[w].clean => reader'[w] = reader[w] /\ reader[w].pos # p
  <2>1. /\ reader[w] \in ReaderState
        /\ reader'[w] = IF reader[w].pos = p THEN [reader[w] EXCEPT !.clean = FALSE]
                        ELSE reader[w]
    BY DEF Types, Disturb
  <2>2. CASE reader[w].pos = p
    <3>1. [reader[w] EXCEPT !.clean = FALSE] \in ReaderState
      BY <2>1 DEF ReaderState
    <3>2. LET r == [reader[w] EXCEPT !.clean = FALSE]
          IN  ~r.clean /\ r.pc = reader[w].pc /\ r.pos = reader[w].pos
      BY <2>1 DEF ReaderState
    <3>3. QED BY <2>1, <2>2, <3>1, <3>2
  <2>3. CASE reader[w].pos # p
    BY <2>1, <2>3
  <2>4. QED BY <2>2, <2>3
<1>2. reader' = [w \in Workers |-> reader'[w]]
  BY Zenon DEF Disturb
<1>3. Pointing'
  BY <1>1 DEF Types, Pointing
<1>4. QED BY <1>1, <1>2, <1>3

-----------------------------------------------------------------------------
LEMMA InitArp == Init => ArpInv
<1> SUFFICES ASSUME Init PROVE ArpInv
  OBVIOUS
<1>1. Types
  <2>1. free \in Seq(Positions)
    BY EntriesAssumption DEF Init, Positions
  <2>2. row \in [Positions -> Row]
    BY Blank DEF Init
  <2>3. rx \in RxState /\ reader \in [Workers -> ReaderState] /\ Pointing
    BY IdleStates DEF Init, Pointing, ReaderIdle
  <2>4. hash \in [Ips -> Positions \union {NoPos}] /\ told \in [Ips -> SUBSET Macs]
        /\ asked \in [Ips -> 0 .. 2]
    BY DEF Init
  <2>5. QED BY <2>1, <2>2, <2>3, <2>4 DEF Types
<1>2. HashSound
  <2>1. \A ip \in Ips : hash[ip] = NoPos
    BY DEF Init
  <2>2. \A p \in Positions : ~Used(p)
    BY <2>1, Constants DEF Used
  <2>3. Len(free) = PFM_ARP_TABLE_ENTRIES /\ \A i \in Positions : free[i] = i
    BY EntriesAssumption DEF Init, Positions
  <2>4. QED BY <2>1, <2>2, <2>3 DEF HashSound, Positions
<1>3. RowsSound
  <2>1. \A ip \in Ips : hash[ip] = NoPos
    BY DEF Init
  <2>2. QED BY <2>1, Constants DEF Init, RowsSound
<1>4. RxSound
  BY DEF Init, RxSound, RxIdle
<1>5. ReadersSound
  BY DEF Init, ReadersSound, ReaderSound, ReaderIdle
<1>6. QED BY <1>1, <1>2, <1>3, <1>4, <1>5 DEF ArpInv

LEMMA ReplyAddStep ==
  ASSUME ArpInv, NEW ip \in Ips, NEW m \in Macs, ReplyAdd(ip, m)
  PROVE  ArpInv'
<1>p. PICK p : p = IF hash[ip] = NoPos THEN Head(free) ELSE hash[ip]
  OBVIOUS
<1>0. Types /\ HashSound /\ RowsSound /\ RxSound /\ ReadersSound
  BY DEF ArpInv
<1>1. /\ rx.pc = "idle" /\ (hash[ip] # NoPos \/ free # <<>>)
      /\ hash' = [hash EXCEPT ![ip] = p]
      /\ free' = IF hash[ip] = NoPos THEN Tail(free) ELSE free
      /\ rx' = [pc |-> "added", ip |-> ip, pos |-> p, mac |-> m]
      /\ told' = [told EXCEPT ![ip] = {m}] /\ asked' = [asked EXCEPT ![ip] = 0]
      /\ Disturb(p) /\ row' = row
  BY <1>p DEF ReplyAdd
<1>2. /\ hash \in [Ips -> Positions \union {NoPos}] /\ free \in Seq(Positions)
      /\ told \in [Ips -> SUBSET Macs] /\ asked \in [Ips -> 0 .. 2] /\ Len(free) \in Nat
  BY <1>0 DEF Types
<1>3. /\ p \in Positions /\ free' \in Seq(Positions)
      /\ hash[ip] = NoPos => p = free[1] /\ 1 \in 1 .. Len(free)
  <2>1. CASE hash[ip] = NoPos
    BY <1>p, <1>1, <1>2, <2>1, Popped
  <2>2. CASE hash[ip] # NoPos
    BY <1>p, <1>1, <1>2, <2>2
  <2>3. QED BY <2>1, <2>2
<1>4. hash[ip] = NoPos => ~Used(p)
  BY <1>0, <1>3 DEF HashSound
<1>5. /\ hash'[ip] = p /\ \A jp \in Ips \ {ip} : hash'[jp] = hash[jp]
      /\ told'[ip] = {m} /\ \A jp \in Ips \ {ip} : told'[jp] = told[jp]
      /\ asked'[ip] = 0 /\ \A jp \in Ips \ {ip} : asked'[jp] = asked[jp]
  BY <1>1, <1>2
<1>6. \A jp \in Ips \ {ip} : hash[jp] # p
  BY <1>0, <1>p, <1>3, <1>4, Constants DEF HashSound, Used
<1>7. \A q \in Positions \ {p} : Used(q)' <=> Used(q)
  <2>1. \A q \in Positions \ {p} : hash[ip] # q
    BY <1>p, Constants
  <2>2. QED BY <1>5, <2>1 DEF Used
<1>8. Types'
  <2>1. rx' \in RxState
    BY <1>1, <1>3 DEF RxState
  <2>2. reader' \in [Workers -> ReaderState] /\ Pointing'
    BY <1>0, <1>1, Undisturbed
  <2>3. hash' \in [Ips -> Positions \union {NoPos}] /\ told' \in [Ips -> SUBSET Macs]
        /\ asked' \in [Ips -> 0 .. 2]
    BY <1>1, <1>2, <1>3
  <2>4. QED BY <1>0, <1>1, <1>3, <2>1, <2>2, <2>3 DEF Types
<1>9. HashSound'
  <2>1. \A jp, kp \in Ips : hash'[jp] = hash'[kp] /\ hash'[jp] # NoPos => jp = kp
    BY <1>0, <1>5, <1>6 DEF HashSound
  <2>2. CASE hash[ip] # NoPos
    <3>1. p = hash[ip] /\ free' = free
      BY <1>p, <1>1, <2>2
    <3>2. Used(p) /\ Used(p)'
      BY <1>5, <3>1 DEF Used
    <3>3. QED BY <1>0, <1>7, <2>1, <3>1, <3>2 DEF HashSound
  <2>3. CASE hash[ip] = NoPos
    <3>1. /\ free' = Tail(free) /\ Len(free') = Len(free) - 1
          /\ \A i \in 1 .. Len(free) - 1 : free'[i] = free[i + 1]
          /\ p = free[1]
      BY <1>p, <1>1, <1>2, <1>3, <2>3, Popped
    <3>2. \A i, j \in 1 .. Len(free') : free'[i] = free'[j] => i = j
      BY <1>0, <1>2, <3>1 DEF HashSound
    <3>3. Used(p)'
      BY <1>5 DEF Used
    <3>4. \A i \in 1 .. Len(free') : free'[i] # p
      BY <1>0, <1>2, <3>1 DEF HashSound
    <3>5. ASSUME NEW q \in Positions \ {p}
          PROVE  (\E i \in 1 .. Len(free') : free'[i] = q) <=> (\E i \in 1 .. Len(free) : free[i] = q)
      <4>1. ASSUME NEW i \in 1 .. Len(free), free[i] = q
            PROVE  \E j \in 1 .. Len(free') : free'[j] = q
        <5>1. i # 1 /\ i - 1 \in 1 .. Len(free) - 1 /\ free'[i - 1] = free[(i - 1) + 1]
          BY <1>2, <3>1, <4>1
        <5>2. free'[i - 1] = q /\ i - 1 \in 1 .. Len(free')
          BY <1>2, <3>1, <4>1, <5>1
        <5>3. QED BY <5>2
      <4>2. ASSUME NEW i \in 1 .. Len(free'), free'[i] = q
            PROVE  \E j \in 1 .. Len(free) : free[j] = q
        <5>1. i + 1 \in 1 .. Len(free) /\ free[i + 1] = q
          BY <1>2, <3>1, <4>2
        <5>2. QED BY <5>1
      <4>3. QED BY <4>1, <4>2
    <3>6. QED BY <1>0, <1>7, <2>1, <3>2, <3>3, <3>4, <3>5 DEF HashSound
  <2>4. QED BY <2>2, <2>3
<1>10. RowsSound'
  <2> SUFFICES ASSUME NEW q \in Positions \ {p}
               PROVE  /\ \A jp \in Ips : hash'[jp] = q => Holds(q, jp)'
                      /\ ~Used(q)' => row'[q] = EmptyRow
    BY <1>1 DEF RowsSound
  <2>1. rx.pos = NoPos /\ q # rx.pos
    BY <1>0, <1>1, Constants DEF RxSound
  <2>2. ASSUME NEW jp \in Ips, hash'[jp] = q PROVE Holds(q, jp)'
    <3>1. jp # ip
      BY <1>5, <2>2
    <3>2. Holds(q, jp)
      BY <1>0, <1>5, <2>1, <2>2, <3>1 DEF RowsSound
    <3>3. QED BY <1>1, <1>5, <3>1, <3>2 DEF Holds
  <2>3. QED BY <1>0, <1>1, <1>7, <2>1, <2>2 DEF RowsSound
<1>11. RxSound'
  BY <1>1, <1>3, <1>5 DEF RxSound
<1>12. ReadersSound'
  <2> SUFFICES ASSUME NEW w \in Workers, reader'[w].clean, reader'[w].pc # "idle"
               PROVE  /\ reader'[w].ip \in Ips /\ reader'[w].pos \in Positions
                      /\ hash'[reader'[w].ip] = reader'[w].pos /\ reader'[w].pos # rx'.pos
                      /\ reader'[w].pc = "read" => reader'[w].mac \in told'[reader'[w].ip]
    BY DEF ReadersSound, ReaderSound
  <2>1. reader'[w] = reader[w] /\ reader[w].pos # p
    BY <1>0, <1>1, Undisturbed
  <2>2. /\ reader[w].ip \in Ips /\ reader[w].pos \in Positions
        /\ hash[reader[w].ip] = reader[w].pos
        /\ reader[w].pc = "read" => reader[w].mac \in told[reader[w].ip]
    BY <1>0, <2>1 DEF ReadersSound, ReaderSound
  <2>3. reader[w].ip # ip
    BY <1>p, <2>1, <2>2, Constants
  <2>4. QED BY <1>1, <1>5, <2>1, <2>2, <2>3
<1>13. QED BY <1>8, <1>9, <1>10, <1>11, <1>12 DEF ArpInv

(***************************************************************************)
(* A step of the receive loop on the row at rx.pos that leaves the hash    *)
(* alone: no other row, no address and no other worker notices.            *)
(***************************************************************************)
LEMMA RowStep ==
  ASSUME ArpInv, rx.pos \in Positions, NEW e \in Row,
         row' = [row EXCEPT ![rx.pos] = e],
         rx' \in RxState, RxSound',
         rx'.pos = rx.pos
           \/ /\ rx'.pos = NoPos
              /\ \A ip \in Ips : hash[ip] = rx.pos =>
                   /\ e.dst_ip_addr = ip /\ e.armed
                   /\ told[ip] = {e.mac_addr} /\ asked[ip] = e.try_count
              /\ ~Used(rx.pos) => e = EmptyRow,
         Disturb(rx.pos) \/ reader' = reader,
         UNCHANGED <<hash, free, told, asked>>
  PROVE  ArpInv'
<1>0. Types /\ HashSound /\ RowsSound /\ ReadersSound
  BY DEF ArpInv
<1>1. /\ row' \in [Positions -> Row] /\ row'[rx.pos] = e
      /\ \A p \in Positions \ {rx.pos} : row'[p] = row[p]
  BY <1>0, Updated DEF Types
<1>2. /\ reader' \in [Workers -> ReaderState] /\ Pointing'
      /\ \A w \in Workers : reader'[w].clean => reader'[w] = reader[w]
  BY <1>0, Undisturbed DEF Types, Pointing
<1>3. Types'
  BY <1>0, <1>1, <1>2 DEF Types
<1>4. HashSound'
  BY <1>0 DEF HashSound, Used
<1>5. RowsSound'
  <2> SUFFICES ASSUME NEW p \in Positions \ {rx'.pos}
               PROVE  /\ \A ip \in Ips : hash[ip] = p => Holds(p, ip)'
                      /\ ~Used(p) => row'[p] = EmptyRow
    BY DEF RowsSound, Used
  <2>1. CASE p = rx.pos
    BY <1>1, <2>1 DEF Holds
  <2>2. CASE p # rx.pos
    BY <1>0, <1>1, <2>2 DEF RowsSound, Holds
  <2>3. QED BY <2>1, <2>2
<1>6. ReadersSound'
  <2> SUFFICES ASSUME NEW w \in Workers, reader'[w].clean, reader'[w].pc # "idle"
               PROVE  /\ reader'[w].ip \in Ips /\ reader'[w].pos \in Positions
                      /\ hash[reader'[w].ip] = reader'[w].pos /\ reader'[w].pos # rx'.pos
                      /\ reader'[w].pc = "read" => reader'[w].mac \in told[reader'[w].ip]
    BY DEF ReadersSound, ReaderSound
  <2>1. reader'[w] = reader[w]
    BY <1>2
  <2>2. ReaderSound(w)
    BY <1>0 DEF ReadersSound
  <2>3. QED BY <2>1, <2>2, Constants DEF ReaderSound
<1>7. QED BY <1>3, <1>4, <1>5, <1>6 DEF ArpInv

LEMMA ReplyFillStep ==
  ASSUME ArpInv, ReplyFill
  PROVE  ArpInv'
<1> DEFINE e == [dst_ip_addr |-> rx.ip, mac_addr |-> rx.mac, try_count |-> 0,
                 armed |-> row[rx.pos].armed]
<1>0. Types /\ RxSound
  BY DEF ArpInv
<1>1. /\ rx.pc = "added" /\ row' = [row EXCEPT ![rx.pos] = e]
      /\ rx' = [rx EXCEPT !.pc = "filled"] /\ Disturb(rx.pos)
      /\ UNCHANGED <<hash, free, told, asked>>
  BY Zenon DEF ReplyFill
<1>2. /\ rx \in RxState /\ rx.pos \in Positions /\ rx.ip \in Ips /\ told[rx.ip] = {rx.mac}
      /\ hash[rx.ip] = rx.pos /\ asked[rx.ip] = 0
      /\ row \in [Positions -> Row] /\ row[rx.pos] \in Row
  BY <1>0, <1>1 DEF RxSound, Types
<1>3. rx.mac \in Macs
  BY <1>0, <1>2 DEF Types
<1>4. e \in Row /\ e.dst_ip_addr = rx.ip /\ e.mac_addr = rx.mac /\ e.try_count = 0
  <2>1. row[rx.pos].armed \in BOOLEAN
    BY <1>2, Zenon DEF Row
  <2>2. QED BY <1>2, <1>3, <2>1 DEF Row
<1> HIDE DEF e
<1>5. /\ rx' \in RxState /\ rx'.pc = "filled" /\ rx'.pos = rx.pos
      /\ rx'.ip = rx.ip /\ rx'.mac = rx.mac
  BY <1>1, <1>2 DEF RxState
<1>6. row'[rx.pos] = e
  BY <1>1, <1>2
<1>7. RxSound'
  BY <1>1, <1>2, <1>4, <1>5, <1>6 DEF RxSound
<1>8. QED BY <1>1, <1>2, <1>4, <1>5, <1>7, RowStep

LEMMA ReplyArmStep ==
  ASSUME ArpInv, ReplyArm
  PROVE  ArpInv'
<1> DEFINE e == [row[rx.pos] EXCEPT !.armed = TRUE]
<1>0. Types /\ RxSound /\ HashSound
  BY DEF ArpInv
<1>1. /\ rx.pc = "filled" /\ rx' = RxIdle
      /\ UNCHANGED <<hash, free, reader, told, asked>>
  BY DEF ReplyArm
<1>2. /\ rx.pos \in Positions /\ rx.ip \in Ips /\ told[rx.ip] = {rx.mac}
      /\ hash[rx.ip] = rx.pos /\ asked[rx.ip] = 0
      /\ row \in [Positions -> Row] /\ row[rx.pos] \in Row
      /\ row[rx.pos].dst_ip_addr = rx.ip /\ row[rx.pos].mac_addr = rx.mac
      /\ row[rx.pos].try_count = 0
  BY <1>0, <1>1 DEF RxSound, Types
<1>3. /\ e \in Row /\ e.armed /\ e.dst_ip_addr = rx.ip /\ e.mac_addr = rx.mac
      /\ e.try_count = 0
  BY <1>2 DEF Row
<1>4. row' = [row EXCEPT ![rx.pos] = e]
  BY <1>2 DEF ReplyArm
<1> HIDE DEF e
<1>6. ASSUME NEW ip \in Ips, hash[ip] = rx.pos
      PROVE  /\ e.dst_ip_addr = ip /\ e.armed
             /\ told[ip] = {e.mac_addr} /\ asked[ip] = e.try_count
  <2>1. ip = rx.ip
    BY <1>0, <1>2, <1>6, Constants DEF HashSound
  <2>2. QED BY <1>2, <1>3, <2>1
<1>7. RxSound' /\ rx' \in RxState /\ rx'.pos = NoPos
  BY <1>1, IdleStates DEF RxSound, RxIdle
<1>8. Used(rx.pos)
  BY <1>2 DEF Used
<1>9. QED BY <1>1, <1>2, <1>3, <1>4, <1>6, <1>7, <1>8, RowStep

LEMMA ClearStep ==
  ASSUME ArpInv, Clear
  PROVE  ArpInv'
<1>0. Types /\ RxSound
  BY DEF ArpInv
<1>1. /\ rx.pc = "deleted" /\ row' = [row EXCEPT ![rx.pos] = EmptyRow]
      /\ rx' = RxIdle /\ Disturb(rx.pos)
      /\ UNCHANGED <<hash, free, told, asked>>
  BY DEF Clear
<1>2. rx.pos \in Positions /\ ~Used(rx.pos)
  BY <1>0, <1>1 DEF RxSound
<1>3. RxSound' /\ rx' \in RxState /\ rx'.pos = NoPos
  BY <1>1, IdleStates DEF RxSound, RxIdle
<1>4. \A ip \in Ips : hash[ip] # rx.pos
  BY <1>2 DEF Used
<1>5. QED BY <1>1, <1>2, <1>3, <1>4, Blank, RowStep

(***************************************************************************)
(* A timer that is due belongs to the row of an address in the table.      *)
(***************************************************************************)
LEMMA DueRow ==
  ASSUME ArpInv, NEW p \in Positions, Due(p)
  PROVE  /\ rx.pos = NoPos /\ rx.pc = "idle" /\ row[p] \in Row
         /\ row[p].dst_ip_addr \in Ips /\ hash[row[p].dst_ip_addr] = p
         /\ Holds(p, row[p].dst_ip_addr)
         /\ \A ip \in Ips : hash[ip] = p => ip = row[p].dst_ip_addr
<1>0. Types /\ HashSound /\ RowsSound /\ RxSound
  BY DEF ArpInv
<1>1. rx.pos = NoPos /\ rx.pc = "idle" /\ row[p].armed /\ row[p] \in Row
  BY <1>0 DEF Due, RxSound, Types
<1>2. p # rx.pos
  BY <1>1, Constants
<1>3. row[p] # EmptyRow
  BY <1>1, Blank
<1>4. Used(p)
  BY <1>0, <1>2, <1>3 DEF RowsSound
<1>5. PICK ip \in Ips : hash[ip] = p
  BY <1>4 DEF Used
<1>6. Holds(p, ip)
  BY <1>0, <1>2, <1>5 DEF RowsSound
<1>7. row[p].dst_ip_addr = ip
  BY <1>6 DEF Holds
<1>8. \A jp \in Ips : hash[jp] = p => jp = ip
  BY <1>0, <1>5, Constants DEF HashSound
<1>9. QED BY <1>1, <1>5, <1>6, <1>7, <1>8

LEMMA RefreshStep ==
  ASSUME ArpInv, NEW p \in Positions, Refresh(p)
  PROVE  ArpInv'
<1> DEFINE e == [row[p] EXCEPT !.try_count = @ + 1]
<1>p. PICK ip : ip = row[p].dst_ip_addr
  OBVIOUS
<1>0. Types /\ HashSound /\ RowsSound /\ RxSound /\ ReadersSound
  BY DEF ArpInv
<1>1. /\ Due(p) /\ row[p].try_count < 2 /\ asked' = [asked EXCEPT ![ip] = @ + 1]
      /\ UNCHANGED <<hash, free, rx, reader, told>>
  BY <1>p DEF Refresh
<1>2. /\ rx.pos = NoPos /\ rx.pc = "idle" /\ row[p] \in Row /\ ip \in Ips /\ hash[ip] = p
      /\ Holds(p, ip) /\ \A jp \in Ips : hash[jp] = p => jp = ip
  BY <1>1, <1>p, DueRow
<1>3. row' = [row EXCEPT ![p] = e]
  BY <1>0, <1>2 DEF Refresh, Types
<1>4. /\ row[p].try_count \in 0 .. 1 /\ asked[ip] = row[p].try_count
      /\ row[p].armed /\ told[ip] = {row[p].mac_addr}
  BY <1>1, <1>2 DEF Holds, Row
<1>5. /\ e.try_count = row[p].try_count + 1 /\ e.dst_ip_addr = ip /\ e.armed
      /\ e.mac_addr = row[p].mac_addr
  BY <1>p, <1>2, <1>4 DEF Row
<1>6. e \in Row
  BY <1>2, <1>4 DEF Row
<1> HIDE DEF e
<1>7. /\ row' \in [Positions -> Row] /\ row'[p] = e
      /\ \A q \in Positions \ {p} : row'[q] = row[q]
  BY <1>0, <1>3, <1>6, Updated DEF Types
<1>8. /\ asked' \in [Ips -> 0 .. 2] /\ asked'[ip] = row[p].try_count + 1
      /\ \A jp \in Ips \ {ip} : asked'[jp] = asked[jp]
  BY <1>0, <1>1, <1>2, <1>4 DEF Types
<1>9. Types' /\ HashSound'
  BY <1>0, <1>1, <1>7, <1>8, SMTT(30) DEF Types, Pointing, HashSound, Used
<1>10. RowsSound'
  <2> SUFFICES ASSUME NEW q \in Positions
               PROVE  /\ \A jp \in Ips : hash[jp] = q => Holds(q, jp)'
                      /\ ~Used(q) => row'[q] = EmptyRow
    BY <1>1 DEF RowsSound, Used
  <2>1. CASE q = p
    <3>1. Holds(p, ip)'
      BY <1>1, <1>4, <1>5, <1>7, <1>8 DEF Holds
    <3>2. QED BY <1>2, <2>1, <3>1 DEF Used
  <2>2. CASE q # p
    <3>1. /\ \A jp \in Ips : hash[jp] = q => Holds(q, jp)
          /\ ~Used(q) => row[q] = EmptyRow
      BY <1>0, <1>2, Constants DEF RowsSound
    <3>2. \A jp \in Ips : hash[jp] = q => jp # ip
      BY <1>2, <2>2
    <3>3. QED BY <1>1, <1>7, <1>8, <2>2, <3>1, <3>2 DEF Holds
  <2>3. QED BY <2>1, <2>2
<1>11. RxSound' /\ ReadersSound'
  BY <1>0, <1>1, <1>2 DEF RxSound, ReadersSound, ReaderSound
<1>12. QED BY <1>9, <1>10, <1>11 DEF ArpInv

LEMMA ExpireStep ==
  ASSUME ArpInv, NEW p \in Positions, Expire(p)
  PROVE  /\ ArpInv'
         /\ \E ip \in Ips : asked[ip] = 2 /\ \A jp \in Ips \ {ip} : hash'[jp] = hash[jp]
<1>p. PICK ip : ip = row[p].dst_ip_addr
  OBVIOUS
<1>0. Types /\ HashSound /\ RowsSound /\ RxSound /\ ReadersSound
  BY DEF ArpInv
<1>1. /\ Due(p) /\ row[p].try_count >= 2
      /\ hash' = [hash EXCEPT ![ip] = NoPos] /\ free' = Append(free, p)
      /\ rx' = [pc |-> "deleted", ip |-> ip, pos |-> p, mac |-> NoMac]
      /\ told' = [told EXCEPT ![ip] = {}] /\ Disturb(p)
      /\ UNCHANGED <<row, asked>>
  BY <1>p DEF Expire
<1>2. /\ rx.pos = NoPos /\ rx.pc = "idle" /\ row[p] \in Row /\ ip \in Ips /\ hash[ip] = p
      /\ Holds(p, ip) /\ \A jp \in Ips : hash[jp] = p => jp = ip
  BY <1>1, <1>p, DueRow
<1>3. asked[ip] = 2
  BY <1>1, <1>2 DEF Holds, Row
<1>4. /\ hash'[ip] = NoPos /\ \A jp \in Ips \ {ip} : hash'[jp] = hash[jp]
      /\ told'[ip] = {} /\ \A jp \in Ips \ {ip} : told'[jp] = told[jp]
      /\ hash' \in [Ips -> Positions \union {NoPos}] /\ told' \in [Ips -> SUBSET Macs]
  BY <1>0, <1>1, <1>2 DEF Types
<1>5. ~Used(p)' /\ \A q \in Positions \ {p} : Used(q)' <=> Used(q)
  <2>1. ~Used(p)'
    BY <1>2, <1>4, Constants DEF Used
  <2>2. ASSUME NEW q \in Positions \ {p} PROVE Used(q)' <=> Used(q)
    BY <1>2, <1>4, Constants DEF Used
  <2>3. QED BY <2>1, <2>2
<1>6. Types'
  <2>1. rx' \in RxState
    BY <1>1, <1>2 DEF RxState
  <2>2. reader' \in [Workers -> ReaderState] /\ Pointing'
    BY <1>0, <1>1, Undisturbed
  <2>3. free' \in Seq(Positions)
    BY <1>0, <1>1, Pushed DEF Types
  <2>4. QED BY <1>0, <1>1, <1>4, <2>1, <2>2, <2>3 DEF Types
<1>7. HashSound'
  <2>1. \A jp, kp \in Ips : hash'[jp] = hash'[kp] /\ hash'[jp] # NoPos => jp = kp
    BY <1>0, <1>4 DEF HashSound
  <2>2. /\ Len(free') = Len(free) + 1 /\ Len(free) \in Nat
        /\ \A i \in 1 .. Len(free) : free'[i] = free[i]
        /\ free'[Len(free) + 1] = p
    BY <1>0, <1>1, Pushed DEF Types
  <2>3. \A i \in 1 .. Len(free) : free[i] # p
    BY <1>0, <1>2 DEF HashSound, Used
  <2>4. \A i \in 1 .. Len(free') : i \in 1 .. Len(free) \/ i = Len(free) + 1
    BY <2>2
  <2>5. \A i, j \in 1 .. Len(free') : free'[i] = free'[j] => i = j
    BY <1>0, <2>2, <2>3, <2>4 DEF HashSound
  <2>6. ASSUME NEW q \in Positions
        PROVE  (\E i \in 1 .. Len(free') : free'[i] = q) <=> ~Used(q)'
    <3>1. CASE q = p
      <4>1. Len(free) + 1 \in 1 .. Len(free')
        BY <2>2
      <4>2. QED BY <1>5, <2>2, <3>1, <4>1
    <3>2. CASE q # p
      <4>1. (\E i \in 1 .. Len(free) : free[i] = q) <=> ~Used(q)'
        BY <1>0, <1>5, <3>2 DEF HashSound
      <4>2. \A i \in 1 .. Len(free) : i \in 1 .. Len(free')
        BY <2>2
      <4>3. QED BY <2>2, <2>4, <3>2, <4>1, <4>2
    <3>3. QED BY <3>1, <3>2
  <2>7. QED BY <2>1, <2>5, <2>6 DEF HashSound
<1>8. RowsSound'
  <2> SUFFICES ASSUME NEW q \in Positions \ {p}
               PROVE  /\ \A jp \in Ips : hash'[jp] = q => Holds(q, jp)'
                      /\ ~Used(q)' => row'[q] = EmptyRow
    BY <1>1 DEF RowsSound
  <2>1. /\ \A jp \in Ips : hash[jp] = q => Holds(q, jp)
        /\ ~Used(q) => row[q] = EmptyRow
    BY <1>0, <1>2, Constants DEF RowsSound
  <2>2. ASSUME NEW jp \in Ips, hash'[jp] = q PROVE Holds(q, jp)'
    <3>1. jp # ip
      BY <1>4, <2>2, Constants
    <3>2. QED BY <1>1, <1>4, <2>1, <2>2, <3>1 DEF Holds
  <2>3. QED BY <1>1, <1>5, <2>1, <2>2
<1>9. RxSound'
  BY <1>1, <1>5 DEF RxSound
<1>10. ReadersSound'
  <2> SUFFICES ASSUME NEW w \in Workers, reader'[w].clean, reader'[w].pc # "idle"
               PROVE  /\ reader'[w].ip \in Ips /\ reader'[w].pos \in Positions
                      /\ hash'[reader'[w].ip] = reader'[w].pos /\ reader'[w].pos # rx'.pos
                      /\ reader'[w].pc = "read" => reader'[w].mac \in told'[reader'[w].ip]
    BY DEF ReadersSound, ReaderSound
  <2>1. reader'[w] = reader[w] /\ reader[w].pos # p
    BY <1>0, <1>1, Undisturbed
  <2>2. ReaderSound(w)
    BY <1>0 DEF ReadersSound
  <2>3. QED BY <1>1, <1>2, <1>4, <2>1, <2>2 DEF ReaderSound
<1>11. QED BY <1>2, <1>3, <1>4, <1>6, <1>7, <1>8, <1>9, <1>10 DEF ArpInv

(***************************************************************************)
(* The workers.                                                            *)
(***************************************************************************)
LEMMA WorkerStep ==
  ASSUME ArpInv, NEW w \in Workers, NEW r \in ReaderState,
         reader' = [reader EXCEPT ![w] = r],
         r.pc # "idle" => r.pos \in Positions,
         r.clean /\ r.pc # "idle" =>
           /\ r.ip \in Ips /\ r.pos \in Positions
           /\ hash[r.ip] = r.pos /\ r.pos # rx.pos
           /\ r.pc = "read" => r.mac \in told[r.ip],
         UNCHANGED <<table, rx, told, asked>>
  PROVE  ArpInv'
<1>0. Types /\ HashSound /\ RowsSound /\ RxSound /\ ReadersSound
  BY DEF ArpInv
<1>1. /\ reader' \in [Workers -> ReaderState] /\ reader'[w] = r
      /\ \A v \in Workers \ {w} : reader'[v] = reader[v]
  BY <1>0, Updated DEF Types
<1>2. Types' /\ HashSound'
  BY <1>0, <1>1 DEF Types, Pointing, HashSound, Used, table
<1>3. RowsSound'
  BY <1>0 DEF RowsSound, Used, Holds, table
<1>4. RxSound'
  BY <1>0 DEF RxSound, Used, table
<1>5. ReadersSound'
  <2>1. ASSUME NEW v \in Workers \ {w} PROVE ReaderSound(v)'
    BY <1>0, <1>1 DEF ReadersSound, ReaderSound, table
  <2>2. ReaderSound(w)'
    BY <1>1 DEF ReaderSound, table
  <2>3. QED BY <2>1, <2>2 DEF ReadersSound
<1>6. QED BY <1>2, <1>3, <1>4, <1>5 DEF ArpInv

LEMMA QueryStep ==
  ASSUME ArpInv, NEW w \in Workers, NEW ip \in Ips, Query(w, ip)
  PROVE  ArpInv'
<1>1. PICK c \in BOOLEAN : c = (rx.pos # hash[ip])
  BY Zenon
<1> DEFINE r == [pc |-> "found", ip |-> ip, pos |-> hash[ip], mac |-> NoMac, clean |-> c]
<1>2. /\ reader' = [reader EXCEPT ![w] = r] /\ hash[ip] # NoPos
      /\ UNCHANGED <<table, rx, told, asked>>
  BY <1>1 DEF Query
<1>3. hash[ip] \in Positions
  BY <1>2 DEF ArpInv, Types
<1>4. r \in ReaderState
  BY <1>1, <1>3 DEF ReaderState
<1>5. r.clean => r.pos # rx.pos
  BY <1>1
<1>6. QED BY <1>2, <1>3, <1>4, <1>5, WorkerStep

LEMMA CopyMacStep ==
  ASSUME ArpInv, NEW w \in Workers, CopyMac(w)
  PROVE  ArpInv'
<1> DEFINE r == [reader[w] EXCEPT !.pc = "read", !.mac = row[reader[w].pos].mac_addr]
<1>0. Types /\ RowsSound /\ ReaderSound(w)
  BY DEF ArpInv, ReadersSound
<1>1. /\ reader[w].pc = "found" /\ reader' = [reader EXCEPT ![w] = r]
      /\ UNCHANGED <<table, rx, told, asked>>
  BY DEF CopyMac
<1>2. reader[w] \in ReaderState
  BY <1>0 DEF Types
<1>3. /\ r.pc = "read" /\ r.mac = row[reader[w].pos].mac_addr
      /\ r.clean = reader[w].clean /\ r.ip = reader[w].ip /\ r.pos = reader[w].pos
  BY <1>2 DEF ReaderState
<1>4. ASSUME r.clean
      PROVE  /\ r.ip \in Ips /\ r.pos \in Positions /\ hash[r.ip] = r.pos /\ r.pos # rx.pos
             /\ r.mac \in told[r.ip]
  <2>1. /\ r.ip \in Ips /\ r.pos \in Positions /\ hash[r.ip] = r.pos /\ r.pos # rx.pos
    BY <1>0, <1>1, <1>3, <1>4 DEF ReaderSound
  <2>2. Holds(r.pos, r.ip)
    BY <1>0, <2>1 DEF RowsSound
  <2>3. QED BY <1>3, <2>1, <2>2 DEF Holds
<1>5. /\ row[reader[w].pos].mac_addr \in Macs \union {NoMac}
      /\ reader[w].pos \in Positions
  BY <1>0, <1>1 DEF Types, Pointing, Row
<1>6. r \in ReaderState
  BY <1>2, <1>5 DEF ReaderState
<1>7. QED BY <1>1, <1>3, <1>4, <1>5, <1>6, WorkerStep

LEMMA SendStep ==
  ASSUME ArpInv, NEW w \in Workers, Send(w)
  PROVE  ArpInv'
<1>1. ReaderIdle.pc = "idle"
  BY DEF ReaderIdle
<1>2. QED BY <1>1, IdleStates, WorkerStep DEF Send

LEMMA StepArp ==
  ASSUME ArpInv, [Next]_vars
  PROVE  ArpInv'
<1>1. CASE UNCHANGED vars
  BY <1>1 DEF vars, table, ArpInv, Types, Pointing, HashSound, Used, RowsSound, Holds, RxSound,
              ReadersSound, ReaderSound
<1>2. QED
  BY <1>1, ReplyAddStep, ReplyFillStep, ReplyArmStep, ClearStep, RefreshStep, ExpireStep,
     QueryStep, CopyMacStep, SendStep DEF Next

-----------------------------------------------------------------------------
(* The hash, the rows, the receive loop's work and the workers' pointers   *)
(* fit together at every step of pfm_arp_process_reply, refresh_callback,  *)
(* arp_clear_entry and dst_mac_addr_get.                                   *)
THEOREM ArpSafe == Spec => []ArpInv
BY InitArp, StepArp, PTL DEF Spec

(* Every index stays inside the table and no more than two requests are    *)
(* counted (pfm_arp.c).                                                    *)
THEOREM TypeCorrect == Spec => []TypeOK
<1>1. ArpInv => TypeOK
  BY DEF ArpInv, Types, TypeOK, RxState, ReaderState
<1>2. QED BY <1>1, ArpSafe, PTL

(* Between two calls of the receive loop, an address in the hash has a row *)
(* of its own and a timer; all other rows are free and blank.              *)
THEOREM TableAlwaysSound == Spec => []TableSound
<1>1. ASSUME ArpInv, rx.pc = "idle" PROVE TableSound
  <2>0. Types /\ HashSound /\ RowsSound /\ RxSound
    BY <1>1 DEF ArpInv
  <2>1. \A p \in Positions : p # rx.pos
    BY <1>1, <2>0, Constants DEF RxSound
  <2>2. ASSUME NEW ip \in Ips, hash[ip] # NoPos
        PROVE  /\ row[hash[ip]].dst_ip_addr = ip /\ row[hash[ip]].armed
               /\ \A m \in told[ip] : row[hash[ip]].mac_addr = m
    <3>1. hash[ip] \in Positions
      BY <2>0, <2>2 DEF Types
    <3>2. Holds(hash[ip], ip)
      BY <2>0, <2>1, <3>1 DEF RowsSound
    <3>3. QED BY <3>2 DEF Holds
  <2>3. ASSUME NEW p \in Positions
        PROVE  (\A ip \in Ips : hash[ip] # p) <=> row[p] = EmptyRow /\ p \in ToSet(free)
    <3>1. p \in ToSet(free) <=> ~Used(p)
      BY <2>0 DEF ToSet, HashSound, Types
    <3>2. ~Used(p) => row[p] = EmptyRow
      BY <2>0, <2>1 DEF RowsSound
    <3>3. QED BY <3>1, <3>2 DEF Used
  <2>4. QED BY <2>0, <2>2, <2>3 DEF TableSound, HashSound
<1>2. ArpInv => TableSound
  BY <1>1 DEF TableSound
<1>3. QED BY <1>2, ArpSafe, PTL

(* What a worker copies through its pointer is the MAC address last        *)
(* announced, unless the receive loop has been at work on that row.        *)
THEOREM ReadsClean == Spec => []CleanReads
<1>1. ArpInv => CleanReads
  BY DEF ArpInv, ReadersSound, ReaderSound, CleanReads
<1>2. QED BY <1>1, ArpSafe, PTL

(* No entry goes before two requests were sent for it without an answer.   *)
THEOREM NoneForgottenUnasked == Spec => AskedFirst
<1>1. ASSUME ArpInv, [Next]_vars, NEW ip \in Ips, hash[ip] # NoPos, hash'[ip] = NoPos
      PROVE  asked[ip] = 2
  <2>1. CASE hash' = hash
    BY <1>1, <2>1
  <2>2. ASSUME NEW jp \in Ips, NEW m \in Macs, ReplyAdd(jp, m) PROVE asked[ip] = 2
    <3>1. hash[jp] = NoPos => Head(free) # NoPos
      <4>1. free \in Seq(Positions)
        BY <1>1 DEF ArpInv, Types
      <4>2. QED BY <2>2, <4>1, Popped, Constants DEF ReplyAdd
    <3>2. hash \in [Ips -> Positions \union {NoPos}]
      BY <1>1 DEF ArpInv, Types
    <3>3. QED BY <1>1, <2>2, <3>1, <3>2 DEF ReplyAdd
  <2>3. ASSUME NEW p \in Positions, Expire(p) PROVE asked[ip] = 2
    BY <1>1, <2>3, ExpireStep
  <2>4. QED
    BY <1>1, <2>1, <2>2, <2>3
    DEF Next, ReplyFill, ReplyArm, Clear, Refresh, Query, CopyMac, Send, vars, table
<1>2. ArpInv /\ [Next]_vars =>
        [\A ip \in Ips : hash[ip] # NoPos /\ hash'[ip] = NoPos => asked[ip] = 2]_vars
  BY <1>1
<1>3. QED BY <1>2, ArpSafe, PTL DEF Spec, AskedFirst
=============================================================================
