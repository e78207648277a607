------------------------- MODULE Classifier_proofs -------------------------
(***************************************************************************)
(* Theorems about the ingress classifier for any links and KNI ports,      *)
(* bursts of any size and whatever the ring and the KNI ports take.        *)
(***************************************************************************)
EXTENDS Classifier, FiniteSetTheorems, WellFoundedInduction, TLAPS

(***************************************************************************)
(* packet_classify as a function of the links' KNI ports, so that a step   *)
(* that leaves these alone is seen to leave the classes of packets alone.  *)
(***************************************************************************)
Knis(g, l) == {l} \X DOMAIN g[l]
Having(g, l, ip) == {k \in Knis(g, l) : g[k[1]][k[2]].local_ip_addr = ip}
Class(g, l, p) ==
  IF p.kind # "IPv4" \/ p.dst = Broadcast
  THEN [pkt_type |-> "BROADCAST", kni |-> NoKni]
  ELSE IF Having(g, l, p.dst) = {} THEN [pkt_type |-> "UNKNOWN", kni |-> NoKni]
  ELSE LET k == <<l, Min({m[2] : m \in Having(g, l, p.dst)})>>
       IN  [pkt_type |-> IF p.port = g[k[1]][k[2]].port_no THEN "GTP" ELSE "OTHERS",
            kni |-> k]

LEMMA Classed ==
  ASSUME NEW l, NEW p
  PROVE  /\ packet_classify(l, p) = Class(ingress_classifier_g, l, p)
         /\ KnisOf(l) = Knis(ingress_classifier_g, l)
<1>1. KnisOf(l) = Knis(ingress_classifier_g, l)
  BY DEF KnisOf, Knis
<1>2. \A ip : Matching(l, ip) = Having(ingress_classifier_g, l, ip)
  BY <1>1 DEF Matching, Having, Entry
<1>3. packet_classify(l, p) = Class(ingress_classifier_g, l, p)
  BY <1>2, Zenon DEF packet_classify, Class, Entry
<1>4. QED BY <1>1, <1>3

KniMap == [Links -> Seq([local_ip_addr : Ips, port_no : UdpPorts])]

(* Every non-empty set of natural numbers has a least element.             *)
LEMMA LeastNatural ==
  ASSUME NEW S \in SUBSET Nat, S # {}
  PROVE  Min(S) \in S
<1> DEFINE Less == {p \in Nat \X Nat : p[1] < p[2]}
<1>1. IsWellFoundedOn(Less, Nat)
  BY NatLessThanWellFounded, Zenon DEF OpToRel
<1>2. \E x \in S : \A y \in S : <<y, x>> \notin Less
  <2> HIDE DEF Less
  <2> QED BY <1>1, WFMin
<1>3. PICK x \in S : \A y \in S : <<y, x>> \notin Less
  BY <1>2
<1>4. \A y \in S : <<y, x>> \notin Less => x <= y
  <2> SUFFICES ASSUME NEW y \in Nat, ~(y < x)
               PROVE  x <= y
    OBVIOUS
  <2> QED OBVIOUS
<1>5. QED BY <1>3, <1>4 DEF Min

(* What the class of a packet says about it.                               *)
LEMMA ClassFacts ==
  ASSUME NEW g \in KniMap, NEW l \in Links, NEW p \in Packets
  PROVE  LET c == Class(g, l, p)
         IN  /\ c.pkt_type \in {"BROADCAST", "UNKNOWN", "OTHERS", "GTP"}
             /\ c.pkt_type = "BROADCAST" <=> IsBroadcast(p)
             /\ c.pkt_type \in {"BROADCAST", "UNKNOWN"} => c.kni = NoKni
             /\ c.pkt_type = "UNKNOWN" => Having(g, l, p.dst) = {}
             /\ c.pkt_type \in {"OTHERS", "GTP"} =>
                  /\ c.kni \in Having(g, l, p.dst)
                  /\ c.pkt_type = "GTP" <=> p.port = g[c.kni[1]][c.kni[2]].port_no
<1> DEFINE H == Having(g, l, p.dst)
           N == {m[2] : m \in H}
           k == <<l, Min(N)>>
<1>1. H # {} => k \in H
  <2>1. H \subseteq {l} \X DOMAIN g[l]
    BY DEF Having, Knis
  <2>2. DOMAIN g[l] \subseteq Nat
    <3>1. g[l] \in Seq([local_ip_addr : Ips, port_no : UdpPorts])
      BY DEF KniMap
    <3>2. QED BY <3>1
  <2> HIDE DEF H
  <2>3. N \in SUBSET Nat /\ (H # {} => N # {})
    BY <2>1, <2>2
  <2>4. H # {} => Min(N) \in N
    BY <2>3, LeastNatural
  <2>5. QED BY <2>1, <2>4
<1> HIDE DEF H, N
<1>2. CASE IsBroadcast(p)
  BY <1>2 DEF Class, IsBroadcast
<1>3. CASE ~IsBroadcast(p) /\ H = {}
  BY <1>3 DEF Class, IsBroadcast, H
<1>4. CASE ~IsBroadcast(p) /\ H # {}
  <2>1. Class(g, l, p) = [pkt_type |-> IF p.port = g[k[1]][k[2]].port_no THEN "GTP" ELSE "OTHERS",
                          kni |-> k]
    BY <1>4 DEF Class, IsBroadcast, H, N
  <2> HIDE DEF k
  <2>2. QED BY <1>1, <1>4, <2>1 DEF H
<1>5. QED BY <1>2, <1>3, <1>4

-----------------------------------------------------------------------------
(***************************************************************************)
(* Lists that keep the order of arrival.                                   *)
(***************************************************************************)
LEMMA EmptyList ==
  /\ Increasing(<<>>) /\ ToSet(<<>>) = {}
  /\ \A S : <<>> \in Seq(S)
  /\ \A S : \A s \in Seq(S) : ToSet(s) = {} => s = <<>>
<1>1. Increasing(<<>>)
  BY DEF Increasing
<1>2. ToSet(<<>>) = {}
  BY DEF ToSet
<1>3. \A S : <<>> \in Seq(S)
  OBVIOUS
<1>4. ASSUME NEW S, NEW s \in Seq(S), ToSet(s) = {}
      PROVE  s = <<>>
  <2>1. DOMAIN s = {}
    BY <1>4 DEF ToSet
  <2>2. QED BY <2>1
<1>5. QED BY <1>1, <1>2, <1>3, <1>4

LEMMA ArrivalAdded ==
  ASSUME NEW n \in Nat, NEW s \in Seq(1 .. n), Increasing(s)
  PROVE  /\ Append(s, n + 1) \in Seq(1 .. n + 1)
         /\ Increasing(Append(s, n + 1))
         /\ ToSet(Append(s, n + 1)) = ToSet(s) \union {n + 1}
<1> DEFINE t == Append(s, n + 1)
<1>1. s \in Seq(1 .. n + 1)
  <2>1. \A i \in 1 .. Len(s) : s[i] \in 1 .. n + 1
    <3>1. \A x \in 1 .. n : x \in 1 .. n + 1
      OBVIOUS
    <3>2. QED BY <3>1
  <2>2. QED BY <2>1
<1>2. t \in Seq(1 .. n + 1)
  BY <1>1
<1>3. /\ DOMAIN t = 1 .. Len(s) + 1 /\ DOMAIN s = 1 .. Len(s)
      /\ t[Len(s) + 1] = n + 1
      /\ \A i \in 1 .. Len(s) : t[i] = s[i]
  OBVIOUS
<1>4. \A i \in 1 .. Len(s) : s[i] \in 1 .. n
  OBVIOUS
<1> HIDE DEF t
<1>5. Increasing(t)
  <2> SUFFICES ASSUME NEW a \in 1 .. Len(s) + 1, NEW b \in 1 .. Len(s) + 1, a < b
               PROVE  t[a] < t[b]
    BY <1>3 DEF Increasing
  <2>1. a \in 1 .. Len(s) /\ t[a] = s[a] /\ s[a] \in 1 .. n
    BY <1>3, <1>4
  <2>2. CASE b = Len(s) + 1
    BY <1>3, <2>1, <2>2
  <2>3. CASE b # Len(s) + 1
    <3>1. b \in 1 .. Len(s)
      BY <2>3
    <3>2. QED BY <1>3, <2>1, <3>1 DEF Increasing
  <2>4. QED BY <2>2, <2>3
<1>6. ToSet(t) = ToSet(s) \union {n + 1}
  <2>1. 1 .. Len(s) + 1 = (1 .. Len(s)) \union {Len(s) + 1}
    OBVIOUS
  <2>2. QED BY <1>3, <2>1 DEF ToSet
<1>7. QED BY <1>2, <1>5, <1>6 DEF t

(* A ring that takes the first n of a list.                                *)
LEMMA FirstTaken ==
  ASSUME NEW S \in SUBSET Nat, NEW s \in Seq(S), Increasing(s), NEW n \in 0 .. Len(s)
  PROVE  LET t == SubSeq(s, 1, n)
             rest == {s[i] : i \in n + 1 .. Len(s)}
         IN  /\ t \in Seq(S) /\ Increasing(t)
             /\ ToSet(s) = ToSet(t) \union rest
             /\ \A i \in rest : \A j \in ToSet(t) : j < i
<1> DEFINE t == SubSeq(s, 1, n)
           rest == {s[i] : i \in n + 1 .. Len(s)}
<1>1. t \in Seq(S) /\ DOMAIN t = 1 .. n /\ (\A i \in 1 .. n : t[i] = s[i])
  OBVIOUS
<1>2. DOMAIN s = 1 .. Len(s) /\ n \in Nat /\ Len(s) \in Nat
  OBVIOUS
<1>3. \A a, b \in 1 .. Len(s) : a < b => s[a] < s[b]
  BY <1>2 DEF Increasing
<1>4. \A a \in 1 .. n : a \in 1 .. Len(s)
  OBVIOUS
<1>5. \A b \in n + 1 .. Len(s) : b \in 1 .. Len(s) /\ (\A a \in 1 .. n : a < b)
  OBVIOUS
<1>6. 1 .. Len(s) = (1 .. n) \union (n + 1 .. Len(s))
  OBVIOUS
<1> HIDE DEF t
<1>7. ToSet(t) = {s[i] : i \in 1 .. n}
  BY <1>1 DEF ToSet
<1>8. Increasing(t)
  BY <1>1, <1>3, <1>4 DEF Increasing
<1>9. ToSet(s) = ToSet(t) \union rest
  BY <1>2, <1>6, <1>7 DEF ToSet
<1>10. \A i \in rest : \A j \in ToSet(t) : j < i
  BY <1>3, <1>4, <1>5, <1>7
<1>11. QED BY <1>1, <1>8, <1>9, <1>10 DEF t

(* Nothing is in such a list twice.                                        *)
LEMMA NotTwice ==
  ASSUME NEW S \in SUBSET Nat, NEW s \in Seq(S), Increasing(s)
  PROVE  \A a, b \in DOMAIN s : s[a] = s[b] => a = b
<1> SUFFICES ASSUME NEW a \in DOMAIN s, NEW b \in DOMAIN s, s[a] = s[b]
             PROVE  a = b
  OBVIOUS
<1>1. a \in Nat /\ b \in Nat /\ s[a] \in Nat /\ s[b] \in Nat
  <2>1. DOMAIN s = 1 .. Len(s)
    OBVIOUS
  <2>2. s[a] \in S /\ s[b] \in S
    BY <2>1
  <2>3. a \in Nat /\ b \in Nat
    BY <2>1
  <2>4. QED BY <2>2, <2>3
<1>2. (a < b => s[a] < s[b]) /\ (b < a => s[b] < s[a])
  BY DEF Increasing
<1>3. QED BY <1>1, <1>2

LEMMA PositionsCounted ==
  ASSUME NEW S \in SUBSET Nat, NEW s \in Seq(S), Increasing(s), NEW i
  PROVE  Cardinality(Positions(s, i)) = IF i \in ToSet(s) THEN 1 ELSE 0
<1>1. CASE i \in ToSet(s)
  <2>1. PICK a \in DOMAIN s : s[a] = i
    BY <1>1 DEF ToSet
  <2>2. Positions(s, i) = {a}
    BY <2>1, NotTwice DEF Positions
  <2>3. QED BY <1>1, <2>2, FS_Singleton
<1>2. CASE i \notin ToSet(s)
  <2>1. Positions(s, i) = {}
    BY <1>2 DEF Positions, ToSet
  <2>2. QED BY <1>2, <2>1, FS_EmptySet
<1>3. QED BY <1>1, <1>2

-----------------------------------------------------------------------------
(***************************************************************************)
(* The inductive invariant.  A packet that has been classified waits in    *)
(* one of three lists or has a fate.                                       *)
(***************************************************************************)
(* What the links have are KNI ports that main was to add.                 *)
Entries ==
  \A l \in Links : \A n \in DOMAIN ingress_classifier_g[l] :
    \E c \in DOMAIN Configured :
      Configured[c] = [link |-> l, ip |-> ingress_classifier_g[l][n].local_ip_addr,
                       port_no |-> ingress_classifier_g[l][n].port_no]

ClassOf(i) == Class(ingress_classifier_g, link, pkts[i])
OfType(t) == {i \in Index : ClassOf(i).pkt_type = t}
Flushed == pc \in {"ring", "end"}

Burst ==
  /\ pc # "wait" => added = Len(Configured)
  /\ pc = "wait" => pkts = <<>>
  /\ Flushed => idx = Len(pkts)
  /\ kni_ptr = IF idx = 0 THEN NoKni ELSE ClassOf(idx).kni

(* The lists keep the order of arrival; what the ring did not take came    *)
(* after what it took.                                                     *)
Lists ==
  /\ Increasing(kni_pkts) /\ ToSet(kni_pkts) = IF Flushed THEN {} ELSE OfType("OTHERS")
  /\ Increasing(ring_pkts) /\ ToSet(ring_pkts) = IF pc = "end" THEN {} ELSE OfType("GTP")
  /\ Increasing(rx_ring)
  /\ IF pc = "end"
     THEN /\ ToSet(rx_ring) \subseteq OfType("GTP")
          /\ \A i \in OfType("GTP") \ ToSet(rx_ring) : \A j \in ToSet(rx_ring) : j < i
     ELSE ToSet(rx_ring) = {}

Waiting == ToSet(kni_pkts) \union ToSet(ring_pkts) \union ToSet(rx_ring)

(* The buffer that the KNI port k gets of a broadcast, and the fates of    *)
(* the packets of each class.                                              *)
CopyFor(i, k) ==
  IF k[2] = Len(ingress_classifier_g[link]) THEN Original(i) ELSE Clone(i, k[2])

FateOf(i, f) ==
  LET t == ClassOf(i).pkt_type
  IN  \/ t = "UNKNOWN" /\ f = [buf |-> Original(i), to |-> NoKni, done |-> "freed"]
      \/ /\ t = "BROADCAST"
         /\ \/ /\ f.to \in Knis(ingress_classifier_g, link) /\ f.buf = CopyFor(i, f.to)
               /\ f.done \in {"taken", "freed"}
            \/ /\ pkts[i].kind = "ARP reply"
               /\ f = [buf |-> ArpClone(i), to |-> NoKni, done |-> "lost"]
            \/ /\ Knis(ingress_classifier_g, link) = {}
               /\ f = [buf |-> Original(i), to |-> NoKni, done |-> "lost"]
      \/ /\ t = "OTHERS" /\ Flushed
         /\ f.buf = Original(i) /\ f.to = kni_ptr
         /\ f.done \in {"taken", "freed", "lost"} /\ (f.done = "lost" <=> kni_ptr = NoKni)
      \/ /\ t = "GTP" /\ pc = "end"
         /\ f = [buf |-> Original(i), to |-> NoKni, done |-> "freed"]

FatesRight ==
  /\ \A f \in fate : f.buf[1] \in Index /\ FateOf(f.buf[1], f)
  /\ \A f, h \in fate : f.buf = h.buf => f = h

AllAccounted ==
  \A i \in Index :
    /\ i \in Waiting <=> \A f \in fate : f.buf # Original(i)
    /\ ClassOf(i).pkt_type = "BROADCAST" =>
         \A k \in Knis(ingress_classifier_g, link) :
           \E f \in fate : f.buf = CopyFor(i, k) /\ f.to = k

ClassifierInv ==
  /\ TypeOK /\ Entries /\ Burst /\ FatesRight
  /\ pc # "dead" => Lists /\ AllAccounted

-----------------------------------------------------------------------------
(***************************************************************************)
(* Between two bursts, and before the first packet of one.                 *)
(***************************************************************************)
NothingPending ==
  /\ idx = 0 /\ kni_ptr = NoKni /\ fate = {}
  /\ kni_pkts = <<>> /\ ring_pkts = <<>> /\ rx_ring = <<>>

Fresh ==
  /\ added \in 0 .. Len(Configured) /\ ingress_classifier_g \in KniMap /\ Entries
  /\ \/ pc = "wait" /\ pkts = <<>>
     \/ pc = "classify" /\ pkts \in Seq(Packets) /\ added = Len(Configured)
  /\ link \in Links /\ NothingPending

LEMMA FreshInv == Fresh => ClassifierInv
<1> SUFFICES ASSUME Fresh
             PROVE  ClassifierInv
  OBVIOUS
<1> USE DEF Fresh, NothingPending
<1>1. pc \in {"wait", "classify"} /\ ~Flushed /\ pc # "end" /\ pc # "dead"
  BY DEF Flushed
<1>2. Index = {}
  BY DEF Index
<1>3. pkts \in Seq(Packets)
  BY EmptyList
<1>4. TypeOK
  <2>1. Len(pkts) \in Nat
    BY <1>3
  <2>2. idx \in 0 .. Len(pkts)
    BY <2>1
  <2>3. kni_ptr \in Kni
    BY DEF Kni
  <2>4. QED BY <1>1, <1>3, <2>2, <2>3, EmptyList DEF TypeOK, KniMap
<1>5. Burst
  BY <1>1 DEF Burst
<1>6. FatesRight
  BY DEF FatesRight
<1>7. \A t : OfType(t) = {}
  BY <1>2 DEF OfType
<1>8. Lists
  BY <1>1, <1>7, EmptyList DEF Lists
<1>9. AllAccounted
  BY <1>2 DEF AllAccounted
<1>10. QED BY <1>4, <1>5, <1>6, <1>8, <1>9 DEF ClassifierInv

LEMMA WaitingFresh ==
  ASSUME ClassifierInv, pc = "wait"
  PROVE  NothingPending
<1>1. TypeOK /\ Burst /\ Lists
  BY DEF ClassifierInv
<1>2. pkts = <<>> /\ idx \in 0 .. Len(pkts)
  BY <1>1 DEF TypeOK, Burst
<1>3. idx = 0
  BY <1>2
<1>4. Index = {}
  BY <1>3 DEF Index
<1>5. fate = {}
  BY <1>1, <1>4 DEF TypeOK
<1>6. kni_ptr = NoKni
  BY <1>1, <1>3 DEF Burst
<1>7. \A s \in Seq(Index) : s = <<>>
  BY <1>4
<1>8. kni_pkts = <<>> /\ ring_pkts = <<>> /\ rx_ring = <<>>
  BY <1>1, <1>7 DEF TypeOK
<1>9. QED BY <1>3, <1>5, <1>6, <1>8 DEF NothingPending

LEMMA FreshNext == Fresh' => ClassifierInv'
BY FreshInv, PTL

LEMMA AddStep ==
  ASSUME ClassifierInv, NEW opened \in BOOLEAN, pfm_ingress_classifier_add(opened)
  PROVE  ClassifierInv'
<1> DEFINE c == Configured[added + 1]
           entry == [local_ip_addr |-> c.ip, port_no |-> c.port_no]
<1>1. TypeOK /\ Burst /\ Entries
  BY DEF ClassifierInv
<1>2. added < Len(Configured) /\ added \in 0 .. Len(Configured) /\ Len(Configured) \in Nat
  BY <1>1, ClassifierAssumption DEF pfm_ingress_classifier_add, TypeOK
<1>3. pc = "wait"
  <2>1. added # Len(Configured)
    BY <1>2
  <2>2. QED BY <1>1, <2>1 DEF Burst
<1>4. NothingPending /\ pkts = <<>>
  BY <1>1, <1>3, WaitingFresh DEF Burst
<1>5. NothingPending' /\ pkts' = <<>> /\ pc' = "wait" /\ link' \in Links
  BY <1>1, <1>3, <1>4 DEF NothingPending, pfm_ingress_classifier_add, burst, TypeOK
<1>6. added' \in 0 .. Len(Configured)
  BY <1>2 DEF pfm_ingress_classifier_add
<1>7. added + 1 \in DOMAIN Configured /\ c \in [link : Links, ip : Ips, port_no : UdpPorts]
  <2>1. added + 1 \in 1 .. Len(Configured)
    BY <1>2
  <2>2. DOMAIN Configured = 1 .. Len(Configured)
    BY ClassifierAssumption
  <2>3. \A i \in 1 .. Len(Configured) :
          Configured[i] \in [link : Links, ip : Ips, port_no : UdpPorts]
    <3> DEFINE R == [link : Links, ip : Ips, port_no : UdpPorts]
    <3>1. Configured \in Seq(R)
      BY ClassifierAssumption
    <3> HIDE DEF R
    <3>2. \A i \in 1 .. Len(Configured) : Configured[i] \in R
      BY <3>1
    <3>3. QED BY <3>2 DEF R
  <2>4. QED BY <2>1, <2>2, <2>3
<1>8. ingress_classifier_g \in KniMap
  BY <1>1 DEF TypeOK, KniMap
<1>9. CASE opened
  <2>1. ingress_classifier_g' = [ingress_classifier_g EXCEPT ![c.link] = Append(@, entry)]
    BY <1>9 DEF pfm_ingress_classifier_add
  <2>2. entry \in [local_ip_addr : Ips, port_no : UdpPorts] /\ c.link \in Links
    BY <1>7
  <2>3. c = [link |-> c.link, ip |-> entry.local_ip_addr, port_no |-> entry.port_no]
    BY <1>7
  <2> HIDE DEF c, entry
  <2>4. ingress_classifier_g' \in KniMap
    <3> DEFINE R == [local_ip_addr : Ips, port_no : UdpPorts]
    <3>1. ingress_classifier_g \in [Links -> Seq(R)] /\ c.link \in Links /\ entry \in R
      BY <1>8, <2>2 DEF KniMap
    <3> HIDE DEF R
    <3>2. ingress_classifier_g[c.link] \in Seq(R)
      BY <3>1
    <3>3. Append(ingress_classifier_g[c.link], entry) \in Seq(R)
      BY <3>1, <3>2
    <3>4. ingress_classifier_g' \in [Links -> Seq(R)]
      BY <2>1, <3>1, <3>3
    <3>5. QED BY <3>4 DEF KniMap, R
  <2>5. ASSUME NEW l \in Links, NEW n \in DOMAIN ingress_classifier_g'[l]
        PROVE  \/ /\ n \in DOMAIN ingress_classifier_g[l]
                  /\ ingress_classifier_g'[l][n] = ingress_classifier_g[l][n]
               \/ l = c.link /\ ingress_classifier_g'[l][n] = entry
    <3>1. ingress_classifier_g[l] \in Seq([local_ip_addr : Ips, port_no : UdpPorts])
      BY <1>8 DEF KniMap
    <3>2. CASE l # c.link
      BY <1>8, <2>1, <3>2 DEF KniMap
    <3>3. CASE l = c.link
      <4>1. ingress_classifier_g'[l] = Append(ingress_classifier_g[l], entry)
        BY <1>8, <2>1, <3>3 DEF KniMap
      <4>2. QED BY <2>2, <2>5, <3>1, <3>3, <4>1
    <3>4. QED BY <3>2, <3>3
  <2>6. Entries'
    <3> SUFFICES ASSUME NEW l \in Links, NEW n \in DOMAIN ingress_classifier_g'[l]
                 PROVE  \E d \in DOMAIN Configured :
                          Configured[d] = [link |-> l,
                                           ip |-> ingress_classifier_g'[l][n].local_ip_addr,
                                           port_no |-> ingress_classifier_g'[l][n].port_no]
      BY DEF Entries
    <3>1. CASE /\ n \in DOMAIN ingress_classifier_g[l]
               /\ ingress_classifier_g'[l][n] = ingress_classifier_g[l][n]
      BY <1>1, <3>1 DEF Entries
    <3>2. CASE l = c.link /\ ingress_classifier_g'[l][n] = entry
      <4>1. Configured[added + 1] = [link |-> l, ip |-> ingress_classifier_g'[l][n].local_ip_addr,
                                     port_no |-> ingress_classifier_g'[l][n].port_no]
        BY <2>3, <3>2 DEF c
      <4>2. QED BY <1>7, <4>1
    <3>3. QED BY <2>5, <3>1, <3>2
  <2>7. QED BY <1>5, <1>6, <2>4, <2>6, FreshNext DEF Fresh
<1>10. CASE ~opened
  <2>1. ingress_classifier_g' = ingress_classifier_g
    BY <1>10 DEF pfm_ingress_classifier_add
  <2>2. Entries'
    BY <1>1, <2>1 DEF Entries
  <2>3. QED BY <1>5, <1>6, <1>8, <2>1, <2>2, FreshNext DEF Fresh
<1>11. QED BY <1>9, <1>10

LEMMA ReceiveStep ==
  ASSUME ClassifierInv, NEW l \in Links, NEW n \in 1 .. RX_BURST_SIZE,
         NEW b \in [1 .. n -> Packets], Receive(l, b)
  PROVE  ClassifierInv'
<1>1. TypeOK /\ Entries
  BY DEF ClassifierInv
<1>2. NothingPending
  BY WaitingFresh DEF Receive
<1>3. NothingPending'
  BY <1>2 DEF NothingPending, Receive
<1>4. n \in Nat
  BY ClassifierAssumption
<1>5. b \in Seq(Packets)
  BY <1>4
<1>6. pkts' \in Seq(Packets) /\ pc' = "classify" /\ link' \in Links
  BY <1>5 DEF Receive
<1>7. added' = Len(Configured) /\ added' \in 0 .. Len(Configured)
  BY <1>1 DEF Receive, TypeOK
<1>8. Entries' /\ ingress_classifier_g' \in KniMap
  BY <1>1 DEF Entries, Receive, TypeOK, KniMap
<1>9. QED BY <1>3, <1>6, <1>7, <1>8, FreshNext DEF Fresh

LEMMA ReturnStep ==
  ASSUME ClassifierInv, Return
  PROVE  ClassifierInv'
<1>1. pc = "end" /\ Flushed /\ TypeOK /\ Entries /\ Lists
  BY DEF ClassifierInv, Return, Flushed
<1>2. kni_pkts = <<>> /\ ring_pkts = <<>>
  <2>1. ToSet(kni_pkts) = {} /\ ToSet(ring_pkts) = {}
    BY <1>1 DEF Lists
  <2>2. QED BY <1>1, <2>1, EmptyList DEF TypeOK
<1>3. NothingPending'
  BY <1>2 DEF NothingPending, Return
<1>4. /\ pkts' = <<>> /\ pc' = "wait" /\ link' \in Links /\ added' \in 0 .. Len(Configured)
      /\ Entries' /\ ingress_classifier_g' \in KniMap
  BY <1>1 DEF Entries, Return, TypeOK, KniMap
<1>5. QED BY <1>3, <1>4, FreshNext DEF Fresh

-----------------------------------------------------------------------------
(***************************************************************************)
(* The next packet of a burst.                                             *)
(***************************************************************************)
LEMMA NextClassified ==
  ASSUME ClassifierInv, NEW type, Classify(type)
  PROVE  LET i == idx + 1
         IN  /\ pc = "classify" /\ ~Flushed
             /\ idx \in Nat /\ i \in 1 .. Len(pkts) /\ pkts[i] \in Packets /\ idx' = i
             /\ Index' = Index \union {i} /\ i \notin Index
             /\ \A j : ClassOf(j)' = ClassOf(j)
             /\ ClassOf(i).pkt_type = type
             /\ OfType(type)' = OfType(type) \union {i}
             /\ \A t : t # type => OfType(t)' = OfType(t)
<1> DEFINE i == idx + 1
<1>1. TypeOK
  BY DEF ClassifierInv
<1>2. pc = "classify" /\ ~Flushed
  BY DEF Classify, Flushed
<1>3. idx \in Nat /\ Len(pkts) \in Nat /\ idx < Len(pkts)
  BY <1>1 DEF TypeOK, Classify
<1>4. i \in 1 .. Len(pkts) /\ idx' = i
  BY <1>3 DEF Classify
<1>5. pkts[i] \in Packets
  <2>1. \A j \in 1 .. Len(pkts) : pkts[j] \in Packets
    BY <1>1 DEF TypeOK
  <2>2. QED BY <1>4, <2>1
<1>6. Index' = Index \union {i} /\ i \notin Index
  BY <1>3, <1>4 DEF Index
<1>7. \A j : ClassOf(j)' = ClassOf(j)
  BY DEF ClassOf, Classify, burst
<1>8. ClassOf(i).pkt_type = type
  BY Classed DEF ClassOf, Classify
<1> HIDE DEF i
<1>9. OfType(type)' = OfType(type) \union {i}
  BY <1>6, <1>7, <1>8 DEF OfType
<1>10. \A t : t # type => OfType(t)' = OfType(t)
  BY <1>6, <1>7, <1>8 DEF OfType
<1>11. QED BY <1>2, <1>3, <1>4, <1>5, <1>6, <1>7, <1>8, <1>9, <1>10 DEF i

(* What was collected or settled of earlier packets is typed as before.    *)
LEMMA TypesKept ==
  ASSUME ClassifierInv, NEW type, Classify(type)
  PROVE  /\ added' \in 0 .. Len(Configured) /\ ingress_classifier_g' \in KniMap
         /\ link' \in Links /\ pkts' \in Seq(Packets) /\ idx' \in 0 .. Len(pkts')
         /\ kni_ptr' \in Kni' /\ Kni' = Kni /\ Entries'
         /\ kni_pkts \in Seq(Index') /\ ring_pkts \in Seq(Index') /\ rx_ring' \in Seq(Index')
         /\ \A f \in fate : f.buf[1] \in Index' /\ f.to \in Kni' /\ f.done \in {"taken", "freed", "lost"}
         /\ kni_ptr' = ClassOf(idx + 1).kni
<1> DEFINE i == idx + 1
<1>1. TypeOK /\ Entries
  BY DEF ClassifierInv
<1>2. /\ idx' = i /\ i \in 1 .. Len(pkts) /\ pkts[i] \in Packets
      /\ Index' = Index \union {i}
  BY NextClassified
<1>3. /\ UNCHANGED <<added, ingress_classifier_g, link, pkts, rx_ring>>
      /\ kni_ptr' = packet_classify(link, pkts[i]).kni
  BY DEF Classify, burst
<1>4. /\ added' \in 0 .. Len(Configured) /\ ingress_classifier_g' \in KniMap
      /\ link' \in Links /\ pkts' \in Seq(Packets)
  BY <1>1, <1>3 DEF TypeOK, KniMap
<1>5. idx' \in 0 .. Len(pkts')
  BY <1>2, <1>3
<1>6. Kni' = Kni /\ Entries'
  BY <1>1, <1>3 DEF Kni, KnisOf, Entries
<1>7. kni_ptr' = ClassOf(i).kni
  BY <1>3, Classed DEF ClassOf
<1>8. kni_ptr' \in Kni'
  <2>1. ingress_classifier_g \in KniMap /\ link \in Links
    BY <1>1 DEF TypeOK, KniMap
  <2>2. ClassOf(i).kni \in {NoKni} \union Knis(ingress_classifier_g, link)
    BY <1>2, <2>1, ClassFacts DEF ClassOf, Having
  <2>3. Knis(ingress_classifier_g, link) = KnisOf(link)
    BY DEF Knis, KnisOf
  <2>4. QED BY <1>6, <1>7, <2>1, <2>2, <2>3 DEF Kni
<1>9. \A s \in Seq(Index) : s \in Seq(Index')
  <2> SUFFICES ASSUME NEW s \in Seq(Index)
               PROVE  s \in Seq(Index')
    OBVIOUS
  <2>1. Index \subseteq Index'
    BY <1>2
  <2> HIDE DEF i
  <2>2. QED BY <2>1
<1>10. kni_pkts \in Seq(Index') /\ ring_pkts \in Seq(Index') /\ rx_ring' \in Seq(Index')
  BY <1>1, <1>3, <1>9 DEF TypeOK
<1>11. \A f \in fate : f.buf[1] \in Index' /\ f.to \in Kni' /\ f.done \in {"taken", "freed", "lost"}
  BY <1>1, <1>2, <1>6 DEF TypeOK
<1>12. QED BY <1>4, <1>5, <1>6, <1>7, <1>8, <1>10, <1>11

LEMMA BurstKept ==
  ASSUME ClassifierInv, NEW type, Classify(type), pc' \in {"classify", "dead"}
  PROVE  Burst'
<1>1. /\ pc = "classify" /\ idx \in Nat /\ idx' = idx + 1
      /\ \A j : ClassOf(j)' = ClassOf(j)
  BY NextClassified
<1>2. added' = Len(Configured)
  BY <1>1 DEF ClassifierInv, Burst, Classify
<1>3. kni_ptr' = ClassOf(idx + 1).kni
  BY TypesKept
<1>4. idx' # 0
  BY <1>1
<1>5. kni_ptr' = Class(ingress_classifier_g', link', pkts'[idx']).kni
  BY <1>1, <1>3 DEF ClassOf, Classify, burst
<1>6. ~Flushed' /\ pc' # "wait"
  BY DEF Flushed
<1>7. QED BY <1>2, <1>4, <1>5, <1>6 DEF Burst, ClassOf

(* A fate is right whatever comes after it.                                *)
LEMMA FateKept ==
  ASSUME UNCHANGED <<ingress_classifier_g, link, pkts>>,
         pc = "classify" \/ (kni_ptr' = kni_ptr /\ pc = "ring" /\ pc' = "end"),
         NEW i, NEW f, FateOf(i, f)
  PROVE  FateOf(i, f)'
<1>1. ClassOf(i)' = ClassOf(i) /\ CopyFor(i, f.to)' = CopyFor(i, f.to) /\ ArpClone(i)' = ArpClone(i)
  BY DEF ClassOf, CopyFor, ArpClone
<1>2. Knis(ingress_classifier_g, link)' = Knis(ingress_classifier_g, link) /\ pkts'[i] = pkts[i]
  OBVIOUS
<1>3. Flushed => Flushed' /\ kni_ptr' = kni_ptr
  BY DEF Flushed
<1>4. pc # "end"
  OBVIOUS
<1>5. QED BY <1>1, <1>2, <1>3, <1>4 DEF FateOf

(* The next packet gets the fates N, or is put on a list.                  *)
LEMMA FatesNext ==
  ASSUME ClassifierInv, NEW type, Classify(type), NEW i, i = idx + 1, NEW N, fate' = fate \union N,
         \A f \in N : f.buf[1] = i /\ FateOf(i, f)',
         \A f, h \in N : f.buf = h.buf => f = h
  PROVE  FatesRight'
<1>1. /\ pc = "classify" /\ i \notin Index /\ Index' = Index \union {i}
  BY NextClassified
<1>2. FatesRight
  BY DEF ClassifierInv
<1>3. UNCHANGED <<ingress_classifier_g, link, pkts>>
  BY DEF Classify, burst
<1>4. \A f \in fate : f.buf[1] \in Index /\ FateOf(f.buf[1], f)'
  BY <1>1, <1>2, <1>3, FateKept DEF FatesRight
<1>5. \A f \in fate' : f.buf[1] \in Index' /\ FateOf(f.buf[1], f)'
  BY <1>1, <1>4
<1>6. \A f, h \in fate' : f.buf = h.buf => f = h
  BY <1>1, <1>2, <1>4 DEF FatesRight
<1>7. QED BY <1>5, <1>6 DEF FatesRight

LEMMA AccountNext ==
  ASSUME ClassifierInv, NEW type, Classify(type), NEW i, i = idx + 1, NEW N, fate' = fate \union N,
         \A f \in N : f.buf[1] = i,
         Waiting' = Waiting \union {j \in {i} : \A f \in N : f.buf # Original(i)},
         type = "BROADCAST" =>
           \A k \in Knis(ingress_classifier_g, link) : \E f \in N : f.buf = CopyFor(i, k) /\ f.to = k
  PROVE  AllAccounted'
<1>1. /\ pc = "classify" /\ i \notin Index /\ Index' = Index \union {i}
      /\ ClassOf(i).pkt_type = type /\ (\A j : ClassOf(j)' = ClassOf(j))
  BY NextClassified
<1>2. FatesRight /\ AllAccounted
  BY <1>1 DEF ClassifierInv
<1>3. /\ Knis(ingress_classifier_g, link)' = Knis(ingress_classifier_g, link)
      /\ \A j, k : CopyFor(j, k)' = CopyFor(j, k)
  BY DEF Classify, burst, CopyFor
<1>4. \A j : Original(j)[1] = j /\ Original(j)' = Original(j)
  BY DEF Original
<1>5. Waiting \subseteq Index
  BY DEF ClassifierInv, TypeOK, Waiting, ToSet
<1>6. ASSUME NEW j \in Index
      PROVE  /\ j \in Waiting' <=> \A f \in fate' : f.buf # Original(j)
             /\ ClassOf(j)'.pkt_type = "BROADCAST" =>
                  \A k \in Knis(ingress_classifier_g, link) :
                    \E f \in fate' : f.buf = CopyFor(j, k) /\ f.to = k
  <2>1. j # i /\ (j \in Waiting' <=> j \in Waiting)
    BY <1>1
  <2>2. \A f \in N : f.buf # Original(j)
    BY <1>4, <2>1
  <2>3. j \in Waiting' <=> \A f \in fate' : f.buf # Original(j)
    BY <1>2, <2>1, <2>2 DEF AllAccounted
  <2>4. QED BY <1>1, <1>2, <2>3 DEF AllAccounted
<1>7. i \in Waiting' <=> \A f \in fate' : f.buf # Original(i)
  <2>1. i \in Waiting' <=> \A f \in N : f.buf # Original(i)
    BY <1>1, <1>5
  <2>2. \A f \in fate : f.buf # Original(i)
    BY <1>1, <1>2, <1>4 DEF FatesRight
  <2>3. QED BY <2>1, <2>2
<1>8. ClassOf(i)'.pkt_type = "BROADCAST" =>
        \A k \in Knis(ingress_classifier_g, link) :
          \E f \in fate' : f.buf = CopyFor(i, k) /\ f.to = k
  BY <1>1
<1>9. QED BY <1>1, <1>3, <1>4, <1>6, <1>7, <1>8 DEF AllAccounted

(* The next packet is put on no list.                                      *)
LEMMA ListsKept ==
  ASSUME ClassifierInv, NEW type, Classify(type), type \notin {"GTP", "OTHERS"},
         UNCHANGED <<pc, kni_pkts, ring_pkts>>
  PROVE  Lists' /\ Waiting' = Waiting
<1>1. /\ pc = "classify" /\ ~Flushed
      /\ OfType("GTP")' = OfType("GTP") /\ OfType("OTHERS")' = OfType("OTHERS")
  BY NextClassified
<1>2. Lists
  BY <1>1 DEF ClassifierInv
<1>3. rx_ring' = rx_ring /\ pc' # "end" /\ ~Flushed'
  BY <1>1 DEF Classify, Flushed
<1>4. Lists'
  BY <1>1, <1>2, <1>3 DEF Lists
<1>5. QED BY <1>3, <1>4 DEF Waiting

LEMMA UnknownStep ==
  ASSUME ClassifierInv, ClassifyUnknown
  PROVE  ClassifierInv'
<1>1. PICK i : i = idx + 1
  OBVIOUS
<1> DEFINE new == [buf |-> Original(i), to |-> NoKni, done |-> "freed"]
<1>2. Classify("UNKNOWN") /\ UNCHANGED <<pc, kni_pkts, ring_pkts>>
  BY DEF ClassifyUnknown
<1>3. /\ pc = "classify" /\ idx' = i /\ Index' = Index \union {i}
      /\ ClassOf(i)' = ClassOf(i) /\ ClassOf(i).pkt_type = "UNKNOWN"
  BY <1>1, <1>2, NextClassified
<1>4. fate' = fate \union {new}
  BY <1>1, <1>3 DEF ClassifyUnknown
<1>5. new.buf[1] = i /\ new.buf = Original(i) /\ FateOf(i, new)'
  BY <1>3 DEF FateOf, Original
<1>6. TypeOK'
  <2>1. new.buf[1] \in Index' /\ new.to \in Kni' /\ new.done \in {"taken", "freed", "lost"}
    BY <1>3, <1>5 DEF Kni
  <2>2. \A f \in fate' : f.buf[1] \in Index' /\ f.to \in Kni' /\ f.done \in {"taken", "freed", "lost"}
    BY <1>2, <1>4, <2>1, TypesKept
  <2>3. QED BY <1>2, <1>3, <2>2, TypesKept DEF TypeOK, KniMap
<1>7. Entries' /\ Burst' /\ Lists' /\ Waiting' = Waiting
  BY <1>2, <1>3, TypesKept, BurstKept, ListsKept
<1> HIDE DEF new
<1> DEFINE N == {new}
<1>8. /\ \A f \in N : f.buf[1] = i /\ FateOf(i, f)'
      /\ \A f, h \in N : f.buf = h.buf => f = h
      /\ Waiting' = Waiting \union {j \in {i} : \A f \in N : f.buf # Original(i)}
  BY <1>5, <1>7
<1>9. fate' = fate \union N
  BY <1>4
<1> HIDE DEF N
<1>10. FatesRight'
  BY <1>1, <1>2, <1>8, <1>9, FatesNext
<1>11. AllAccounted'
  BY <1>1, <1>2, <1>8, <1>9, AccountNext
<1>12. QED BY <1>6, <1>7, <1>10, <1>11 DEF ClassifierInv

LEMMA NoFateNext ==
  ASSUME ClassifierInv, NEW type, Classify(type), UNCHANGED fate
  PROVE  /\ FatesRight'
         /\ type # "BROADCAST" /\ Waiting' = Waiting \union {idx + 1} => AllAccounted'
<1>1. PICK i : i = idx + 1
  OBVIOUS
<1>2. PICK N : N = {}
  OBVIOUS
<1>3. /\ fate' = fate \union N
      /\ \A f \in N : f.buf[1] = i /\ FateOf(i, f)'
      /\ \A f, h \in N : f.buf = h.buf => f = h
  BY <1>2
<1>4. {j \in {i} : \A f \in N : f.buf # Original(i)} = {idx + 1}
  BY <1>1, <1>2
<1>5. FatesRight'
  BY <1>1, <1>3, FatesNext
<1>6. ASSUME type # "BROADCAST", Waiting' = Waiting \union {idx + 1}
      PROVE  AllAccounted'
  BY <1>1, <1>3, <1>4, <1>6, AccountNext
<1>7. QED BY <1>5, <1>6

LEMMA CloneFailsStep ==
  ASSUME ClassifierInv, CloneFails
  PROVE  ClassifierInv'
<1>1. /\ Classify("BROADCAST") /\ pc' = "dead"
      /\ UNCHANGED <<fate, kni_pkts, ring_pkts>>
  BY DEF CloneFails
<1>2. TypeOK'
  BY <1>1, TypesKept DEF TypeOK, KniMap
<1>3. Entries' /\ Burst'
  BY <1>1, TypesKept, BurstKept
<1>4. FatesRight'
  BY <1>1, NoFateNext
<1>5. QED BY <1>1, <1>2, <1>3, <1>4 DEF ClassifierInv

LEMMA GtpStep ==
  ASSUME ClassifierInv, ClassifyGtp
  PROVE  ClassifierInv'
<1>1. PICK i : i = idx + 1
  OBVIOUS
<1>2. Classify("GTP") /\ UNCHANGED <<fate, pc, kni_pkts>>
  BY DEF ClassifyGtp
<1>3. /\ pc = "classify" /\ ~Flushed /\ idx \in Nat /\ idx' = i /\ Index' = Index \union {i}
      /\ ClassOf(i).pkt_type = "GTP"
      /\ OfType("GTP")' = OfType("GTP") \union {i} /\ OfType("OTHERS")' = OfType("OTHERS")
  BY <1>1, <1>2, NextClassified
<1>4. TypeOK /\ Lists
  BY <1>3 DEF ClassifierInv
<1>5. ring_pkts' = Append(ring_pkts, idx + 1)
  BY <1>1, <1>3 DEF ClassifyGtp
<1>6. ring_pkts \in Seq(1 .. idx) /\ Increasing(ring_pkts)
  BY <1>4 DEF TypeOK, Index, Lists
<1>7. /\ ring_pkts' \in Seq(1 .. idx + 1) /\ Increasing(ring_pkts')
      /\ ToSet(ring_pkts') = ToSet(ring_pkts) \union {i}
  BY <1>1, <1>3, <1>5, <1>6, ArrivalAdded
<1>8. Index' = 1 .. idx + 1
  BY <1>1, <1>3 DEF Index
<1>9. TypeOK'
  BY <1>2, <1>3, <1>7, <1>8, TypesKept DEF TypeOK, KniMap
<1>10. Entries' /\ Burst'
  BY <1>2, <1>3, TypesKept, BurstKept
<1>11. rx_ring' = rx_ring /\ pc' # "end" /\ ~Flushed'
  BY <1>2, <1>3 DEF Classify, Flushed
<1>12. Lists'
  BY <1>2, <1>3, <1>4, <1>7, <1>11 DEF Lists
<1>13. Waiting' = Waiting \union {i}
  BY <1>2, <1>7, <1>11 DEF Waiting
<1>14. FatesRight'
  BY <1>2, NoFateNext
<1>15. AllAccounted'
  BY <1>1, <1>2, <1>13, NoFateNext
<1>16. QED BY <1>9, <1>10, <1>12, <1>14, <1>15 DEF ClassifierInv

LEMMA OthersStep ==
  ASSUME ClassifierInv, ClassifyOthers
  PROVE  ClassifierInv'
<1>1. PICK i : i = idx + 1
  OBVIOUS
<1>2. Classify("OTHERS") /\ UNCHANGED <<fate, pc, ring_pkts>>
  BY DEF ClassifyOthers
<1>3. /\ pc = "classify" /\ ~Flushed /\ idx \in Nat /\ idx' = i /\ Index' = Index \union {i}
      /\ ClassOf(i).pkt_type = "OTHERS"
      /\ OfType("OTHERS")' = OfType("OTHERS") \union {i} /\ OfType("GTP")' = OfType("GTP")
  BY <1>1, <1>2, NextClassified
<1>4. TypeOK /\ Lists
  BY <1>3 DEF ClassifierInv
<1>5. kni_pkts' = Append(kni_pkts, idx + 1)
  BY <1>1, <1>3 DEF ClassifyOthers
<1>6. kni_pkts \in Seq(1 .. idx) /\ Increasing(kni_pkts)
  BY <1>4 DEF TypeOK, Index, Lists
<1>7. /\ kni_pkts' \in Seq(1 .. idx + 1) /\ Increasing(kni_pkts')
      /\ ToSet(kni_pkts') = ToSet(kni_pkts) \union {i}
  BY <1>1, <1>3, <1>5, <1>6, ArrivalAdded
<1>8. Index' = 1 .. idx + 1
  BY <1>1, <1>3 DEF Index
<1>9. TypeOK'
  BY <1>2, <1>3, <1>7, <1>8, TypesKept DEF TypeOK, KniMap
<1>10. Entries' /\ Burst'
  BY <1>2, <1>3, TypesKept, BurstKept
<1>11. rx_ring' = rx_ring /\ pc' # "end" /\ ~Flushed'
  BY <1>2, <1>3 DEF Classify, Flushed
<1>12. Lists'
  BY <1>2, <1>3, <1>4, <1>7, <1>11 DEF Lists
<1>13. Waiting' = Waiting \union {i}
  BY <1>2, <1>7, <1>11 DEF Waiting
<1>14. FatesRight'
  BY <1>2, NoFateNext
<1>15. AllAccounted'
  BY <1>1, <1>2, <1>13, NoFateNext
<1>16. QED BY <1>9, <1>10, <1>12, <1>14, <1>15 DEF ClassifierInv

-----------------------------------------------------------------------------
(***************************************************************************)
(* The buffers of a broadcast: no two ports get the same one, the last     *)
(* port gets the packet itself, and the clone for the ARP table is none of *)
(* theirs.                                                                 *)
(***************************************************************************)
LEMMA KnisFacts ==
  ASSUME TypeOK
  PROVE  LET n == Len(ingress_classifier_g[link])
         IN  /\ n \in Nat
             /\ KnisOf(link) = Knis(ingress_classifier_g, link)
             /\ KnisOf(link) = {link} \X (1 .. n)
             /\ \A k \in KnisOf(link) : k # NoKni /\ k = <<link, k[2]>> /\ k[2] \in 1 .. n
<1> DEFINE n == Len(ingress_classifier_g[link])
<1>1. /\ ingress_classifier_g[link] \in Seq([local_ip_addr : Ips, port_no : UdpPorts])
      /\ link \in Links
  BY DEF TypeOK
<1>2. n \in Nat /\ DOMAIN ingress_classifier_g[link] = 1 .. n
  BY <1>1
<1>3. KnisOf(link) = Knis(ingress_classifier_g, link) /\ KnisOf(link) = {link} \X (1 .. n)
  BY <1>2 DEF KnisOf, Knis
<1> HIDE DEF n
<1>4. \A k \in KnisOf(link) : k = <<link, k[2]>> /\ k[2] \in 1 .. n
  BY <1>3
<1>5. \A k \in KnisOf(link) : k \in Links \X (Nat \ {0})
  <2>1. \A m \in 1 .. n : m \in Nat \ {0}
    BY <1>2 DEF n
  <2>2. QED BY <1>1, <1>4, <2>1
<1>6. \A k \in KnisOf(link) : k # NoKni
  BY <1>5, ClassifierAssumption
<1>7. QED BY <1>2, <1>3, <1>4, <1>6 DEF n

LEMMA CopiesDiffer ==
  ASSUME TypeOK, NEW i
  PROVE  /\ \A k \in KnisOf(link) :
              /\ CopyFor(i, k)[1] = i /\ CopyFor(i, k) # ArpClone(i)
              /\ \A h \in KnisOf(link) : CopyFor(i, k) = CopyFor(i, h) => k = h
         /\ KnisOf(link) # {} => \E k \in KnisOf(link) : CopyFor(i, k) = Original(i)
         /\ Original(i)[1] = i /\ ArpClone(i)[1] = i /\ ArpClone(i) # Original(i)
<1> DEFINE n == Len(ingress_classifier_g[link])
<1>1. /\ n \in Nat /\ KnisOf(link) = {link} \X (1 .. n)
      /\ \A k \in KnisOf(link) : k = <<link, k[2]>> /\ k[2] \in 1 .. n
  BY KnisFacts
<1>2. /\ Original(i) = <<i, 0>> /\ ArpClone(i) = <<i, n + 1>>
      /\ \A k : CopyFor(i, k) = IF k[2] = n THEN <<i, 0>> ELSE <<i, k[2]>>
  BY DEF Original, ArpClone, CopyFor, Clone
<1> HIDE DEF n
<1>3. ASSUME NEW k \in KnisOf(link)
      PROVE  CopyFor(i, k)[1] = i /\ CopyFor(i, k) # ArpClone(i)
  <2>1. k[2] \in 1 .. n
    BY <1>1
  <2>2. k[2] # n + 1 /\ 0 # n + 1
    BY <1>1, <2>1
  <2>3. QED BY <1>2, <2>2
<1>4. ASSUME NEW k \in KnisOf(link), NEW h \in KnisOf(link), CopyFor(i, k) = CopyFor(i, h)
      PROVE  k = h
  <2>1. k[2] \in 1 .. n /\ h[2] \in 1 .. n
    BY <1>1
  <2>2. k[2] # 0 /\ h[2] # 0
    BY <1>1, <2>1
  <2>3. k[2] = h[2]
    BY <1>2, <1>4, <2>2
  <2>4. QED BY <1>1, <2>3
<1>5. ASSUME KnisOf(link) # {}
      PROVE  \E k \in KnisOf(link) : CopyFor(i, k) = Original(i)
  <2>1. n \in 1 .. n
    BY <1>1, <1>5
  <2>2. <<link, n>> \in KnisOf(link)
    BY <1>1, <2>1
  <2>3. CopyFor(i, <<link, n>>) = Original(i)
    BY <1>2
  <2>4. QED BY <2>2, <2>3
<1>6. ArpClone(i) # Original(i) /\ Original(i)[1] = i /\ ArpClone(i)[1] = i
  <2>1. n + 1 # 0
    BY <1>1
  <2>2. QED BY <1>2, <2>1
<1>7. QED BY <1>3, <1>4, <1>5, <1>6

(* The fates of a broadcast, those the action adds.                        *)
PortFate(i, takes, k) ==
  [buf |-> CopyFor(i, k), to |-> k, done |-> IF k \in takes THEN "taken" ELSE "freed"]
Lost(b) == [buf |-> b, to |-> NoKni, done |-> "lost"]

BroadcastFates(i, takes) ==
  {PortFate(i, takes, k) : k \in KnisOf(link)}
    \union {f \in {Lost(ArpClone(i))} : pkts[i].kind = "ARP reply"}
    \union {f \in {Lost(Original(i))} : KnisOf(link) = {}}

LEMMA BroadcastAdds ==
  ASSUME TypeOK, ClassifyBroadcast, NEW i, idx' = i
  PROVE  \E takes \in SUBSET KnisOf(link) : fate' = fate \union BroadcastFates(i, takes)
<1> DEFINE Wr(takes, k) == Written(k, <<Copy(k)>>, IF k \in takes THEN 1 ELSE 0)
<1>1. PICK takes \in SUBSET KnisOf(link) :
        fate' = fate \union
          (UNION {Wr(takes, k) : k \in KnisOf(link)})
          \union {[buf |-> ArpClone(idx'), to |-> NoKni, done |-> "lost"] :
                    x \in {p \in {pkts[idx']} : p.kind = "ARP reply"}}
          \union {[buf |-> Original(idx'), to |-> NoKni, done |-> "lost"] :
                    x \in {l \in {link} : KnisOf(l) = {}}}
  BY Zenon DEF ClassifyBroadcast
<1>2. ASSUME NEW k \in KnisOf(link)
      PROVE  Wr(takes, k) = {PortFate(i, takes, k)}
  <2> DEFINE n == IF k \in takes THEN 1 ELSE 0
             W(m) == [buf |-> <<CopyFor(i, k)>>[m], to |-> k,
                      done |-> IF k = NoKni THEN "lost" ELSE IF m <= n THEN "taken" ELSE "freed"]
  <2>1. Copy(k) = CopyFor(i, k)
    BY DEF Copy, CopyFor, Original, Clone
  <2>2. k # NoKni
    BY KnisFacts
  <2>3. DOMAIN <<CopyFor(i, k)>> = {1} /\ <<CopyFor(i, k)>>[1] = CopyFor(i, k)
    OBVIOUS
  <2>4. Written(k, <<CopyFor(i, k)>>, n) = {W(m) : m \in {1}}
    BY <2>3 DEF Written
  <2>5. (1 <= n) <=> k \in takes
    OBVIOUS
  <2> HIDE DEF n
  <2>6. W(1) = PortFate(i, takes, k)
    BY <2>2, <2>3, <2>5 DEF PortFate
  <2> HIDE DEF W
  <2>7. QED BY <2>1, <2>4, <2>6 DEF n, Wr
<1> HIDE DEF Wr
<1>3. UNION {Wr(takes, k) : k \in KnisOf(link)} = {PortFate(i, takes, k) : k \in KnisOf(link)}
  <2>1. \A x : (\E k \in KnisOf(link) : x \in Wr(takes, k))
                 <=> \E k \in KnisOf(link) : x = PortFate(i, takes, k)
    BY <1>2
  <2>2. QED BY <2>1
<1>4. {[buf |-> ArpClone(idx'), to |-> NoKni, done |-> "lost"] :
         x \in {p \in {pkts[idx']} : p.kind = "ARP reply"}}
        = {f \in {Lost(ArpClone(i))} : pkts[i].kind = "ARP reply"}
  <2>1. ArpClone(idx') = ArpClone(i)
    BY DEF ArpClone
  <2>2. QED BY <2>1 DEF Lost
<1>5. {[buf |-> Original(idx'), to |-> NoKni, done |-> "lost"] : x \in {l \in {link} : KnisOf(l) = {}}}
        = {f \in {Lost(Original(i))} : KnisOf(link) = {}}
  <2>1. Original(idx') = Original(i)
    BY DEF Original
  <2>2. QED BY <2>1 DEF Lost
<1>6. fate' = fate \union BroadcastFates(i, takes)
  BY <1>1, <1>3, <1>4, <1>5, Zenon DEF BroadcastFates
<1>7. QED BY <1>6

LEMMA BroadcastFatesFacts ==
  ASSUME TypeOK, NEW i, NEW takes, ClassOf(i).pkt_type = "BROADCAST"
  PROVE  LET N == BroadcastFates(i, takes)
         IN  /\ \A f \in N : /\ f.buf[1] = i /\ FateOf(i, f)
                             /\ f.to \in KnisOf(link) \union {NoKni}
                             /\ f.done \in {"taken", "freed", "lost"}
             /\ \A f, h \in N : f.buf = h.buf => f = h
             /\ \E f \in N : f.buf = Original(i)
             /\ \A k \in KnisOf(link) : \E f \in N : f.buf = CopyFor(i, k) /\ f.to = k
<1> DEFINE N == BroadcastFates(i, takes)
           Port(f) == \E k \in KnisOf(link) : f = PortFate(i, takes, k)
           Arp(f) == f = Lost(ArpClone(i)) /\ pkts[i].kind = "ARP reply"
           Own(f) == f = Lost(Original(i)) /\ KnisOf(link) = {}
<1>1. \A f : f \in N <=> Port(f) \/ Arp(f) \/ Own(f)
  BY Zenon DEF BroadcastFates
<1>2. KnisOf(link) = Knis(ingress_classifier_g, link)
  BY KnisFacts
<1>3. \A k : /\ PortFate(i, takes, k).buf = CopyFor(i, k) /\ PortFate(i, takes, k).to = k
             /\ PortFate(i, takes, k).done \in {"taken", "freed"}
  BY DEF PortFate
<1>4. \A b : Lost(b).buf = b /\ Lost(b).to = NoKni /\ Lost(b).done = "lost"
  BY DEF Lost
<1> HIDE DEF N
<1>5. ASSUME NEW f \in N
      PROVE  /\ f.buf[1] = i /\ FateOf(i, f)
             /\ f.to \in KnisOf(link) \union {NoKni}
             /\ f.done \in {"taken", "freed", "lost"}
  <2>1. CASE Port(f)
    <3>1. PICK k \in KnisOf(link) : f = PortFate(i, takes, k)
      BY <2>1
    <3>2. f.to = k /\ f.buf = CopyFor(i, k) /\ f.done \in {"taken", "freed"}
      BY <1>3, <3>1
    <3>3. FateOf(i, f)
      BY <1>2, <3>2 DEF FateOf
    <3>4. QED BY <3>2, <3>3, CopiesDiffer
  <2>2. CASE Arp(f)
    <3>1. FateOf(i, f)
      BY <2>2 DEF FateOf, Lost
    <3>2. QED BY <1>4, <2>2, <3>1, CopiesDiffer
  <2>3. CASE Own(f)
    <3>1. FateOf(i, f)
      BY <1>2, <2>3 DEF FateOf, Lost
    <3>2. QED BY <1>4, <2>3, <3>1, CopiesDiffer
  <2>4. QED BY <1>1, <2>1, <2>2, <2>3
<1>6. \A f, h \in N : f.buf = h.buf => f = h
  <2> SUFFICES ASSUME NEW f \in N, NEW h \in N, f.buf = h.buf
               PROVE  f = h
    OBVIOUS
  <2>1. \A k, m \in KnisOf(link) : CopyFor(i, k) = CopyFor(i, m) => k = m
    BY CopiesDiffer
  <2>2. \A k \in KnisOf(link) : CopyFor(i, k) # ArpClone(i)
    BY CopiesDiffer
  <2>3. CASE Port(f) /\ Port(h)
    <3>1. PICK k \in KnisOf(link) : f = PortFate(i, takes, k)
      BY <2>3
    <3>2. PICK m \in KnisOf(link) : h = PortFate(i, takes, m)
      BY <2>3
    <3>3. CopyFor(i, k) = CopyFor(i, m)
      BY <1>3, <3>1, <3>2
    <3>4. QED BY <2>1, <3>1, <3>2, <3>3
  <2>4. CASE ~Port(f) \/ ~Port(h)
    <3>1. \A x : Port(x) => /\ x.buf # ArpClone(i) /\ KnisOf(link) # {}
      BY <1>3, <2>2
    <3>2. \A x : Arp(x) => x.buf = ArpClone(i)
      BY <1>4
    <3>3. \A x : Own(x) => x.buf = Original(i) /\ KnisOf(link) = {}
      BY <1>4
    <3>4. ArpClone(i) # Original(i)
      BY CopiesDiffer
    <3>5. (Arp(f) /\ Arp(h)) \/ (Own(f) /\ Own(h)) => f = h
      OBVIOUS
    <3> HIDE DEF Port, Arp, Own
    <3>6. QED BY <1>1, <2>4, <3>1, <3>2, <3>3, <3>4, <3>5
  <2>5. QED BY <2>3, <2>4
<1>7. \A k \in KnisOf(link) : \E f \in N : f.buf = CopyFor(i, k) /\ f.to = k
  BY <1>1, <1>3
<1>8. \E f \in N : f.buf = Original(i)
  <2>1. CASE KnisOf(link) = {}
    BY <1>1, <1>4, <2>1
  <2>2. CASE KnisOf(link) # {}
    <3>1. PICK k \in KnisOf(link) : CopyFor(i, k) = Original(i)
      BY <2>2, CopiesDiffer
    <3>2. PICK f \in N : f.buf = CopyFor(i, k)
      BY <1>7
    <3>3. QED BY <3>1, <3>2
  <2>3. QED BY <2>1, <2>2
<1>9. QED BY <1>5, <1>6, <1>7, <1>8 DEF N

LEMMA BroadcastStep ==
  ASSUME ClassifierInv, ClassifyBroadcast
  PROVE  ClassifierInv'
<1>1. PICK i : i = idx + 1
  OBVIOUS
<1>2. Classify("BROADCAST") /\ UNCHANGED <<pc, kni_pkts, ring_pkts>>
  BY DEF ClassifyBroadcast
<1>3. /\ pc = "classify" /\ idx' = i /\ Index' = Index \union {i}
      /\ ClassOf(i).pkt_type = "BROADCAST"
  BY <1>1, <1>2, NextClassified
<1>4. TypeOK
  BY DEF ClassifierInv
<1>5. PICK takes \in SUBSET KnisOf(link) : fate' = fate \union BroadcastFates(i, takes)
  BY <1>3, <1>4, BroadcastAdds
<1>6. PICK N : N = BroadcastFates(i, takes)
  OBVIOUS
<1>7. /\ \A f \in N : /\ f.buf[1] = i /\ FateOf(i, f)
                      /\ f.to \in KnisOf(link) \union {NoKni}
                      /\ f.done \in {"taken", "freed", "lost"}
      /\ \A f, h \in N : f.buf = h.buf => f = h
      /\ \E f \in N : f.buf = Original(i)
      /\ \A k \in KnisOf(link) : \E f \in N : f.buf = CopyFor(i, k) /\ f.to = k
  BY <1>3, <1>4, <1>6, BroadcastFatesFacts
<1>8. /\ UNCHANGED <<ingress_classifier_g, link, pkts>>
      /\ KnisOf(link) = Knis(ingress_classifier_g, link)
  BY <1>2, <1>4, KnisFacts DEF Classify, burst
<1>9. \A f \in N : FateOf(i, f)'
  BY <1>3, <1>7, <1>8, FateKept
<1>10. TypeOK'
  <2>1. KnisOf(link) \union {NoKni} \subseteq Kni'
    <3>1. Kni' = Kni /\ link \in Links
      BY <1>2, <1>4, TypesKept DEF TypeOK
    <3>2. QED BY <3>1 DEF Kni
  <2>2. \A f \in N : f.buf[1] \in Index' /\ f.to \in Kni' /\ f.done \in {"taken", "freed", "lost"}
    BY <1>3, <1>7, <2>1
  <2>3. \A f \in fate' : f.buf[1] \in Index' /\ f.to \in Kni' /\ f.done \in {"taken", "freed", "lost"}
    BY <1>2, <1>5, <1>6, <2>2, TypesKept
  <2>4. QED BY <1>2, <1>3, <2>3, TypesKept DEF TypeOK, KniMap
<1>11. Entries' /\ Burst' /\ Lists' /\ Waiting' = Waiting
  BY <1>2, <1>3, TypesKept, BurstKept, ListsKept
<1>12. FatesRight'
  BY <1>1, <1>2, <1>5, <1>6, <1>7, <1>9, FatesNext
<1>13. AllAccounted'
  <2>1. Waiting' = Waiting \union {j \in {i} : \A f \in N : f.buf # Original(i)}
    BY <1>7, <1>11
  <2>2. QED BY <1>1, <1>2, <1>5, <1>6, <1>7, <1>8, <2>1, AccountNext
<1>14. QED BY <1>10, <1>11, <1>12, <1>13 DEF ClassifierInv

-----------------------------------------------------------------------------
(***************************************************************************)
(* The end of the burst: the packets R stop waiting and get the fates N.   *)
(***************************************************************************)
LEMMA Settled ==
  ASSUME ClassifierInv, pc # "dead", UNCHANGED <<ingress_classifier_g, link, pkts, idx>>,
         pc = "classify" \/ (kni_ptr' = kni_ptr /\ pc = "ring" /\ pc' = "end"),
         NEW R \in SUBSET Waiting, Waiting' = Waiting \ R, NEW N, fate' = fate \union N,
         \A f \in N : \E j \in R : f.buf = Original(j) /\ FateOf(j, f)',
         \A f, h \in N : f.buf = h.buf => f = h,
         \A j \in R : \E f \in N : f.buf = Original(j)
  PROVE  FatesRight' /\ AllAccounted'
<1>1. FatesRight /\ AllAccounted /\ TypeOK
  BY DEF ClassifierInv
<1>2. Index' = Index /\ R \subseteq Index
  <2>1. Waiting \subseteq Index
    BY <1>1 DEF TypeOK, Waiting, ToSet
  <2>2. QED BY <2>1 DEF Index
<1>3. \A j : Original(j)[1] = j
  BY DEF Original
<1>4. \A f \in N : f.buf[1] \in R /\ f.buf = Original(f.buf[1]) /\ FateOf(f.buf[1], f)'
  <2> SUFFICES ASSUME NEW f \in N
               PROVE  f.buf[1] \in R /\ f.buf = Original(f.buf[1]) /\ FateOf(f.buf[1], f)'
    OBVIOUS
  <2>1. PICK j \in R : f.buf = Original(j) /\ FateOf(j, f)'
    OBVIOUS
  <2>2. f.buf[1] = j
    BY <1>3, <2>1
  <2>3. QED BY <2>1, <2>2
<1>5. \A f \in fate : f.buf[1] \in Index /\ FateOf(f.buf[1], f)'
  BY <1>1, FateKept DEF FatesRight
<1>6. \A f \in fate : \A j \in R : f.buf # Original(j)
  BY <1>1, <1>2 DEF AllAccounted
<1>7. FatesRight'
  <2>1. \A f \in fate' : f.buf[1] \in Index' /\ FateOf(f.buf[1], f)'
    BY <1>2, <1>4, <1>5
  <2>2. \A f, h \in fate' : f.buf = h.buf => f = h
    <3> SUFFICES ASSUME NEW f \in fate', NEW h \in fate', f.buf = h.buf
                 PROVE  f = h
      OBVIOUS
    <3>1. CASE f \in fate /\ h \in fate
      BY <1>1, <3>1 DEF FatesRight
    <3>2. CASE f \in N /\ h \in N
      BY <3>2
    <3>3. CASE f \in fate /\ h \in N
      BY <1>4, <1>6, <3>3
    <3>4. CASE f \in N /\ h \in fate
      BY <1>4, <1>6, <3>4
    <3>5. QED BY <3>1, <3>2, <3>3, <3>4
  <2>3. QED BY <2>1, <2>2 DEF FatesRight
<1>8. /\ \A j : ClassOf(j)' = ClassOf(j)
      /\ Knis(ingress_classifier_g, link)' = Knis(ingress_classifier_g, link)
      /\ \A j, k : CopyFor(j, k)' = CopyFor(j, k)
  BY DEF ClassOf, CopyFor
<1>9. \A j \in Index : j \in Waiting' <=> \A f \in fate' : f.buf # Original(j)
  <2> SUFFICES ASSUME NEW j \in Index
               PROVE  j \in Waiting' <=> \A f \in fate' : f.buf # Original(j)
    OBVIOUS
  <2>1. CASE j \in R
    BY <2>1
  <2>2. CASE j \notin R
    <3>1. \A f \in N : f.buf # Original(j)
      BY <1>3, <1>4, <2>2
    <3>2. j \in Waiting <=> \A f \in fate : f.buf # Original(j)
      BY <1>1 DEF AllAccounted
    <3>3. QED BY <2>2, <3>1, <3>2
  <2>3. QED BY <2>1, <2>2
<1>10. \A j \in Index : ClassOf(j).pkt_type = "BROADCAST" =>
         \A k \in Knis(ingress_classifier_g, link) : \E f \in fate' : f.buf = CopyFor(j, k) /\ f.to = k
  BY <1>1 DEF AllAccounted
<1>11. AllAccounted'
  <2>1. \A j : Original(j)' = Original(j)
    BY DEF Original
  <2>2. QED BY <1>2, <1>8, <1>9, <1>10, <2>1 DEF AllAccounted
<1>12. QED BY <1>7, <1>11

LEMMA FlushStep ==
  ASSUME ClassifierInv, NEW n \in 0 .. Len(kni_pkts), FlushKni(n)
  PROVE  ClassifierInv'
<1> DEFINE done(m) == IF kni_ptr = NoKni THEN "lost" ELSE IF m <= n THEN "taken" ELSE "freed"
           new(m) == [buf |-> Original(kni_pkts[m]), to |-> kni_ptr, done |-> done(m)]
<1>1. /\ pc = "classify" /\ pc' = "ring" /\ idx = Len(pkts) /\ kni_pkts' = <<>>
      /\ UNCHANGED <<added, ingress_classifier_g, link, pkts, idx, kni_ptr, ring_pkts, rx_ring>>
  BY DEF FlushKni, burst
<1>2. TypeOK /\ Entries /\ Burst /\ Lists
  BY <1>1 DEF ClassifierInv
<1>3. fate' = fate \union {new(m) : m \in DOMAIN kni_pkts}
  <2> DEFINE bufs == [i \in DOMAIN kni_pkts |-> Original(kni_pkts[i])]
  <2>1. DOMAIN bufs = DOMAIN kni_pkts /\ (\A m \in DOMAIN kni_pkts : bufs[m] = Original(kni_pkts[m]))
    OBVIOUS
  <2>2. fate' = fate \union Written(kni_ptr, bufs, n)
    BY DEF FlushKni, FlushTo
  <2> HIDE DEF bufs
  <2>3. Written(kni_ptr, bufs, n) = {new(m) : m \in DOMAIN kni_pkts}
    BY <2>1 DEF Written
  <2>4. QED BY <2>2, <2>3
<1>4. \A m : done(m) \in {"taken", "freed", "lost"} /\ (done(m) = "lost" <=> kni_ptr = NoKni)
  OBVIOUS
<1>5. \A m : new(m).buf = Original(kni_pkts[m]) /\ new(m).to = kni_ptr /\ new(m).done = done(m)
  OBVIOUS
<1> HIDE DEF done, new
<1>6. \A m \in DOMAIN kni_pkts : kni_pkts[m] \in ToSet(kni_pkts)
  BY DEF ToSet
<1>7. ToSet(kni_pkts) = OfType("OTHERS") /\ ToSet(ring_pkts) = OfType("GTP") /\ ToSet(rx_ring) = {}
  BY <1>1, <1>2 DEF Lists, Flushed
<1>8. ToSet(kni_pkts) \subseteq Index /\ Index' = Index
  BY <1>1, <1>7 DEF OfType, Index
<1> DEFINE R == ToSet(kni_pkts)
           N == {new(m) : m \in DOMAIN kni_pkts}
<1>9. R \in SUBSET Waiting /\ Waiting' = Waiting \ R
  <2>1. OfType("OTHERS") \intersect OfType("GTP") = {}
    BY DEF OfType
  <2>2. Waiting' = ToSet(ring_pkts) \union ToSet(rx_ring)
    BY <1>1, EmptyList DEF Waiting
  <2>3. QED BY <1>7, <2>1, <2>2 DEF Waiting
<1>10. \A f \in N : \E j \in R : f.buf = Original(j) /\ FateOf(j, f)'
  <2> SUFFICES ASSUME NEW f \in N
               PROVE  \E j \in R : f.buf = Original(j) /\ FateOf(j, f)'
    OBVIOUS
  <2>1. PICK m \in DOMAIN kni_pkts : f = new(m)
    OBVIOUS
  <2>2. PICK j \in R : j = kni_pkts[m]
    BY <1>6
  <2>3. f.buf = Original(j) /\ f.to = kni_ptr /\ f.done = done(m)
    BY <1>5, <2>1, <2>2
  <2>4. ClassOf(j)' = ClassOf(j) /\ ClassOf(j).pkt_type = "OTHERS"
    BY <1>1, <1>7 DEF ClassOf, OfType
  <2>5. FateOf(j, f)'
    BY <1>1, <1>4, <2>3, <2>4 DEF FateOf, Flushed, Original
  <2>6. QED BY <2>3, <2>5
<1>11. \A f, h \in N : f.buf = h.buf => f = h
  <2> SUFFICES ASSUME NEW a \in DOMAIN kni_pkts, NEW b \in DOMAIN kni_pkts, new(a).buf = new(b).buf
               PROVE  a = b
    OBVIOUS
  <2>1. kni_pkts[a] = kni_pkts[b]
    BY <1>5 DEF Original
  <2>2. Increasing(kni_pkts) /\ kni_pkts \in Seq(Index) /\ Index \in SUBSET Nat
    BY <1>2 DEF Lists, TypeOK, Index
  <2>3. QED BY <2>1, <2>2, NotTwice
<1>12. \A j \in R : \E f \in N : f.buf = Original(j)
  BY <1>5 DEF ToSet
<1>13. TypeOK'
  <2>1. Kni' = Kni
    BY <1>1 DEF Kni, KnisOf
  <2>2. \A m \in DOMAIN kni_pkts : /\ new(m).buf[1] \in Index /\ new(m).to \in Kni
                                    /\ new(m).done \in {"taken", "freed", "lost"}
    BY <1>2, <1>4, <1>5, <1>6, <1>8 DEF Original, TypeOK
  <2>3. \A f \in fate' : f.buf[1] \in Index' /\ f.to \in Kni' /\ f.done \in {"taken", "freed", "lost"}
    BY <1>2, <1>3, <1>8, <2>1, <2>2 DEF TypeOK
  <2>4. QED BY <1>1, <1>2, <1>8, <2>1, <2>3, EmptyList DEF TypeOK
<1>14. Entries' /\ Burst'
  BY <1>1, <1>2 DEF Entries, Burst, Flushed, ClassOf
<1>15. Lists'
  <2>1. \A t : OfType(t)' = OfType(t)
    BY <1>1, <1>8 DEF OfType, ClassOf
  <2>2. QED BY <1>1, <1>2, <1>7, <2>1, EmptyList DEF Lists, Flushed
<1> HIDE DEF R, N
<1>16. FatesRight' /\ AllAccounted'
  BY <1>1, <1>3, <1>9, <1>10, <1>11, <1>12, Settled DEF N
<1>17. QED BY <1>13, <1>14, <1>15, <1>16 DEF ClassifierInv

LEMMA RingStep ==
  ASSUME ClassifierInv, NEW n \in 0 .. Len(ring_pkts), ring_write(n)
  PROVE  ClassifierInv'
<1> DEFINE new(j) == [buf |-> Original(j), to |-> NoKni, done |-> "freed"]
           R == {ring_pkts[m] : m \in n + 1 .. Len(ring_pkts)}
           N == {new(j) : j \in R}
<1>1. /\ pc = "ring" /\ pc' = "end" /\ ring_pkts' = <<>> /\ rx_ring' = SubSeq(ring_pkts, 1, n)
      /\ UNCHANGED <<added, ingress_classifier_g, link, pkts, idx, kni_ptr, kni_pkts>>
  BY DEF ring_write, burst
<1>2. TypeOK /\ Entries /\ Burst /\ Lists
  BY <1>1 DEF ClassifierInv
<1>3. fate' = fate \union N
  BY DEF ring_write
<1>4. \A j : new(j).buf = Original(j) /\ new(j).to = NoKni /\ new(j).done = "freed"
  OBVIOUS
<1>5. ring_pkts \in Seq(Index) /\ Index \in SUBSET Nat /\ Increasing(ring_pkts) /\ Index' = Index
  BY <1>1, <1>2 DEF TypeOK, Index, Lists
<1>6. /\ rx_ring' \in Seq(Index) /\ Increasing(rx_ring')
      /\ ToSet(ring_pkts) = ToSet(rx_ring') \union R
      /\ \A i \in R : \A j \in ToSet(rx_ring') : j < i
  BY <1>1, <1>5, FirstTaken
<1>7. ToSet(kni_pkts) = {} /\ ToSet(ring_pkts) = OfType("GTP") /\ ToSet(rx_ring) = {}
  BY <1>1, <1>2 DEF Lists, Flushed
<1> HIDE DEF new, R
<1>8. R \subseteq OfType("GTP") /\ OfType("GTP") \subseteq Index
  BY <1>6, <1>7 DEF OfType
<1>9. R \in SUBSET Waiting /\ Waiting' = Waiting \ R
  <2>1. ToSet(rx_ring') \intersect R = {}
    <3>1. \A i \in R : i \in Nat
      BY <1>5, <1>8
    <3>2. \A i \in Nat : ~(i < i)
      OBVIOUS
    <3>3. QED BY <1>6, <3>1, <3>2
  <2>2. Waiting' = ToSet(rx_ring')
    BY <1>1, <1>7, EmptyList DEF Waiting
  <2>3. Waiting = ToSet(ring_pkts)
    BY <1>7 DEF Waiting
  <2>4. QED BY <1>6, <2>1, <2>2, <2>3
<1>10. \A f \in N : \E j \in R : f.buf = Original(j) /\ FateOf(j, f)'
  <2> SUFFICES ASSUME NEW j \in R, NEW f, f = new(j)
               PROVE  f.buf = Original(j) /\ FateOf(j, f)'
    OBVIOUS
  <2>1. ClassOf(j)' = ClassOf(j) /\ ClassOf(j).pkt_type = "GTP"
    BY <1>1, <1>8 DEF ClassOf, OfType
  <2>2. FateOf(j, f)'
    BY <1>1, <2>1 DEF FateOf, new, Original
  <2>3. QED BY <1>4, <2>2
<1>11. \A f, h \in N : f.buf = h.buf => f = h
  <2> SUFFICES ASSUME NEW a \in R, NEW b \in R, new(a).buf = new(b).buf
               PROVE  a = b
    OBVIOUS
  <2>1. QED BY <1>4 DEF Original
<1>12. \A j \in R : \E f \in N : f.buf = Original(j)
  BY <1>4
<1>13. TypeOK'
  <2>1. Kni' = Kni /\ NoKni \in Kni
    BY <1>1 DEF Kni, KnisOf
  <2>2. \A f \in N : f.buf[1] \in Index /\ f.to \in Kni /\ f.done \in {"taken", "freed", "lost"}
    BY <1>4, <1>8, <2>1 DEF Original
  <2>3. \A f \in fate' : f.buf[1] \in Index' /\ f.to \in Kni' /\ f.done \in {"taken", "freed", "lost"}
    BY <1>2, <1>3, <1>5, <2>1, <2>2 DEF TypeOK
  <2>4. QED BY <1>1, <1>2, <1>5, <1>6, <2>1, <2>3, EmptyList DEF TypeOK
<1>14. Entries' /\ Burst'
  BY <1>1, <1>2 DEF Entries, Burst, Flushed, ClassOf
<1>15. Lists'
  <2>1. \A t : OfType(t)' = OfType(t)
    BY <1>1, <1>5 DEF OfType, ClassOf
  <2>2. \A i \in OfType("GTP") \ ToSet(rx_ring') : i \in R
    BY <1>6, <1>7
  <2>3. ToSet(rx_ring') \subseteq OfType("GTP")
    BY <1>6, <1>7
  <2>4. QED BY <1>1, <1>2, <1>6, <1>7, <2>1, <2>2, <2>3, EmptyList DEF Lists, Flushed
<1> HIDE DEF N
<1>16. FatesRight' /\ AllAccounted'
  BY <1>1, <1>3, <1>9, <1>10, <1>11, <1>12, Settled
<1>17. QED BY <1>13, <1>14, <1>15, <1>16 DEF ClassifierInv

-----------------------------------------------------------------------------
LEMMA StutterStep ==
  ASSUME ClassifierInv, UNCHANGED vars
  PROVE  ClassifierInv'
<1> USE DEF vars, burst
<1>1. TypeOK => TypeOK'
  BY DEF TypeOK, Kni, KnisOf, Index
<1>2. Entries => Entries'
  BY DEF Entries
<1>3. /\ \A j : ClassOf(j)' = ClassOf(j) /\ ArpClone(j)' = ArpClone(j)
      /\ \A j, k : CopyFor(j, k)' = CopyFor(j, k)
      /\ Index' = Index /\ Flushed' = Flushed /\ Waiting' = Waiting
      /\ \A t : OfType(t)' = OfType(t)
  BY DEF ClassOf, CopyFor, Index, Flushed, Waiting, OfType, ArpClone
<1>4. Burst => Burst'
  BY DEF Burst, Flushed, ClassOf
<1>5. \A i, f : FateOf(i, f) => FateOf(i, f)'
  <2> SUFFICES ASSUME NEW i, NEW f, FateOf(i, f)
               PROVE  FateOf(i, f)'
    OBVIOUS
  <2>1. ClassOf(i)' = ClassOf(i) /\ CopyFor(i, f.to)' = CopyFor(i, f.to) /\ ArpClone(i)' = ArpClone(i)
    BY <1>3
  <2>2. QED BY <1>3, <2>1 DEF FateOf
<1>6. FatesRight => FatesRight'
  BY <1>3, <1>5 DEF FatesRight
<1>7. Lists => Lists'
  BY <1>3 DEF Lists
<1>8. AllAccounted => AllAccounted'
  <2>1. \A j : Original(j)' = Original(j)
    BY DEF Original
  <2>2. QED BY <1>3, <2>1 DEF AllAccounted
<1>9. QED BY <1>1, <1>2, <1>4, <1>6, <1>7, <1>8 DEF ClassifierInv

(* Every reachable state satisfies the invariant.                          *)
THEOREM ClassifierInvariant == Spec => []ClassifierInv
<1>1. Init => ClassifierInv
  <2> SUFFICES ASSUME Init
               PROVE  Fresh
    BY FreshInv
  <2>1. ingress_classifier_g \in KniMap
    BY EmptyList DEF Init, KniMap
  <2>2. Entries
    BY DEF Init, Entries
  <2>3. 0 \in 0 .. Len(Configured)
    BY ClassifierAssumption
  <2>4. QED BY <2>1, <2>2, <2>3 DEF Init, Fresh, NothingPending
<1>2. ClassifierInv /\ [Next]_vars => ClassifierInv'
  <2> SUFFICES ASSUME ClassifierInv, [Next]_vars
               PROVE  ClassifierInv'
    OBVIOUS
  <2>1. CASE \E opened \in BOOLEAN : pfm_ingress_classifier_add(opened)
    BY <2>1, AddStep
  <2>2. CASE \E l \in Links, n \in 1 .. RX_BURST_SIZE : \E b \in [1 .. n -> Packets] : Receive(l, b)
    BY <2>2, ReceiveStep
  <2>3. CASE ClassifyGtp
    BY <2>3, GtpStep
  <2>4. CASE ClassifyOthers
    BY <2>4, OthersStep
  <2>5. CASE ClassifyUnknown
    BY <2>5, UnknownStep
  <2>6. CASE ClassifyBroadcast
    BY <2>6, BroadcastStep
  <2>7. CASE CloneFails
    BY <2>7, CloneFailsStep
  <2>8. CASE \E n \in 0 .. Len(kni_pkts) : FlushKni(n)
    BY <2>8, FlushStep
  <2>9. CASE \E n \in 0 .. Len(ring_pkts) : ring_write(n)
    BY <2>9, RingStep
  <2>10. CASE Return
    BY <2>10, ReturnStep
  <2>11. CASE UNCHANGED vars
    BY <2>11, StutterStep
  <2>12. QED BY <2>1, <2>2, <2>3, <2>4, <2>5, <2>6, <2>7, <2>8, <2>9, <2>10, <2>11 DEF Next
<1>3. QED BY <1>1, <1>2, PTL DEF Spec

-----------------------------------------------------------------------------
(***************************************************************************)
(* The properties of the run, from the invariant.                          *)
(***************************************************************************)
THEOREM ClassifierTypeOK == Spec => []TypeOK
BY ClassifierInvariant, PTL DEF ClassifierInv

(* Where a packet is looked for is where its class says it is.             *)
LEMMA OneList ==
  ASSUME Lists, TypeOK, NEW i \in Index
  PROVE  /\ Cardinality(Positions(kni_pkts, i)) \in {0, 1}
         /\ Cardinality(Positions(ring_pkts, i)) \in {0, 1}
         /\ Cardinality(Positions(rx_ring, i)) \in {0, 1}
         /\ Cardinality(Positions(kni_pkts, i)) + Cardinality(Positions(ring_pkts, i))
               + Cardinality(Positions(rx_ring, i)) = IF i \in Waiting THEN 1 ELSE 0
<1>1. Index \in SUBSET Nat
  BY DEF TypeOK, Index
<1>2. /\ Cardinality(Positions(kni_pkts, i)) = IF i \in ToSet(kni_pkts) THEN 1 ELSE 0
      /\ Cardinality(Positions(ring_pkts, i)) = IF i \in ToSet(ring_pkts) THEN 1 ELSE 0
      /\ Cardinality(Positions(rx_ring, i)) = IF i \in ToSet(rx_ring) THEN 1 ELSE 0
  BY <1>1, PositionsCounted DEF Lists, TypeOK
<1>3. ~(i \in ToSet(kni_pkts) /\ i \in ToSet(ring_pkts))
  <2>1. OfType("OTHERS") \intersect OfType("GTP") = {}
    BY DEF OfType
  <2>2. ToSet(kni_pkts) \subseteq OfType("OTHERS") /\ ToSet(ring_pkts) \subseteq OfType("GTP")
    BY DEF Lists
  <2>3. QED BY <2>1, <2>2
<1>4. i \in ToSet(rx_ring) => i \notin ToSet(kni_pkts) /\ i \notin ToSet(ring_pkts)
  BY DEF Lists, Flushed
<1>5. QED BY <1>2, <1>3, <1>4 DEF Waiting

(* What a fate says, field by field.                                       *)
LEMMA FateFields ==
  ASSUME NEW i, NEW f, FateOf(i, f)
  PROVE  LET t == ClassOf(i).pkt_type
         IN  \/ t = "UNKNOWN" /\ f.buf = Original(i) /\ f.to = NoKni /\ f.done = "freed"
             \/ /\ t = "BROADCAST" /\ f.to \in Knis(ingress_classifier_g, link)
                /\ f.buf = CopyFor(i, f.to) /\ f.done \in {"taken", "freed"}
             \/ /\ t = "BROADCAST" /\ pkts[i].kind = "ARP reply"
                /\ f.buf = ArpClone(i) /\ f.to = NoKni /\ f.done = "lost"
             \/ /\ t = "BROADCAST" /\ Knis(ingress_classifier_g, link) = {}
                /\ f.buf = Original(i) /\ f.to = NoKni /\ f.done = "lost"
             \/ /\ t = "OTHERS" /\ Flushed /\ f.buf = Original(i) /\ f.to = kni_ptr
                /\ f.done \in {"taken", "freed", "lost"} /\ (f.done = "lost" <=> kni_ptr = NoKni)
             \/ /\ t = "GTP" /\ pc = "end"
                /\ f.buf = Original(i) /\ f.to = NoKni /\ f.done = "freed"
<1> DEFINE rec(b, d) == [buf |-> b, to |-> NoKni, done |-> d]
<1>1. \A b, d : f = rec(b, d) => f.buf = b /\ f.to = NoKni /\ f.done = d
  OBVIOUS
<1>2. LET t == ClassOf(i).pkt_type
      IN  \/ t = "UNKNOWN" /\ f = rec(Original(i), "freed")
          \/ /\ t = "BROADCAST" /\ f.to \in Knis(ingress_classifier_g, link)
             /\ f.buf = CopyFor(i, f.to) /\ f.done \in {"taken", "freed"}
          \/ t = "BROADCAST" /\ pkts[i].kind = "ARP reply" /\ f = rec(ArpClone(i), "lost")
          \/ t = "BROADCAST" /\ Knis(ingress_classifier_g, link) = {} /\ f = rec(Original(i), "lost")
          \/ /\ t = "OTHERS" /\ Flushed /\ f.buf = Original(i) /\ f.to = kni_ptr
             /\ f.done \in {"taken", "freed", "lost"} /\ (f.done = "lost" <=> kni_ptr = NoKni)
          \/ t = "GTP" /\ pc = "end" /\ f = rec(Original(i), "freed")
  BY Zenon DEF FateOf
<1> HIDE DEF rec
<1>3. QED BY <1>1, <1>2, Zenon

LEMMA OneFateHolds == ClassifierInv => OneFate
<1> SUFFICES ASSUME ClassifierInv, pc # "dead"
             PROVE  OneFate
  BY DEF OneFate
<1>1. TypeOK /\ Burst /\ FatesRight /\ Lists /\ AllAccounted
  BY DEF ClassifierInv
<1>2. ASSUME NEW i \in Index
      PROVE  1 = Cardinality(Positions(kni_pkts, i)) + Cardinality(Positions(ring_pkts, i))
                 + Cardinality(Positions(rx_ring, i)) + Cardinality(FatesOf(Original(i)))
  <2>1. Cardinality(FatesOf(Original(i))) = IF i \in Waiting THEN 0 ELSE 1
    <3>1. CASE i \in Waiting
      <4>1. FatesOf(Original(i)) = {}
        BY <1>1, <3>1 DEF AllAccounted, FatesOf
      <4>2. QED BY <3>1, <4>1, FS_EmptySet
    <3>2. CASE i \notin Waiting
      <4>1. PICK f \in fate : f.buf = Original(i)
        BY <1>1, <3>2 DEF AllAccounted
      <4>2. FatesOf(Original(i)) = {f}
        BY <1>1, <4>1 DEF FatesRight, FatesOf
      <4>3. QED BY <3>2, <4>2, FS_Singleton
    <3>3. QED BY <3>1, <3>2
  <2>2. Cardinality(Positions(kni_pkts, i)) + Cardinality(Positions(ring_pkts, i))
          + Cardinality(Positions(rx_ring, i)) = IF i \in Waiting THEN 1 ELSE 0
    BY <1>1, OneList
  <2>3. QED BY <2>1, <2>2
<1>3. \A f, g \in fate : f.buf = g.buf => f = g
  BY <1>1 DEF FatesRight
<1>4. ASSUME NEW f \in fate, f.done = "lost"
      PROVE  \/ f.buf = ArpClone(f.buf[1]) /\ pkts[f.buf[1]].kind = "ARP reply"
             \/ f.buf = Original(f.buf[1])
                /\ (KnisOf(link) = {} \/ Addressee(Last(pkts)) = NoKni)
  <2>1. PICK i \in Index : i = f.buf[1]
    BY <1>1 DEF FatesRight
  <2>2. FateOf(i, f)
    BY <1>1, <2>1 DEF FatesRight
  <2>3. \/ f.buf = ArpClone(i) /\ pkts[i].kind = "ARP reply"
        \/ f.buf = Original(i) /\ Knis(ingress_classifier_g, link) = {}
        \/ f.buf = Original(i) /\ Flushed /\ kni_ptr = NoKni
    BY <1>4, <2>2, FateFields
  <2>4. Flushed => kni_ptr = Addressee(Last(pkts))
    <3>1. idx # 0
      BY <1>1 DEF TypeOK, Index
    <3>2. Flushed => idx = Len(pkts) /\ kni_ptr = ClassOf(Len(pkts)).kni
      BY <1>1, <3>1 DEF Burst
    <3>3. ClassOf(Len(pkts)).kni = Addressee(Last(pkts))
      BY Classed DEF ClassOf, Addressee, Last
    <3>4. QED BY <3>2, <3>3
  <2>5. QED BY <1>1, <2>1, <2>3, <2>4, KnisFacts
<1>5. QED BY <1>2, <1>3, <1>4 DEF OneFate

(* No packet the classifier takes is handed over twice, or handed over and *)
(* freed, or forgotten, apart from the known losses.                       *)
THEOREM ClassifierOneFate == Spec => []OneFate
BY ClassifierInvariant, OneFateHolds, PTL

(* The classes of the packets that have been classified.                   *)
LEMMA IndexFacts ==
  ASSUME TypeOK, NEW i \in Index
  PROVE  /\ pkts[i] \in Packets /\ ingress_classifier_g \in KniMap /\ link \in Links
         /\ IsBroadcast(pkts[i]) <=> ClassOf(i).pkt_type = "BROADCAST"
<1>1. \A j \in 1 .. Len(pkts) : pkts[j] \in Packets
  BY DEF TypeOK
<1>2. i \in 1 .. Len(pkts)
  BY DEF TypeOK, Index
<1>3. ingress_classifier_g \in KniMap /\ link \in Links
  BY DEF TypeOK, KniMap
<1>4. QED BY <1>1, <1>2, <1>3, ClassFacts DEF ClassOf

LEMMA BroadcastToAllHolds == ClassifierInv => BroadcastToAll
<1> SUFFICES ASSUME ClassifierInv, pc # "dead", NEW i \in Index, IsBroadcast(pkts[i])
             PROVE  LET offers == {f \in fate : f.buf[1] = i /\ f.to # NoKni}
                    IN  /\ {f.to : f \in offers} = KnisOf(link)
                        /\ Cardinality(offers) = Cardinality(KnisOf(link))
                        /\ KnisOf(link) # {} => Original(i) \in {f.buf : f \in offers}
  BY DEF BroadcastToAll
<1> DEFINE offers == {f \in fate : f.buf[1] = i /\ f.to # NoKni}
           n == Len(ingress_classifier_g[link])
<1>1. TypeOK /\ FatesRight /\ AllAccounted
  BY DEF ClassifierInv
<1>2. ClassOf(i).pkt_type = "BROADCAST"
  BY <1>1, IndexFacts
<1>3. /\ KnisOf(link) = Knis(ingress_classifier_g, link)
      /\ \A k \in KnisOf(link) : k # NoKni
      /\ n \in Nat /\ KnisOf(link) = {link} \X (1 .. n)
  BY <1>1, KnisFacts
<1>4. \A f \in offers : f.to \in KnisOf(link) /\ f.buf = CopyFor(i, f.to)
  BY <1>1, <1>2, <1>3, FateFields DEF FatesRight
<1>5. \A k \in KnisOf(link) : \E f \in offers : f.buf = CopyFor(i, k) /\ f.to = k
  <2> SUFFICES ASSUME NEW k \in KnisOf(link)
               PROVE  \E f \in offers : f.buf = CopyFor(i, k) /\ f.to = k
    OBVIOUS
  <2>1. PICK f \in fate : f.buf = CopyFor(i, k) /\ f.to = k
    BY <1>1, <1>2, <1>3 DEF AllAccounted
  <2>2. CopyFor(i, k)[1] = i
    BY <1>1, CopiesDiffer
  <2>3. f.buf[1] = i /\ f.to # NoKni
    BY <1>3, <2>1, <2>2
  <2>4. QED BY <2>1, <2>3
<1>6. \A f, h \in offers : f.to = h.to => f = h
  BY <1>1, <1>4 DEF FatesRight
<1> HIDE DEF offers, n
<1>7. {f.to : f \in offers} = KnisOf(link)
  BY <1>4, <1>5
<1>8. Cardinality(offers) = Cardinality(KnisOf(link))
  <2> DEFINE port == [k \in KnisOf(link) |-> CHOOSE f \in offers : f.to = k]
  <2>1. \A k \in KnisOf(link) : port[k] \in offers /\ port[k].to = k
    BY <1>5
  <2>2. port \in [KnisOf(link) -> offers]
    BY <2>1
  <2>3. \A k, h \in KnisOf(link) : port[k] = port[h] => k = h
    BY <2>1
  <2>4. \A f \in offers : \E k \in KnisOf(link) : port[k] = f
    BY <1>4, <1>6, <2>1
  <2> HIDE DEF port
  <2>5. port \in Bijection(KnisOf(link), offers)
    BY <2>2, <2>3, <2>4 DEF Bijection, Injection, Surjection, IsInjective
  <2>6. IsFiniteSet(KnisOf(link))
    <3>1. IsFiniteSet({link})
      BY FS_Singleton, Zenon
    <3>2. n \in Int /\ 1 \in Int
      BY <1>3
    <3>3. IsFiniteSet(1 .. n)
      BY <3>2, FS_Interval
    <3>4. QED BY <1>3, <3>1, <3>3, FS_Product
  <2>7. QED BY <2>5, <2>6, FS_Bijection DEF ExistsBijection
<1>9. KnisOf(link) # {} => Original(i) \in {f.buf : f \in offers}
  BY <1>1, <1>5, CopiesDiffer
<1>10. QED BY <1>7, <1>8, <1>9 DEF offers

(* A broadcast reaches each KNI port of its link once, and no other link.  *)
THEOREM ClassifierBroadcasts == Spec => []BroadcastToAll
BY ClassifierInvariant, BroadcastToAllHolds, PTL

-----------------------------------------------------------------------------
(***************************************************************************)
(* The KNI ports of a link that have the same address have the same GTP    *)
(* port: packet_classify looks at the first with the address only.         *)
(***************************************************************************)
OnePort ==
  \A c, d \in DOMAIN Configured :
    Configured[c].link = Configured[d].link /\ Configured[c].ip = Configured[d].ip =>
      Configured[c].port_no = Configured[d].port_no

LEMMA SamePort ==
  ASSUME TypeOK, Entries, OnePort, NEW k \in KnisOf(link), NEW h \in KnisOf(link),
         Entry(k).local_ip_addr = Entry(h).local_ip_addr
  PROVE  Entry(k).port_no = Entry(h).port_no
<1>1. \A m \in KnisOf(link) : \E c \in DOMAIN Configured :
        /\ Configured[c].link = link /\ Configured[c].ip = Entry(m).local_ip_addr
        /\ Configured[c].port_no = Entry(m).port_no
  <2> SUFFICES ASSUME NEW m \in KnisOf(link)
               PROVE  \E c \in DOMAIN Configured :
                        /\ Configured[c].link = link /\ Configured[c].ip = Entry(m).local_ip_addr
                        /\ Configured[c].port_no = Entry(m).port_no
    OBVIOUS
  <2>1. m[1] = link /\ m[2] \in DOMAIN ingress_classifier_g[link] /\ link \in Links
    BY DEF KnisOf, TypeOK
  <2>2. PICK c \in DOMAIN Configured :
          Configured[c] = [link |-> link, ip |-> ingress_classifier_g[link][m[2]].local_ip_addr,
                           port_no |-> ingress_classifier_g[link][m[2]].port_no]
    BY <2>1 DEF Entries
  <2>3. QED BY <2>1, <2>2 DEF Entry
<1>2. PICK c \in DOMAIN Configured :
        /\ Configured[c].link = link /\ Configured[c].ip = Entry(k).local_ip_addr
        /\ Configured[c].port_no = Entry(k).port_no
  BY <1>1
<1>3. PICK d \in DOMAIN Configured :
        /\ Configured[d].link = link /\ Configured[d].ip = Entry(h).local_ip_addr
        /\ Configured[d].port_no = Entry(h).port_no
  BY <1>1
<1>4. QED BY <1>2, <1>3 DEF OnePort

LEMMA GtpClass ==
  ASSUME TypeOK, Entries, OnePort, NEW i \in Index
  PROVE  IsGtp(pkts[i]) <=> ClassOf(i).pkt_type = "GTP"
<1> DEFINE p == pkts[i]
           c == ClassOf(i)
<1>1. p \in Packets /\ ingress_classifier_g \in KniMap /\ link \in Links
  BY IndexFacts
<1>2. Having(ingress_classifier_g, link, p.dst) = {k \in KnisOf(link) : Entry(k).local_ip_addr = p.dst}
  BY DEF Having, Knis, KnisOf, Entry
<1>3. /\ c.pkt_type \in {"BROADCAST", "UNKNOWN", "OTHERS", "GTP"}
      /\ c.pkt_type = "BROADCAST" <=> IsBroadcast(p)
      /\ c.pkt_type = "UNKNOWN" => {k \in KnisOf(link) : Entry(k).local_ip_addr = p.dst} = {}
      /\ c.pkt_type \in {"OTHERS", "GTP"} =>
           /\ c.kni \in KnisOf(link) /\ Entry(c.kni).local_ip_addr = p.dst
           /\ c.pkt_type = "GTP" <=> p.port = Entry(c.kni).port_no
  BY <1>1, <1>2, ClassFacts DEF ClassOf, Entry
<1>4. \A k \in KnisOf(link) : Entry(k) \in [local_ip_addr : Ips, port_no : UdpPorts]
  <2> DEFINE R == [local_ip_addr : Ips, port_no : UdpPorts]
  <2>1. ingress_classifier_g[link] \in Seq(R)
    BY DEF TypeOK
  <2>2. \A k \in KnisOf(link) : k[1] = link /\ k[2] \in DOMAIN ingress_classifier_g[link]
    BY DEF KnisOf
  <2> HIDE DEF R
  <2>3. \A m \in DOMAIN ingress_classifier_g[link] : ingress_classifier_g[link][m] \in R
    BY <2>1
  <2>4. QED BY <2>2, <2>3 DEF Entry, R
<1>5. ASSUME IsGtp(p)
      PROVE  c.pkt_type = "GTP"
  <2>1. PICK k \in KnisOf(link) : Entry(k) = [local_ip_addr |-> p.dst, port_no |-> p.port]
    BY <1>5 DEF IsGtp
  <2>2. Entry(k).local_ip_addr = p.dst /\ Entry(k).port_no = p.port
    BY <2>1
  <2>3. p.dst \in Ips
    BY <1>4, <2>2
  <2>4. ~IsBroadcast(p)
    BY <1>5, <2>3, ClassifierAssumption DEF IsGtp, IsBroadcast
  <2> HIDE DEF p, c
  <2>5. c.pkt_type \in {"OTHERS", "GTP"}
    BY <1>3, <2>2, <2>4
  <2>6. QED BY <1>3, <2>2, <2>5, SamePort
<1>6. ASSUME c.pkt_type = "GTP"
      PROVE  IsGtp(p)
  <2>1. /\ ~IsBroadcast(p) /\ c.kni \in KnisOf(link)
        /\ Entry(c.kni).local_ip_addr = p.dst /\ Entry(c.kni).port_no = p.port
    BY <1>3, <1>6
  <2>2. Entry(c.kni) = [local_ip_addr |-> p.dst, port_no |-> p.port]
    <3> HIDE DEF p, c
    <3>1. Entry(c.kni) \in [local_ip_addr : Ips, port_no : UdpPorts]
      BY <1>4, <2>1
    <3>2. QED BY <2>1, <3>1
  <2>3. QED BY <2>1, <2>2 DEF IsGtp, IsBroadcast
<1>7. QED BY <1>5, <1>6

LEMMA GtpInOrderHolds ==
  ASSUME OnePort, ClassifierInv
  PROVE  GtpInOrder
<1> SUFFICES ASSUME pc # "dead"
             PROVE  GtpInOrder
  BY DEF GtpInOrder
<1> DEFINE freed(i) == [buf |-> Original(i), to |-> NoKni, done |-> "freed"]
<1>1. TypeOK /\ Entries /\ FatesRight /\ Lists /\ AllAccounted
  BY DEF ClassifierInv
<1>2. {i \in Index : IsGtp(pkts[i])} = OfType("GTP")
  BY <1>1, GtpClass DEF OfType
<1>3. ASSUME pc = "end", NEW i \in OfType("GTP") \ ToSet(rx_ring)
      PROVE  FatesOf(Original(i)) = {freed(i)}
  <2>1. i \in Index /\ ClassOf(i).pkt_type = "GTP" /\ i \notin Waiting
    BY <1>1, <1>3 DEF OfType, Lists, Waiting, Flushed
  <2>2. PICK f \in fate : f.buf = Original(i)
    BY <1>1, <2>1 DEF AllAccounted
  <2>3. FateOf(i, f)
    BY <1>1, <2>2 DEF FatesRight, Original
  <2>4. f = freed(i)
    BY <2>1, <2>3 DEF FateOf
  <2>5. FatesOf(Original(i)) = {f}
    BY <1>1, <2>2 DEF FatesOf, FatesRight
  <2>6. QED BY <2>4, <2>5
<1>4. CASE pc # "end"
  BY <1>1, <1>2, <1>4 DEF GtpInOrder, Lists
<1>5. CASE pc = "end"
  BY <1>1, <1>2, <1>3, <1>5, Zenon DEF GtpInOrder, Lists
<1>6. QED BY <1>4, <1>5

(* The workers get the packets for GTP and no others, in their order.      *)
THEOREM ClassifierGtpInOrder ==
  ASSUME OnePort
  PROVE  Spec => []GtpInOrder
<1>1. ClassifierInv => GtpInOrder
  BY GtpInOrderHolds
<1>2. QED BY <1>1, ClassifierInvariant, PTL

LEMMA OwnPortHolds ==
  ASSUME OnePort, ClassifierInv
  PROVE  OwnPortIfLast
<1>1. TypeOK /\ Entries /\ Burst /\ FatesRight
  BY DEF ClassifierInv
<1> SUFFICES ASSUME NEW f \in fate, ~IsBroadcast(pkts[f.buf[1]]), f.to # NoKni \/ f.done = "lost"
             PROVE  /\ f.to = Addressee(Last(pkts))
                    /\ ~IsGtp(pkts[f.buf[1]]) /\ Addressee(pkts[f.buf[1]]) \in KnisOf(link)
  BY DEF OwnPortIfLast, ForKernel
<1>2. PICK i \in Index : i = f.buf[1]
  BY <1>1 DEF FatesRight
<1>3. /\ pkts[i] \in Packets /\ ingress_classifier_g \in KniMap /\ link \in Links
      /\ ClassOf(i).pkt_type # "BROADCAST"
  BY <1>1, <1>2, IndexFacts
<1>4. FateOf(i, f)
  BY <1>1, <1>2 DEF FatesRight
<1>5. ClassOf(i).pkt_type = "OTHERS" /\ Flushed /\ f.to = kni_ptr
  BY <1>3, <1>4, FateFields
<1>6. ~IsGtp(pkts[i])
  BY <1>1, <1>5, GtpClass
<1>7. Addressee(pkts[i]) \in KnisOf(link)
  <2>1. ClassOf(i).kni \in Knis(ingress_classifier_g, link)
    BY <1>3, <1>5, ClassFacts DEF ClassOf, Having
  <2>2. QED BY <1>1, <2>1, Classed, KnisFacts DEF Addressee, ClassOf
<1>8. kni_ptr = Addressee(Last(pkts))
  <2>1. idx # 0
    BY <1>1 DEF TypeOK, Index
  <2>2. idx = Len(pkts) /\ kni_ptr = ClassOf(Len(pkts)).kni
    BY <1>1, <1>5, <2>1 DEF Burst
  <2>3. QED BY <2>2, Classed DEF ClassOf, Addressee, Last
<1>9. QED BY <1>2, <1>5, <1>6, <1>7, <1>8

(* Only packets for a KNI port of the link that no worker wants are        *)
(* offered to the kernel, and a packet gets to its own port if the last    *)
(* one of its burst is for that port too (ingress_classify).               *)
THEOREM ClassifierOwnPort ==
  ASSUME OnePort
  PROVE  Spec => []OwnPortIfLast
<1>1. ClassifierInv => OwnPortIfLast
  BY OwnPortHolds
<1>2. QED BY <1>1, ClassifierInvariant, PTL
=============================================================================
