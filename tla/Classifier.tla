----------------------------- MODULE Classifier -----------------------------
(***************************************************************************)
(* The ingress classifier (pfm_classifier.c).  main gives each link its    *)
(* KNI ports, with an address and a GTP port; then the receive loop hands  *)
(* over one burst after the other, and each packet goes to the workers'    *)
(* ring, to the kernel through one KNI port or all of the link, or         *)
(* nowhere.  last_kni_ptr of the code is never set and so not modelled: no *)
(* packet for the kernel is written before the end of the burst.           *)
(***************************************************************************)
EXTENDS Naturals, FiniteSetsExt, SequencesExt

CONSTANTS
  Links,
  Configured,       \* the KNI ports main adds: [link, ip, port_no]
  Ips, UdpPorts,    \* destinations of the packets
  Broadcast,        \* 255.255.255.255
  NotUdp,           \* the UDP port of what is not UDP
  RX_BURST_SIZE,
  NoKni             \* a NULL kni_ptr

ASSUME ClassifierAssumption ==
  /\ Configured \in Seq([link : Links, ip : Ips, port_no : UdpPorts])
  /\ Broadcast \notin Ips /\ NotUdp \notin UdpPorts
  /\ RX_BURST_SIZE \in Nat \ {0}
  /\ NoKni \notin Links \X (Nat \ {0})

VARIABLES
  added,                  \* how many of Configured main is done with
  ingress_classifier_g,   \* the KNI ports of each link
  pc,                     \* "wait", "classify", "ring", "end" or "dead"
  link, pkts,             \* the last burst, and
  idx,                    \* how many of its packets have been classified
  kni_ptr,                \* the KNI port of the last one classified
  kni_pkts, ring_pkts,    \* what is collected for the end of the burst
  rx_ring,                \* what the ring took of this burst
  fate                    \* every other buffer the burst is done with

burst == <<link, pkts>>
vars == <<added, ingress_classifier_g, pc, burst, idx, kni_ptr, kni_pkts, ring_pkts,
          rx_ring, fate>>

Packets ==
  [kind : {"ARP reply", "not IPv4", "IPv4"}, dst : {Broadcast}, port : {NotUdp}] \union
  [kind : {"IPv4"}, dst : Ips, port : UdpPorts \union {NotUdp}]

Init ==
  /\ added = 0
  /\ ingress_classifier_g = [l \in Links |-> <<>>]
  /\ pc = "wait" /\ link \in Links /\ pkts = <<>> /\ idx = 0
  /\ kni_ptr = NoKni /\ kni_pkts = <<>> /\ ring_pkts = <<>>
  /\ rx_ring = <<>> /\ fate = {}

-----------------------------------------------------------------------------
(* pfm_ingress_classifier_add, with kni_open, which may fail.              *)
pfm_ingress_classifier_add(opened) ==
  LET c == Configured[added + 1]
  IN  /\ added < Len(Configured)
      /\ added' = added + 1
      /\ ingress_classifier_g' =
           IF opened
           THEN [ingress_classifier_g EXCEPT ![c.link] =
                   Append(@, [local_ip_addr |-> c.ip, port_no |-> c.port_no])]
           ELSE ingress_classifier_g
      /\ UNCHANGED <<pc, burst, idx, kni_ptr, kni_pkts, ring_pkts, rx_ring, fate>>

(* The KNI ports of a link, and those of them that have an address.        *)
KnisOf(l) == {l} \X DOMAIN ingress_classifier_g[l]
Entry(k) == ingress_classifier_g[k[1]][k[2]]
Matching(l, ip) == {k \in KnisOf(l) : Entry(k).local_ip_addr = ip}

(* Mutant: any UDP packet for a GTP port is one, whoever it is for.        *)
packet_classify_AnyAddress(l, p) ==
  IF p.kind # "IPv4" \/ p.dst = Broadcast
  THEN [pkt_type |-> "BROADCAST", kni |-> NoKni]
  ELSE IF \E k \in KnisOf(l) : Entry(k).port_no = p.port
       THEN [pkt_type |-> "GTP", kni |-> CHOOSE k \in KnisOf(l) : TRUE]
       ELSE [pkt_type |-> IF Matching(l, p.dst) = {} THEN "UNKNOWN" ELSE "OTHERS",
             kni |-> IF Matching(l, p.dst) = {} THEN NoKni
                     ELSE CHOOSE k \in Matching(l, p.dst) : TRUE]

packet_classify(l, p) ==
  IF p.kind # "IPv4" \/ p.dst = Broadcast
  THEN [pkt_type |-> "BROADCAST", kni |-> NoKni]
  ELSE IF Matching(l, p.dst) = {} THEN [pkt_type |-> "UNKNOWN", kni |-> NoKni]
  ELSE LET k == <<l, Min({m[2] : m \in Matching(l, p.dst)})>>
       IN  [pkt_type |-> IF p.port = Entry(k).port_no THEN "GTP" ELSE "OTHERS",
            kni |-> k]

-----------------------------------------------------------------------------
(* rx_loop reads a burst from a link.                                      *)
Receive(l, b) ==
  /\ added = Len(Configured) /\ pc = "wait"
  /\ pc' = "classify" /\ link' = l /\ pkts' = b
  /\ UNCHANGED <<added, ingress_classifier_g, idx, kni_ptr, kni_pkts, ring_pkts, rx_ring, fate>>

(* The buffers of packet i: its own, its clone for the n-th KNI port of    *)
(* the link and its clone for the ARP table.                               *)
Original(i) == <<i, 0>>
Clone(i, n) == <<i, n>>
ArpClone(i) == <<i, Len(ingress_classifier_g[link]) + 1>>

(* The next packet of the burst, if it is of this type.                    *)
Classify(type) ==
  LET c == packet_classify(link, pkts[idx + 1])
  IN  /\ pc = "classify" /\ idx < Len(pkts)
      /\ c.pkt_type = type
      /\ idx' = idx + 1 /\ kni_ptr' = c.kni
      /\ UNCHANGED <<added, ingress_classifier_g, burst, rx_ring>>

ClassifyGtp ==
  /\ Classify("GTP")
  /\ ring_pkts' = Append(ring_pkts, idx')
  /\ UNCHANGED <<pc, kni_pkts, fate>>

ClassifyOthers ==
  /\ Classify("OTHERS")
  /\ kni_pkts' = Append(kni_pkts, idx')
  /\ UNCHANGED <<pc, ring_pkts, fate>>

ClassifyUnknown ==
  /\ Classify("UNKNOWN")
  /\ fate' = fate \union {[buf |-> Original(idx'), to |-> NoKni, done |-> "freed"]}
  /\ UNCHANGED <<pc, kni_pkts, ring_pkts>>

(* kni_write hands buffers to a KNI port, which takes the first of them,   *)
(* and frees the rest.  Without a port it does nothing at all.             *)
Written(k, bufs, n) ==
  {[buf |-> bufs[i], to |-> k,
    done |-> IF k = NoKni THEN "lost" ELSE IF i <= n THEN "taken" ELSE "freed"] :
     i \in DOMAIN bufs}

(* The buffers of a broadcast: clones, and the original for the last port. *)
(* Mutant: every port gets a clone.                                        *)
Copy_Clones(k) == Clone(idx', k[2])

Copy(k) == IF k[2] = Len(ingress_classifier_g[link]) THEN Original(idx')
           ELSE Clone(idx', k[2])

(* A broadcast, every port of the link taking its copy or not.  An ARP     *)
(* reply is also cloned for the ARP table, and nobody frees that clone.    *)
ClassifyBroadcast ==
  /\ Classify("BROADCAST")
  /\ \E takes \in SUBSET KnisOf(link) :
       fate' = fate \union
         (UNION {Written(k, <<Copy(k)>>, IF k \in takes THEN 1 ELSE 0) : k \in KnisOf(link)})
         \union {[buf |-> ArpClone(idx'), to |-> NoKni, done |-> "lost"] :
                   x \in {p \in {pkts[idx']} : p.kind = "ARP reply"}}
         \union {[buf |-> Original(idx'), to |-> NoKni, done |-> "lost"] :
                   x \in {l \in {link} : KnisOf(l) = {}}}
  /\ UNCHANGED <<pc, kni_pkts, ring_pkts>>

(* With no buffer left in the pool the clone is NULL, and it is used.      *)
CloneFails ==
  /\ Classify("BROADCAST")
  /\ pkts[idx'].kind = "ARP reply" \/ Len(ingress_classifier_g[link]) > 1
  /\ pc' = "dead"
  /\ UNCHANGED <<kni_pkts, ring_pkts, fate>>

(* The end of the burst.                                                   *)
(* Mutant: the first packet decides where they all go.                     *)
FlushTo_First == IF kni_pkts = <<>> THEN kni_ptr ELSE packet_classify(link, pkts[1]).kni

FlushTo == kni_ptr

FlushKni(n) ==
  /\ pc = "classify" /\ idx = Len(pkts)
  /\ fate' = fate \union
       Written(FlushTo, [i \in DOMAIN kni_pkts |-> Original(kni_pkts[i])], n)
  /\ kni_pkts' = <<>>
  /\ pc' = "ring"
  /\ UNCHANGED <<added, ingress_classifier_g, burst, idx, kni_ptr, ring_pkts, rx_ring>>

(* ring_write: the ring takes the first n packets, the others are freed.   *)
(* Mutant: one packet too many is freed.                                   *)
ring_write_FreesLast(n) ==
  /\ pc = "ring"
  /\ rx_ring' = SubSeq(ring_pkts, 1, n)
  /\ fate' = fate \union {[buf |-> Original(ring_pkts[i]), to |-> NoKni, done |-> "freed"] :
                            i \in (IF n = 0 THEN 1 ELSE n) .. Len(ring_pkts)}
  /\ ring_pkts' = <<>>
  /\ pc' = "end"
  /\ UNCHANGED <<added, ingress_classifier_g, burst, idx, kni_ptr, kni_pkts>>

ring_write(n) ==
  /\ pc = "ring"
  /\ rx_ring' = SubSeq(ring_pkts, 1, n)
  /\ fate' = fate \union {[buf |-> Original(ring_pkts[i]), to |-> NoKni, done |-> "freed"] :
                            i \in n + 1 .. Len(ring_pkts)}
  /\ ring_pkts' = <<>>
  /\ pc' = "end"
  /\ UNCHANGED <<added, ingress_classifier_g, burst, idx, kni_ptr, kni_pkts>>

(* ingress_classify returns; its variables are gone.                       *)
Return ==
  /\ pc = "end"
  /\ pc' = "wait" /\ pkts' = <<>> /\ idx' = 0 /\ kni_ptr' = NoKni
  /\ rx_ring' = <<>> /\ fate' = {}
  /\ UNCHANGED <<added, ingress_classifier_g, link, kni_pkts, ring_pkts>>

Next ==
  \/ \E opened \in BOOLEAN : pfm_ingress_classifier_add(opened)
  \/ \E l \in Links, n \in 1 .. RX_BURST_SIZE : \E b \in [1 .. n -> Packets] : Receive(l, b)
  \/ ClassifyGtp \/ ClassifyOthers \/ ClassifyUnknown \/ ClassifyBroadcast \/ CloneFails
  \/ \E n \in 0 .. Len(kni_pkts) : FlushKni(n)
  \/ \E n \in 0 .. Len(ring_pkts) : ring_write(n)
  \/ Return

Spec == Init /\ [][Next]_vars

-----------------------------------------------------------------------------
(* Types: what is collected are packets of the burst already classified.   *)
Index == 1 .. idx
Kni == {NoKni} \union UNION {KnisOf(l) : l \in Links}
TypeOK ==
  /\ added \in 0 .. Len(Configured)
  /\ ingress_classifier_g \in [Links -> Seq([local_ip_addr : Ips, port_no : UdpPorts])]
  /\ pc \in {"wait", "classify", "ring", "end", "dead"}
  /\ link \in Links /\ pkts \in Seq(Packets)
  /\ idx \in 0 .. Len(pkts)
  /\ kni_ptr \in Kni
  /\ kni_pkts \in Seq(Index) /\ ring_pkts \in Seq(Index) /\ rx_ring \in Seq(Index)
  /\ \A f \in fate : f.buf[1] \in Index /\ f.to \in Kni /\ f.done \in {"taken", "freed", "lost"}

(* Every packet the classifier is done with, or collects, is in exactly    *)
(* one place, however much the ring and the KNI ports take of a burst:     *)
(* nothing is handed over and freed as well, or collected twice.  Clones   *)
(* have one fate too.  What is lost is known: one clone for each ARP       *)
(* reply, broadcasts of a link without KNI ports, and packets for the      *)
(* kernel whose burst ends with a packet that has no KNI port              *)
(* (pfm_classifier.c:313-415, pfm_ring.c:16-28, pfm_kni.c:525-537).        *)
Positions(s, i) == {n \in DOMAIN s : s[n] = i}
FatesOf(b) == {f \in fate : f.buf = b}
Addressee(p) == packet_classify(link, p).kni

OneFate ==
  pc # "dead" =>
    /\ \A i \in Index :
         1 = Cardinality(Positions(kni_pkts, i)) + Cardinality(Positions(ring_pkts, i))
             + Cardinality(Positions(rx_ring, i)) + Cardinality(FatesOf(Original(i)))
    /\ \A f, g \in fate : f.buf = g.buf => f = g
    /\ \A f \in fate : f.done = "lost" =>
         \/ f.buf = ArpClone(f.buf[1]) /\ pkts[f.buf[1]].kind = "ARP reply"
         \/ f.buf = Original(f.buf[1])
            /\ (KnisOf(link) = {} \/ Addressee(Last(pkts)) = NoKni)

(* A broadcast is offered to every KNI port of its link exactly once, and  *)
(* to no port of another link (pfm_classifier.c:349-394).                  *)
IsBroadcast(p) == p.kind # "IPv4" \/ p.dst = Broadcast

BroadcastToAll ==
  pc # "dead" =>
    \A i \in Index : IsBroadcast(pkts[i]) =>
      LET offers == {f \in fate : f.buf[1] = i /\ f.to # NoKni}
      IN  /\ {f.to : f \in offers} = KnisOf(link)
          /\ Cardinality(offers) = Cardinality(KnisOf(link))
          /\ KnisOf(link) # {} => Original(i) \in {f.buf : f \in offers}

(* The ring gets UDP packets for the address and the GTP port of a KNI     *)
(* port of the link, and no others, in the order of their arrival; what it *)
(* has no room for are the last ones (pfm_classifier.c:257-263, 410-415).  *)
IsGtp(p) ==
  /\ p.kind = "IPv4"
  /\ \E k \in KnisOf(link) : Entry(k) = [local_ip_addr |-> p.dst, port_no |-> p.port]

Increasing(s) == \A m, n \in DOMAIN s : m < n => s[m] < s[n]

GtpInOrder ==
  pc # "dead" =>
    LET gtp == {i \in Index : IsGtp(pkts[i])}
    IN  IF pc # "end" THEN Increasing(ring_pkts) /\ ToSet(ring_pkts) = gtp
        ELSE /\ Increasing(rx_ring) /\ ToSet(rx_ring) \subseteq gtp
             /\ \A i \in gtp \ ToSet(rx_ring) :
                  /\ \A j \in ToSet(rx_ring) : j < i
                  /\ FatesOf(Original(i)) =
                       {[buf |-> Original(i), to |-> NoKni, done |-> "freed"]}

(* What is offered to one KNI port, or lost on the way there, are unicast  *)
(* packets for a port of this link that the workers do not want, and they  *)
(* get there if the last packet of the burst is for the same port, however *)
(* mixed the burst is otherwise (pfm_classifier.c:329-348, 404-409).       *)
ForKernel(f) == ~IsBroadcast(pkts[f.buf[1]]) /\ (f.to # NoKni \/ f.done = "lost")

OwnPortIfLast ==
  \A f \in fate : ForKernel(f) =>
    LET p == pkts[f.buf[1]]
    IN  /\ ~IsGtp(p) /\ Addressee(p) \in KnisOf(link)
        /\ Addressee(Last(pkts)) = Addressee(p) => f.to = Addressee(p)

(* The header of ingress_classify says more (pfm_classifier.c:275-277):    *)
(* every packet for the kernel goes to the KNI port packet_classify found. *)
OthersToOwnPort ==
  \A f \in fate : ForKernel(f) => f.to = Addressee(pkts[f.buf[1]])
=============================================================================
