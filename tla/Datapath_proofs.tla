--------------------------- MODULE Datapath_proofs ---------------------------
(***************************************************************************)
(* For any number of buffers and workers and any sizes: every buffer is in *)
(* one place, no worker's queue is ever full when an answer is queued, and *)
(* packets of one flow leave in the order in which they came.              *)
(***************************************************************************)
EXTENDS Datapath, SequenceTheorems, TLAPS

-----------------------------------------------------------------------------
(* Sequences: what is in the parts of one is in the whole, and once only.  *)
LEMMA Appended ==
  ASSUME NEW S, NEW s \in Seq(S), NEW b \in S
  PROVE  /\ Append(s, b) \in Seq(S) /\ Len(Append(s, b)) = Len(s) + 1
         /\ ToSet(Append(s, b)) = ToSet(s) \union {b}
         /\ IsInjective(s) /\ b \notin ToSet(s) => IsInjective(Append(s, b))
<1>1. /\ Len(s) \in Nat /\ DOMAIN s = 1 .. Len(s)
      /\ DOMAIN Append(s, b) = 1 .. Len(s) + 1
      /\ Append(s, b)[Len(s) + 1] = b /\ \A i \in 1 .. Len(s) : Append(s, b)[i] = s[i]
      /\ Append(s, b) \in Seq(S) /\ Len(Append(s, b)) = Len(s) + 1
  OBVIOUS
<1>2. ToSet(Append(s, b)) = ToSet(s) \union {b}
  BY <1>1 DEF ToSet
<1>3. IsInjective(s) /\ b \notin ToSet(s) => IsInjective(Append(s, b))
  BY <1>1 DEF ToSet, IsInjective
<1>4. QED BY <1>1, <1>2, <1>3

LEMMA Joined ==
  ASSUME NEW S, NEW s \in Seq(S), NEW t \in Seq(S)
  PROVE  /\ s \o t \in Seq(S) /\ Len(s \o t) = Len(s) + Len(t)
         /\ ToSet(s \o t) = ToSet(s) \union ToSet(t)
         /\ IsInjective(s) /\ IsInjective(t) /\ ToSet(s) \intersect ToSet(t) = {}
            => IsInjective(s \o t)
<1>1. /\ Len(s) \in Nat /\ DOMAIN s = 1 .. Len(s)
      /\ Len(t) \in Nat /\ DOMAIN t = 1 .. Len(t)
      /\ s \o t \in Seq(S) /\ Len(s \o t) = Len(s) + Len(t)
      /\ DOMAIN (s \o t) = 1 .. Len(s) + Len(t)
      /\ \A i \in 1 .. Len(s) : (s \o t)[i] = s[i]
      /\ \A i \in 1 .. Len(t) : (s \o t)[i + Len(s)] = t[i]
  OBVIOUS
<1>2. \A i \in Len(s) + 1 .. Len(s) + Len(t) :
        i - Len(s) \in 1 .. Len(t) /\ (s \o t)[i] = t[i - Len(s)]
  <2> SUFFICES ASSUME NEW i \in Len(s) + 1 .. Len(s) + Len(t)
               PROVE  i - Len(s) \in 1 .. Len(t) /\ (s \o t)[i] = t[i - Len(s)]
    OBVIOUS
  <2>1. i - Len(s) \in 1 .. Len(t) /\ (i - Len(s)) + Len(s) = i
    BY <1>1
  <2>2. QED BY <1>1, <2>1
<1>3. ToSet(s \o t) = ToSet(s) \union ToSet(t)
  <2>1. ASSUME NEW i \in 1 .. Len(s) + Len(t)
        PROVE  (s \o t)[i] \in ToSet(s) \union ToSet(t)
    <3>1. CASE i <= Len(s)
      BY <3>1, <1>1 DEF ToSet
    <3>2. CASE i > Len(s)
      BY <3>2, <1>1, <1>2 DEF ToSet
    <3>3. QED BY <3>1, <3>2, <1>1
  <2>2. ASSUME NEW i \in 1 .. Len(s) PROVE s[i] \in ToSet(s \o t)
    BY <1>1 DEF ToSet
  <2>3. ASSUME NEW i \in 1 .. Len(t) PROVE t[i] \in ToSet(s \o t)
    <3>1. i + Len(s) \in DOMAIN (s \o t)
      BY <1>1
    <3>2. QED BY <3>1, <1>1 DEF ToSet
  <2>4. ToSet(s \o t) \subseteq ToSet(s) \union ToSet(t)
    BY <1>1, <2>1 DEF ToSet
  <2>5. ToSet(s) \subseteq ToSet(s \o t)
    BY <1>1, <2>2 DEF ToSet
  <2>6. ToSet(t) \subseteq ToSet(s \o t)
    BY <1>1, <2>3 DEF ToSet
  <2>7. QED BY <2>4, <2>5, <2>6
<1>4. IsInjective(s) /\ IsInjective(t) /\ ToSet(s) \intersect ToSet(t) = {}
      => IsInjective(s \o t)
  <2> SUFFICES ASSUME IsInjective(s), IsInjective(t), ToSet(s) \intersect ToSet(t) = {},
                      NEW i \in 1 .. Len(s) + Len(t), NEW j \in 1 .. Len(s) + Len(t),
                      (s \o t)[i] = (s \o t)[j], i <= j
               PROVE  i = j
    BY <1>1 DEF IsInjective
  <2>1. CASE j <= Len(s)
    BY <2>1, <1>1 DEF IsInjective
  <2>2. CASE i > Len(s)
    <3>1. t[i - Len(s)] = t[j - Len(s)] /\ i - Len(s) \in DOMAIN t /\ j - Len(s) \in DOMAIN t
      BY <2>2, <1>1, <1>2
    <3>2. i - Len(s) = j - Len(s)
      BY <3>1 DEF IsInjective
    <3>3. QED BY <3>2, <1>1
  <2>3. CASE i <= Len(s) /\ j > Len(s)
    <3>1. s[i] = t[j - Len(s)] /\ i \in DOMAIN s /\ j - Len(s) \in DOMAIN t
      BY <2>3, <1>1, <1>2
    <3>2. QED BY <3>1 DEF ToSet
  <2>4. QED BY <2>1, <2>2, <2>3, <1>1
<1>5. QED BY <1>1, <1>3, <1>4

LEMMA HeadTail ==
  ASSUME NEW S, NEW s \in Seq(S), s # <<>>
  PROVE  /\ Tail(s) \in Seq(S) /\ Len(Tail(s)) = Len(s) - 1 /\ Len(s) \in Nat \ {0}
         /\ Head(s) \in S /\ ToSet(s) = ToSet(Tail(s)) \union {Head(s)}
         /\ IsInjective(s) => IsInjective(Tail(s)) /\ Head(s) \notin ToSet(Tail(s))
<1>1. /\ Len(s) \in Nat \ {0} /\ DOMAIN s = 1 .. Len(s)
      /\ Tail(s) \in Seq(S) /\ Len(Tail(s)) = Len(s) - 1 /\ DOMAIN Tail(s) = 1 .. Len(s) - 1
      /\ \A i \in 1 .. Len(s) - 1 : Tail(s)[i] = s[i + 1]
      /\ Head(s) = s[1] /\ Head(s) \in S
  OBVIOUS
<1>2. ToSet(s) = ToSet(Tail(s)) \union {Head(s)}
  <2>1. \A i \in 1 .. Len(s) : i = 1 \/ (i - 1 \in 1 .. Len(s) - 1 /\ s[i] = Tail(s)[i - 1])
    BY <1>1
  <2>2. \A i \in 1 .. Len(s) - 1 : i + 1 \in 1 .. Len(s)
    BY <1>1
  <2>3. ToSet(s) \subseteq ToSet(Tail(s)) \union {Head(s)}
    <3> SUFFICES ASSUME NEW i \in 1 .. Len(s) PROVE s[i] \in ToSet(Tail(s)) \union {Head(s)}
      BY <1>1 DEF ToSet
    <3>1. CASE i = 1
      BY <3>1, <1>1
    <3>2. CASE i # 1
      BY <3>2, <1>1, <2>1 DEF ToSet
    <3>3. QED BY <3>1, <3>2
  <2>4. ToSet(Tail(s)) \subseteq ToSet(s) /\ Head(s) \in ToSet(s)
    BY <1>1, <2>2 DEF ToSet
  <2>5. QED BY <2>3, <2>4
<1>3. IsInjective(s) => IsInjective(Tail(s)) /\ Head(s) \notin ToSet(Tail(s))
  BY <1>1 DEF ToSet, IsInjective
<1>4. QED BY <1>1, <1>2, <1>3

LEMMA Split ==
  ASSUME NEW S, NEW s \in Seq(S), NEW n \in Nat
  PROVE  /\ FirstOf(s, n) \in Seq(S) /\ AllBut(s, n) \in Seq(S)
         /\ Len(FirstOf(s, n)) <= n /\ Len(AllBut(s, n)) <= Len(s)
         /\ ToSet(s) = ToSet(FirstOf(s, n)) \union ToSet(AllBut(s, n))
         /\ IsInjective(s) =>
              /\ IsInjective(FirstOf(s, n)) /\ IsInjective(AllBut(s, n))
              /\ ToSet(FirstOf(s, n)) \intersect ToSet(AllBut(s, n)) = {}
<1> DEFINE m == Min2(n, Len(s))
           a == SubSeq(s, 1, m)
           z == SubSeq(s, m + 1, Len(s))
<1>1. /\ Len(s) \in Nat /\ DOMAIN s = 1 .. Len(s) /\ m \in 0 .. Len(s) /\ m <= n
  BY DEF Min2
<1> HIDE DEF m
<1>2. /\ a \in Seq(S) /\ Len(a) = m /\ DOMAIN a = 1 .. m /\ \A i \in 1 .. m : a[i] = s[i]
  BY <1>1
<1>3. /\ z \in Seq(S) /\ Len(z) = Len(s) - m /\ DOMAIN z = 1 .. Len(s) - m
      /\ \A i \in 1 .. Len(s) - m : z[i] = s[i + m]
  <2>1. m + 1 \in 1 .. Len(s) + 1 /\ Len(s) \in m .. Len(s)
    BY <1>1
  <2>2. /\ z \in Seq(S)
        /\ Len(z) = IF m + 1 <= Len(s) THEN Len(s) - (m + 1) + 1 ELSE 0
        /\ \A i \in 1 .. Len(s) - (m + 1) + 1 : z[i] = s[m + 1 + i - 1]
    BY <2>1, SubSeqProperties
  <2>3. \A i \in 1 .. Len(s) - m : i \in 1 .. Len(s) - (m + 1) + 1 /\ m + 1 + i - 1 = i + m
    BY <1>1
  <2> HIDE DEF z
  <2>4. Len(z) = Len(s) - m
    <3>1. CASE m + 1 <= Len(s)
      BY <3>1, <1>1, <2>2
    <3>2. CASE ~(m + 1 <= Len(s))
      <4>1. m = Len(s)
        <5>1. m \in 0 .. Len(s) /\ Len(s) \in Nat
          BY <1>1
        <5>2. QED BY <3>2, <5>1
      <4>2. Len(z) = 0 /\ Len(s) - m = 0
        BY <3>2, <4>1, <1>1, <2>2
      <4>3. QED BY <4>2
    <3>3. QED BY <3>1, <3>2
  <2>5. DOMAIN z = 1 .. Len(z)
    BY <2>2
  <2>6. \A i \in 1 .. Len(s) - m : z[i] = s[i + m]
    BY <2>2, <2>3
  <2>7. QED BY <2>2, <2>4, <2>5, <2>6
<1> HIDE DEF a, z
<1>4. ToSet(s) = ToSet(a) \union ToSet(z)
  <2>1. \A i \in 1 .. Len(s) : i \in 1 .. m \/ (i - m \in 1 .. Len(s) - m /\ s[i] = z[i - m])
    BY <1>1, <1>3
  <2>2. \A i \in 1 .. Len(s) - m : i + m \in 1 .. Len(s)
    BY <1>1
  <2>3. ToSet(s) \subseteq ToSet(a) \union ToSet(z)
    <3> SUFFICES ASSUME NEW i \in 1 .. Len(s) PROVE s[i] \in ToSet(a) \union ToSet(z)
      BY <1>1 DEF ToSet
    <3>1. CASE i \in 1 .. m
      BY <3>1, <1>2 DEF ToSet
    <3>2. CASE i - m \in 1 .. Len(s) - m /\ s[i] = z[i - m]
      BY <3>2, <1>3 DEF ToSet
    <3>3. QED BY <3>1, <3>2, <2>1
  <2>4. ToSet(a) \subseteq ToSet(s)
    BY <1>1, <1>2 DEF ToSet
  <2>5. ToSet(z) \subseteq ToSet(s)
    BY <1>1, <1>3, <2>2 DEF ToSet
  <2>6. QED BY <2>3, <2>4, <2>5
<1>5. ASSUME IsInjective(s)
      PROVE  IsInjective(a) /\ IsInjective(z) /\ ToSet(a) \intersect ToSet(z) = {}
  <2>1. IsInjective(a)
    BY <1>5, <1>1, <1>2 DEF IsInjective
  <2>2. IsInjective(z)
    <3> SUFFICES ASSUME NEW i \in 1 .. Len(s) - m, NEW j \in 1 .. Len(s) - m, z[i] = z[j]
                 PROVE  i = j
      BY <1>3 DEF IsInjective
    <3>1. i + m \in DOMAIN s /\ j + m \in DOMAIN s /\ s[i + m] = s[j + m]
      BY <1>1, <1>3
    <3>2. i + m = j + m
      BY <3>1, <1>5 DEF IsInjective
    <3>3. QED BY <3>2, <1>1
  <2>3. ASSUME NEW i \in 1 .. m, NEW j \in 1 .. Len(s) - m PROVE a[i] # z[j]
    <3>1. i \in DOMAIN s /\ j + m \in DOMAIN s /\ i # j + m
      BY <1>1
    <3>2. QED BY <3>1, <1>2, <1>3, <1>5 DEF IsInjective
  <2>4. QED BY <2>1, <2>2, <2>3, <1>2, <1>3 DEF ToSet
<1>6. FirstOf(s, n) = a /\ AllBut(s, n) = z
  BY DEF FirstOf, AllBut, a, z, m
<1>7. QED BY <1>1, <1>2, <1>3, <1>4, <1>5, <1>6

-----------------------------------------------------------------------------
(* A worker's queue: what it holds from tail to head.                      *)
LEMMA Sizes ==
  /\ {RX_RING_SIZE, TX_RING_SIZE, RX_BURST_SIZE, TX_BURST_SIZE,
      MAX_PKT_PER_TX, DIST_BURST, TX_QUEUE_SIZE} \subseteq Nat \ {0}
  /\ DIST_BURST <= MAX_PKT_PER_TX /\ DIST_BURST < TX_QUEUE_SIZE
BY SizeAssumption

Held(q) == get_pkt_to_tx(q, TX_QUEUE_SIZE).pkts
Slot(q, i) == q.slot[(q.tail + i - 1) % TX_QUEUE_SIZE]

LEMMA Mod ==
  ASSUME NEW N \in Nat \ {0}, NEW a \in Nat
  PROVE  /\ a < N => a % N = a
         /\ a >= N /\ a < N + N => a % N = a - N
OBVIOUS

LEMMA ModDistance ==
  ASSUME NEW N \in Nat \ {0}, NEW h \in 0 .. N - 1, NEW t \in 0 .. N - 1
  PROVE  (h + N - t) % N = IF h >= t THEN h - t ELSE h + N - t
<1> DEFINE a == h + N - t
<1>1. a \in Nat /\ (h >= t <=> a >= N) /\ a < N + N /\ a - N = h - t
  OBVIOUS
<1> HIDE DEF a
<1>2. a % N = IF h >= t THEN h - t ELSE a
  BY <1>1
<1>3. QED BY <1>2, Zenon DEF a

LEMMA ModNext ==
  ASSUME NEW N \in Nat \ {0}, NEW h \in 0 .. N - 1
  PROVE  (h + 1) % N = IF h = N - 1 THEN 0 ELSE h + 1
<1> DEFINE a == h + 1
<1>1. a \in Nat /\ (h = N - 1 <=> a = N) /\ a <= N
  OBVIOUS
<1> HIDE DEF a
<1>2. a % N = IF h = N - 1 THEN 0 ELSE a
  BY <1>1
<1>3. QED BY <1>2, Zenon DEF a

LEMMA ModPlus ==
  ASSUME NEW N \in Nat \ {0}, NEW t \in 0 .. N - 1, NEW n \in 0 .. N
  PROVE  /\ t + n >= N => (t + n) % N = (t + n) - N
         /\ t + n < N => (t + n) % N = t + n
<1> DEFINE a == t + n
<1>1. a \in Nat /\ a < N + N
  OBVIOUS
<1> HIDE DEF a
<1>2. (a >= N => a % N = a - N) /\ (a < N => a % N = a)
  BY <1>1
<1>3. QED BY <1>2, Zenon DEF a

LEMMA ModPlace ==
  ASSUME NEW N \in Nat \ {0}, NEW t \in 0 .. N - 1, NEW i \in 1 .. N
  PROVE  /\ t + i - 1 >= N => (t + i - 1) % N = (t + i - 1) - N
         /\ t + i - 1 < N => (t + i - 1) % N = t + i - 1
<1> DEFINE a == t + i - 1
<1>1. a \in Nat /\ a < N + N
  OBVIOUS
<1> HIDE DEF a
<1>2. (a >= N => a % N = a - N) /\ (a < N => a % N = a)
  BY <1>1
<1>3. QED BY <1>2, Zenon DEF a

LEMMA QueueFields ==
  ASSUME NEW q \in Queue
  PROVE  /\ TX_QUEUE_SIZE \in Nat \ {0} /\ Index = 0 .. TX_QUEUE_SIZE - 1
         /\ q.head \in 0 .. TX_QUEUE_SIZE - 1 /\ q.tail \in 0 .. TX_QUEUE_SIZE - 1
         /\ q.slot \in [Index -> Bufs \union {Nobody}]
         /\ Queued(q) = IF q.head >= q.tail THEN q.head - q.tail
                        ELSE q.head + TX_QUEUE_SIZE - q.tail
         /\ Queued(q) \in 0 .. TX_QUEUE_SIZE - 1
<1>1. TX_QUEUE_SIZE \in Nat \ {0} /\ Index = 0 .. TX_QUEUE_SIZE - 1
  BY Sizes DEF Index
<1>2. /\ q.head \in 0 .. TX_QUEUE_SIZE - 1 /\ q.tail \in 0 .. TX_QUEUE_SIZE - 1
      /\ q.slot \in [Index -> Bufs \union {Nobody}]
  BY DEF Queue, Index
<1>3. Queued(q) = IF q.head >= q.tail THEN q.head - q.tail
                  ELSE q.head + TX_QUEUE_SIZE - q.tail
  BY <1>1, <1>2, ModDistance, Zenon DEF Queued
<1>4. Queued(q) \in 0 .. TX_QUEUE_SIZE - 1
  BY <1>1, <1>2, <1>3
<1>5. QED BY <1>1, <1>2, <1>3, <1>4

LEMMA QueueFacts ==
  ASSUME NEW q \in Queue
  PROVE  /\ QueueFull(q) <=> Queued(q) = TX_QUEUE_SIZE - 1
         /\ Held(q) = [i \in 1 .. Queued(q) |-> Slot(q, i)]
<1> DEFINE next == (q.head + 1) % TX_QUEUE_SIZE
<1>1. next = IF q.head = TX_QUEUE_SIZE - 1 THEN 0 ELSE q.head + 1
  BY QueueFields, ModNext, Zenon
<1>2. QueueFull(q) <=> next = q.tail
  BY Zenon DEF QueueFull
<1> HIDE DEF next
<1>3. QueueFull(q) <=> Queued(q) = TX_QUEUE_SIZE - 1
  <2>1. /\ TX_QUEUE_SIZE \in Nat \ {0}
        /\ q.head \in 0 .. TX_QUEUE_SIZE - 1 /\ q.tail \in 0 .. TX_QUEUE_SIZE - 1
        /\ Queued(q) = IF q.head >= q.tail THEN q.head - q.tail
                       ELSE q.head + TX_QUEUE_SIZE - q.tail
    BY QueueFields
  <2>2. next = q.tail <=> Queued(q) = TX_QUEUE_SIZE - 1
    <3>1. CASE q.head = TX_QUEUE_SIZE - 1
      BY <1>1, <2>1, <3>1
    <3>2. CASE q.head # TX_QUEUE_SIZE - 1
      BY <1>1, <2>1, <3>2
    <3>3. QED BY <3>1, <3>2
  <2>3. QED BY <1>2, <2>2
<1>4. Min2(Queued(q), TX_QUEUE_SIZE) = Queued(q)
  BY QueueFields DEF Min2
<1>5. Held(q) = [i \in 1 .. Queued(q) |-> Slot(q, i)]
  BY <1>4 DEF Held, get_pkt_to_tx, Slot
<1>6. QED BY <1>3, <1>5

(* All of it taken at once.                                                *)
LEMMA Emptied ==
  ASSUME NEW q \in Queue, NEW max \in Nat, Queued(q) <= max
  PROVE  /\ get_pkt_to_tx(q, max).pkts = Held(q)
         /\ get_pkt_to_tx(q, max).queue \in Queue
         /\ Queued(get_pkt_to_tx(q, max).queue) = 0
         /\ Held(get_pkt_to_tx(q, max).queue) = <<>>
<1> DEFINE out == get_pkt_to_tx(q, max).queue
           left == [j \in Index |->
                      IF \E i \in 1 .. Queued(q) : (q.tail + i - 1) % TX_QUEUE_SIZE = j
                      THEN Nobody ELSE q.slot[j]]
<1>1. Min2(Queued(q), max) = Queued(q)
  BY QueueFields DEF Min2
<1>2. get_pkt_to_tx(q, max).pkts = Held(q)
  BY <1>1, QueueFacts DEF get_pkt_to_tx, Slot
<1>3. (q.tail + Queued(q)) % TX_QUEUE_SIZE = q.head
  <2>1. Queued(q) \in 0 .. TX_QUEUE_SIZE
    BY QueueFields
  <2> DEFINE a == q.tail + Queued(q)
             at == a % TX_QUEUE_SIZE
  <2>2. /\ a >= TX_QUEUE_SIZE => at = a - TX_QUEUE_SIZE
        /\ a < TX_QUEUE_SIZE => at = a
    BY <2>1, QueueFields, ModPlus, Zenon
  <2> HIDE DEF at
  <2>3. at = q.head
    BY <2>2, QueueFields
  <2>4. QED BY <2>3 DEF at
<1>4. out = [slot |-> left, tail |-> q.head, head |-> q.head]
  BY <1>1, <1>3 DEF get_pkt_to_tx
<1>5. left \in [Index -> Bufs \union {Nobody}]
  BY QueueFields
<1> HIDE DEF left, out
<1>6. out \in Queue /\ out.head = q.head /\ out.tail = q.head
  BY <1>4, <1>5, QueueFields DEF Queue
<1>7. Queued(out) = 0
  BY <1>6, QueueFields
<1>8. Held(out) = <<>>
  BY <1>6, <1>7, QueueFacts
<1>9. QED BY <1>2, <1>6, <1>7, <1>8 DEF out

(* One more packet at its end.                                             *)
LEMMA QueuedOne ==
  ASSUME NEW q \in Queue, NEW b \in Bufs, ~QueueFull(q), Held(q) \in Seq(Bufs)
  PROVE  /\ queue_pkt_to_tx(q, b) \in Queue
         /\ Queued(queue_pkt_to_tx(q, b)) = Queued(q) + 1
         /\ Held(queue_pkt_to_tx(q, b)) = Append(Held(q), b)
<1> DEFINE r == queue_pkt_to_tx(q, b)
           next == (q.head + 1) % TX_QUEUE_SIZE
<1>1. next = IF q.head = TX_QUEUE_SIZE - 1 THEN 0 ELSE q.head + 1
  BY QueueFields, ModNext, Zenon
<1>2. Queued(q) < TX_QUEUE_SIZE - 1
  BY QueueFields, QueueFacts
<1>3. r = [slot |-> [q.slot EXCEPT ![q.head] = b], head |-> next, tail |-> q.tail]
  BY DEF queue_pkt_to_tx, Queue
<1> HIDE DEF next, r
<1>4. /\ r \in Queue /\ r.slot = [q.slot EXCEPT ![q.head] = b]
      /\ r.tail = q.tail /\ r.head = next
  <2>1. next \in Index
    BY <1>1, QueueFields
  <2>2. [q.slot EXCEPT ![q.head] = b] \in [Index -> Bufs \union {Nobody}]
    BY QueueFields
  <2>3. q.tail \in Index
    BY DEF Queue
  <2>4. QED BY <1>3, <2>1, <2>2, <2>3 DEF Queue
<1>5. Queued(r) = Queued(q) + 1
  <2>1. Queued(r) = IF r.head >= r.tail THEN r.head - r.tail
                    ELSE r.head + TX_QUEUE_SIZE - r.tail
    BY <1>4, QueueFields
  <2>2. CASE q.head = TX_QUEUE_SIZE - 1
    BY <1>1, <1>2, <1>4, <2>1, <2>2, QueueFields
  <2>3. CASE q.head # TX_QUEUE_SIZE - 1
    <3>1. r.head = q.head + 1 /\ r.tail = q.tail
      BY <1>1, <1>4, <2>3
    <3>2. CASE q.head >= q.tail
      BY <2>1, <3>1, <3>2, QueueFields
    <3>3. CASE q.head < q.tail
      <4>1. Queued(q) = q.head + TX_QUEUE_SIZE - q.tail
        BY <3>3, QueueFields
      <4>2. ~(q.head + 1 >= q.tail)
        BY <1>2, <3>3, <4>1, QueueFields
      <4>3. Queued(r) = (q.head + 1) + TX_QUEUE_SIZE - q.tail
        BY <2>1, <3>1, <4>2
      <4>4. QED BY <4>1, <4>3, QueueFields, SMTT(30)
    <3>4. QED BY <3>2, <3>3, QueueFields
  <2>4. QED BY <2>2, <2>3
<1>6. ASSUME NEW i \in 1 .. Queued(q) + 1
      PROVE  /\ q.tail + i - 1 >= TX_QUEUE_SIZE
                => (q.tail + i - 1) % TX_QUEUE_SIZE = (q.tail + i - 1) - TX_QUEUE_SIZE
             /\ q.tail + i - 1 < TX_QUEUE_SIZE
                => (q.tail + i - 1) % TX_QUEUE_SIZE = q.tail + i - 1
  <2>1. i \in 1 .. TX_QUEUE_SIZE
    BY <1>2, QueueFields
  <2>2. QED BY <2>1, QueueFields, ModPlace, Zenon
<1>7. Slot(r, Queued(q) + 1) = b
  <2> DEFINE last == Queued(q) + 1
             at == (q.tail + last - 1) % TX_QUEUE_SIZE
  <2>1. last \in 1 .. Queued(q) + 1
    BY QueueFields
  <2>2. /\ q.tail + last - 1 >= TX_QUEUE_SIZE => at = (q.tail + last - 1) - TX_QUEUE_SIZE
        /\ q.tail + last - 1 < TX_QUEUE_SIZE => at = q.tail + last - 1
    BY <1>6, <2>1, Zenon
  <2>3. Slot(r, last) = r.slot[at]
    BY <1>4, Zenon DEF Slot
  <2> HIDE DEF at
  <2>4. at = q.head
    <3>1. CASE q.head >= q.tail
      BY <2>2, <3>1, QueueFields
    <3>2. CASE q.head < q.tail
      BY <2>2, <3>2, QueueFields, SMTT(30)
    <3>3. QED BY <3>1, <3>2, QueueFields
  <2> HIDE DEF last
  <2>5. r.slot[q.head] = b
    BY <1>4, QueueFields
  <2>6. QED BY <2>3, <2>4, <2>5 DEF last
<1>8. ASSUME NEW i \in 1 .. Queued(q) PROVE Slot(r, i) = Slot(q, i)
  <2> DEFINE at == (q.tail + i - 1) % TX_QUEUE_SIZE
  <2>1. i \in 1 .. Queued(q) + 1
    BY QueueFields
  <2>2. /\ q.tail + i - 1 >= TX_QUEUE_SIZE => at = (q.tail + i - 1) - TX_QUEUE_SIZE
        /\ q.tail + i - 1 < TX_QUEUE_SIZE => at = q.tail + i - 1
    BY <1>6, <2>1, Zenon
  <2>3. Slot(r, i) = r.slot[at] /\ Slot(q, i) = q.slot[at]
    BY <1>4, Zenon DEF Slot
  <2> HIDE DEF at
  <2>4. at \in Index /\ at # q.head
    BY <2>1, <2>2, QueueFields, SMTT(30)
  <2>5. QED BY <1>4, <2>3, <2>4, QueueFields
<1>9. Held(r) = [i \in 1 .. Queued(q) + 1 |-> Slot(r, i)]
  BY <1>4, <1>5, QueueFacts, Zenon
<1>10. /\ Held(q) = [i \in 1 .. Queued(q) |-> Slot(q, i)] /\ Len(Held(q)) = Queued(q)
  BY QueueFacts, QueueFields
<1>11. \A i \in 1 .. Queued(q) + 1 :
         Slot(r, i) = IF i = Queued(q) + 1 THEN b ELSE Held(q)[i]
  <2> SUFFICES ASSUME NEW i \in 1 .. Queued(q) + 1
               PROVE  Slot(r, i) = IF i = Queued(q) + 1 THEN b ELSE Held(q)[i]
    OBVIOUS
  <2>1. CASE i = Queued(q) + 1
    BY <1>7, <2>1
  <2>2. CASE i # Queued(q) + 1
    <3>1. i \in 1 .. Queued(q)
      BY <2>2, QueueFields
    <3>2. QED BY <1>8, <1>10, <2>2, <3>1
  <2>3. QED BY <2>1, <2>2
<1> DEFINE a == Append(Held(q), b)
<1>12. /\ a \in Seq(Bufs) /\ Len(a) = Queued(q) + 1
       /\ \A i \in 1 .. Queued(q) + 1 : a[i] = IF i = Queued(q) + 1 THEN b ELSE Held(q)[i]
  <2>1. /\ a \in Seq(Bufs) /\ Len(a) = Len(Held(q)) + 1
        /\ \A i \in 1 .. Len(Held(q)) : a[i] = Held(q)[i]
        /\ a[Len(Held(q)) + 1] = b
    BY AppendProperties
  <2> HIDE DEF a
  <2>2. ASSUME NEW i \in 1 .. Queued(q) + 1, i # Queued(q) + 1
        PROVE  i \in 1 .. Queued(q)
    BY <2>2, QueueFields
  <2>3. QED BY <2>1, <2>2, <1>10
<1> HIDE DEF a
<1>13. Held(r) = a
  <2>1. a = [i \in 1 .. Queued(q) + 1 |-> a[i]]
    BY <1>12
  <2>2. QED BY <1>9, <1>11, <1>12, <2>1
<1>14. QED BY <1>4, <1>5, <1>13 DEF r, a

-----------------------------------------------------------------------------
(* The inductive invariant: types; a worker's queue, with what is left of  *)
(* its batch, never exceeds a batch; and every buffer is in one place.     *)
WorkerRecord ==
  [pc : {"top", "wait", "work", "ended"}, batch : Seq(Bufs),
   tags : SUBSET Range(flow), queue : Queue]

Fields ==
  /\ free \subseteq Bufs /\ lost \subseteq Bufs
  /\ rxRing \in Seq(Bufs) /\ Len(rxRing) <= RX_RING_SIZE
  /\ txRing \in Seq(Bufs) /\ Len(txRing) <= TX_RING_SIZE
  /\ dist \in [pc : {"poll", "give", "ended"}, pkts : Seq(Bufs)]
  /\ inbox \in [Workers -> Seq(Bufs)]
  /\ back \in Seq(Bufs)
  /\ worker \in [Workers -> WorkerRecord]

Fits(r) ==
  /\ Held(r.queue) \in Seq(Bufs)
  /\ r.pc = "top" => r.batch = <<>> /\ Queued(r.queue) <= DIST_BURST
  /\ r.pc = "wait" => r.batch = <<>> /\ Queued(r.queue) = 0
  /\ r.pc = "work" => r.batch # <<>> /\ Queued(r.queue) + Len(r.batch) <= DIST_BURST
  /\ r.pc = "ended" => r.batch = <<>>

Loops ==
  /\ \A w \in Workers : Fits(worker[w]) /\ Len(inbox[w]) <= DIST_BURST
  /\ dist.pc # "give" => dist.pkts = <<>>

DatapathInv == Fields /\ Loops /\ OnePlace

-----------------------------------------------------------------------------
(* Workers: one record of the array is replaced.                           *)
LEMMA NoneLeft ==
  ASSUME NEW S, NEW s \in Seq(S)
  PROVE  s = <<>> <=> Len(s) = 0
OBVIOUS

LEMMA WorkerFields ==
  ASSUME Fields, NEW w \in Workers
  PROVE  /\ worker[w] \in WorkerRecord
         /\ worker[w].pc \in {"top", "wait", "work", "ended"}
         /\ worker[w].batch \in Seq(Bufs) /\ worker[w].queue \in Queue
         /\ inbox[w] \in Seq(Bufs)
BY DEF Fields, WorkerRecord

LEMMA AskStep ==
  ASSUME Fields, NEW w \in Workers, WorkerAsk(w),
         get_pkt_to_tx(worker[w].queue, MAX_PKT_PER_TX).queue \in Queue
  PROVE  /\ worker' \in [Workers -> WorkerRecord]
         /\ worker'[w].pc = "wait" /\ worker'[w].batch = worker[w].batch
         /\ worker'[w].queue = get_pkt_to_tx(worker[w].queue, MAX_PKT_PER_TX).queue
         /\ \A v \in Workers \ {w} : worker'[v] = worker[v]
<1> DEFINE out == get_pkt_to_tx(worker[w].queue, MAX_PKT_PER_TX)
<1>1. worker' = [worker EXCEPT ![w].pc = "wait", ![w].tags = {}, ![w].queue = out.queue]
  BY DEF WorkerAsk
<1>2. worker \in [Workers -> WorkerRecord] /\ out.queue \in Queue
  BY DEF Fields
<1> HIDE DEF out
<1>3. worker' \in [Workers -> WorkerRecord]
  BY <1>1, <1>2, ZenonT(30) DEF WorkerRecord
<1>4. /\ worker'[w].pc = "wait" /\ worker'[w].batch = worker[w].batch
      /\ worker'[w].queue = out.queue
      /\ \A v \in Workers \ {w} : worker'[v] = worker[v]
  BY <1>1, <1>2 DEF WorkerRecord
<1>5. QED BY <1>3, <1>4 DEF out

LEMMA TakeStep ==
  ASSUME Fields, NEW w \in Workers, WorkerTake(w),
         get_pkt_to_tx(worker[w].queue, TX_QUEUE_SIZE).queue \in Queue
  PROVE  /\ worker' \in [Workers -> WorkerRecord]
         /\ worker'[w].pc = IF inbox[w] = <<>> THEN "top" ELSE "work"
         /\ worker'[w].batch = inbox[w]
         /\ worker'[w].queue = get_pkt_to_tx(worker[w].queue, TX_QUEUE_SIZE).queue
         /\ \A v \in Workers \ {w} : worker'[v] = worker[v]
<1> DEFINE out == get_pkt_to_tx(worker[w].queue, TX_QUEUE_SIZE)
           tags == {flow[b] : b \in ToSet(inbox[w])}
           pc == IF inbox[w] = <<>> THEN "top" ELSE "work"
<1>1. worker' = [worker EXCEPT ![w].pc = pc, ![w].batch = inbox[w], ![w].tags = tags,
                               ![w].queue = out.queue]
  BY DEF WorkerTake
<1>2. /\ worker \in [Workers -> WorkerRecord] /\ out.queue \in Queue
      /\ inbox[w] \in Seq(Bufs) /\ pc \in {"top", "wait", "work", "ended"}
  BY DEF Fields
<1>3. tags \in SUBSET Range(flow)
  <2>1. ToSet(inbox[w]) \subseteq Bufs
    BY <1>2 DEF ToSet
  <2>2. QED BY <2>1, FlowAssumption DEF Range
<1> HIDE DEF out, tags, pc
<1>4. worker' \in [Workers -> WorkerRecord]
  <2> DEFINE half == [worker EXCEPT ![w].pc = pc, ![w].batch = inbox[w]]
  <2>1. half \in [Workers -> WorkerRecord]
    BY <1>2 DEF WorkerRecord
  <2>2. worker' = [half EXCEPT ![w].tags = tags, ![w].queue = out.queue]
    BY <1>1
  <2> HIDE DEF half
  <2>3. QED BY <1>2, <1>3, <2>1, <2>2, ZenonT(30) DEF WorkerRecord
<1>5. /\ worker'[w].pc = pc /\ worker'[w].batch = inbox[w]
      /\ worker'[w].queue = out.queue
      /\ \A v \in Workers \ {w} : worker'[v] = worker[v]
  BY <1>1, <1>2 DEF WorkerRecord
<1>6. QED BY <1>4, <1>5 DEF out, pc

LEMMA ProcessedStep ==
  ASSUME Fields, NEW w \in Workers, NEW q \in Queue, Processed(w, q),
         worker[w].batch # <<>>
  PROVE  /\ worker' \in [Workers -> WorkerRecord]
         /\ worker'[w].pc = IF Len(worker[w].batch) = 1 THEN "top" ELSE worker[w].pc
         /\ worker'[w].batch = Tail(worker[w].batch)
         /\ worker'[w].queue = q
         /\ \A v \in Workers \ {w} : worker'[v] = worker[v]
<1> DEFINE pc == IF Len(worker[w].batch) = 1 THEN "top" ELSE worker[w].pc
           rest == Tail(worker[w].batch)
<1>1. worker' = [worker EXCEPT ![w].batch = rest, ![w].queue = q, ![w].pc = pc]
  <2>1. worker' = [worker EXCEPT ![w].batch = Tail(@), ![w].queue = q,
                                 ![w].pc = IF Len(worker[w].batch) = 1 THEN "top" ELSE @]
    BY DEF Processed
  <2>2. worker \in [Workers -> WorkerRecord]
    BY DEF Fields
  <2>3. QED BY <2>1, <2>2 DEF WorkerRecord
<1>2. /\ worker \in [Workers -> WorkerRecord] /\ rest \in Seq(Bufs)
      /\ pc \in {"top", "wait", "work", "ended"}
  BY WorkerFields DEF Fields
<1> HIDE DEF pc, rest
<1>3. worker' \in [Workers -> WorkerRecord]
  BY <1>1, <1>2, ZenonT(30) DEF WorkerRecord
<1>4. /\ worker'[w].pc = pc /\ worker'[w].batch = rest
      /\ worker'[w].queue = q
      /\ \A v \in Workers \ {w} : worker'[v] = worker[v]
  BY <1>1, <1>2 DEF WorkerRecord
<1>5. QED BY <1>3, <1>4 DEF pc, rest

LEMMA EndsStep ==
  ASSUME Fields, NEW w \in Workers, WorkerEnds(w)
  PROVE  /\ worker' \in [Workers -> WorkerRecord]
         /\ worker'[w].pc = "ended" /\ worker'[w].batch = worker[w].batch
         /\ worker'[w].queue = worker[w].queue
         /\ \A v \in Workers \ {w} : worker'[v] = worker[v]
<1>1. worker' = [worker EXCEPT ![w].pc = "ended"]
  BY DEF WorkerEnds
<1>2. worker \in [Workers -> WorkerRecord]
  BY DEF Fields
<1>3. worker' \in [Workers -> WorkerRecord]
  BY <1>1, <1>2 DEF WorkerRecord
<1>4. QED BY <1>1, <1>2, <1>3 DEF WorkerRecord

-----------------------------------------------------------------------------
(* The types and the loops' bounds are kept.                               *)
LEMMA TypesInit == Init => Fields /\ Loops
<1> SUFFICES ASSUME Init PROVE Fields /\ Loops
  OBVIOUS
<1> DEFINE r == [pc |-> "top", batch |-> <<>>, tags |-> {}, queue |-> EmptyQueue]
<1>1. EmptyQueue \in Queue /\ EmptyQueue.head = 0 /\ EmptyQueue.tail = 0
  BY Sizes DEF EmptyQueue, Queue, Index
<1>2. Queued(EmptyQueue) = 0
  BY <1>1, QueueFields
<1>3. Held(EmptyQueue) = <<>>
  BY <1>1, <1>2, QueueFacts
<1>4. r \in WorkerRecord
  BY <1>1 DEF WorkerRecord
<1>5. Fits(r)
  BY <1>2, <1>3, Sizes DEF Fits
<1> HIDE DEF r
<1>6. worker = [w \in Workers |-> r]
  BY DEF Init, r
<1>7. Fields
  <2>1. <<>> \in Seq(Bufs) /\ Len(<<>>) = 0
    OBVIOUS
  <2>2. worker \in [Workers -> WorkerRecord] /\ inbox \in [Workers -> Seq(Bufs)]
    BY <1>4, <1>6, <2>1 DEF Init
  <2>3. dist \in [pc : {"poll", "give", "ended"}, pkts : Seq(Bufs)]
    BY <2>1 DEF Init
  <2>4. 0 <= RX_RING_SIZE /\ 0 <= TX_RING_SIZE
    BY Sizes
  <2>5. /\ rxRing = <<>> /\ txRing = <<>> /\ back = <<>>
        /\ free = Bufs /\ lost = {}
    BY DEF Init
  <2>6. QED BY <2>1, <2>2, <2>3, <2>4, <2>5 DEF Fields
<1>8. Loops
  <2>1. dist.pkts = <<>> /\ \A w \in Workers : inbox[w] = <<>>
    BY DEF Init
  <2>2. Len(<<>>) = 0 /\ 0 <= DIST_BURST
    BY Sizes
  <2>3. \A w \in Workers : Fits(worker[w])
    BY <1>5, <1>6
  <2>4. QED BY <2>1, <2>2, <2>3 DEF Loops
<1>9. QED BY <1>7, <1>8

(* A worker's step, which leaves the others alone.                         *)
LEMMA OneWorker ==
  ASSUME Loops, NEW w \in Workers, Fits(worker'[w]),
         \A v \in Workers \ {w} : worker'[v] = worker[v],
         \A v \in Workers : Len(inbox'[v]) <= DIST_BURST,
         UNCHANGED dist
  PROVE  Loops'
<1>1. \A v \in Workers : Fits(worker'[v])
  BY DEF Loops
<1>2. QED BY <1>1 DEF Loops, Fits

LEMMA Idle ==
  ASSUME Loops, UNCHANGED <<worker, inbox, dist>>
  PROVE  Loops'
BY DEF Loops, Fits

LEMMA ProcessedKeeps ==
  ASSUME Fields, Loops, NEW w \in Workers, NEW q \in Queue, Processed(w, q),
         Held(q) \in Seq(Bufs), Queued(q) <= Queued(worker[w].queue) + 1
  PROVE  worker' \in [Workers -> WorkerRecord] /\ Loops'
<1> DEFINE r == worker[w]
           rest == Tail(r.batch)
<1>1. /\ r.pc = "work" /\ r.batch \in Seq(Bufs) /\ r.batch # <<>> /\ r.queue \in Queue
      /\ Queued(r.queue) + Len(r.batch) <= DIST_BURST
  BY WorkerFields DEF Processed, Loops, Fits
<1>2. /\ worker' \in [Workers -> WorkerRecord]
      /\ worker'[w].pc = IF Len(r.batch) = 1 THEN "top" ELSE "work"
      /\ worker'[w].batch = rest /\ worker'[w].queue = q
      /\ \A v \in Workers \ {w} : worker'[v] = worker[v]
  BY <1>1, ProcessedStep
<1>3. /\ rest \in Seq(Bufs) /\ Len(rest) = Len(r.batch) - 1
      /\ Len(r.batch) \in Nat \ {0}
  BY <1>1, HeadTail
<1>4. Queued(q) \in Nat /\ Queued(r.queue) \in Nat /\ DIST_BURST \in Nat
  <2>1. Queued(q) \in 0 .. TX_QUEUE_SIZE - 1 /\ Queued(r.queue) \in 0 .. TX_QUEUE_SIZE - 1
    BY <1>1, QueueFields
  <2>2. QED BY <2>1, Sizes
<1> HIDE DEF r, rest
<1>5. Fits(worker'[w])
  <2>1. CASE Len(r.batch) = 1
    <3>1. rest = <<>>
      BY <1>3, <2>1, NoneLeft
    <3>2. Queued(q) <= DIST_BURST
      BY <1>1, <1>4, <2>1 DEF r
    <3>3. QED BY <1>2, <2>1, <3>1, <3>2 DEF Fits
  <2>2. CASE Len(r.batch) # 1
    <3>1. rest # <<>>
      <4>1. Len(rest) # 0
        BY <1>3, <2>2
      <4>2. Len(<<>>) = 0
        OBVIOUS
      <4>3. QED BY <4>1, <4>2
    <3>2. Queued(q) + Len(rest) <= DIST_BURST
      BY <1>1, <1>3, <1>4 DEF r
    <3>3. QED BY <1>2, <2>2, <3>1, <3>2 DEF Fits
  <2>3. QED BY <2>1, <2>2
<1>6. Loops'
  BY <1>2, <1>5, OneWorker DEF Processed, Loops
<1>7. QED BY <1>2, <1>6

LEMMA TypesNext ==
  ASSUME Fields, Loops, [Next]_vars
  PROVE  Fields' /\ Loops'
<1>1. /\ RX_RING_SIZE \in Nat /\ TX_RING_SIZE \in Nat /\ RX_BURST_SIZE \in Nat
      /\ TX_BURST_SIZE \in Nat /\ DIST_BURST \in Nat
  BY Sizes
<1>2. CASE RxBurst
  <2>1. PICK pkts \in UNION {[1 .. n -> free] : n \in 1 .. RX_BURST_SIZE} :
          LET got == FirstOf(pkts, RX_RING_SIZE - Len(rxRing))
          IN  rxRing' = rxRing \o got /\ free' = free \ ToSet(got)
    BY <1>2 DEF RxBurst
  <2> DEFINE room == RX_RING_SIZE - Len(rxRing)
             got == FirstOf(pkts, room)
  <2>2. pkts \in Seq(Bufs)
    <3>1. PICK n \in 1 .. RX_BURST_SIZE : pkts \in [1 .. n -> free]
      OBVIOUS
    <3>2. n \in Nat /\ free \subseteq Bufs
      BY <1>1 DEF Fields
    <3>3. QED BY <3>1, <3>2
  <2>3. room \in Nat /\ Len(rxRing) \in Nat
    BY <1>1 DEF Fields
  <2>4. got \in Seq(Bufs) /\ Len(got) <= room
    BY <2>2, <2>3, Split
  <2> HIDE DEF got
  <2>5. rxRing \o got \in Seq(Bufs) /\ Len(rxRing \o got) = Len(rxRing) + Len(got)
    BY <2>4, Joined DEF Fields
  <2>6. Len(got) \in Nat
    BY <2>4
  <2>7. rxRing' = rxRing \o got /\ free' \subseteq Bufs
    BY <2>1 DEF Fields, got
  <2>8. rxRing' \in Seq(Bufs) /\ Len(rxRing') <= RX_RING_SIZE
    BY <1>1, <2>3, <2>4, <2>5, <2>6, <2>7
  <2>9. Fields'
    BY <1>2, <2>7, <2>8 DEF RxBurst, Fields
  <2>10. Loops'
    BY <1>2, Idle DEF RxBurst
  <2>11. QED BY <2>9, <2>10
<1>3. CASE RxArpReply \/ RxForget \/ RxEnds
  <2>1. Fields'
    BY <1>3 DEF RxArpReply, RxForget, RxEnds, Fields
  <2>2. Loops'
    BY <1>3, Idle DEF RxArpReply, RxForget, RxEnds
  <2>3. QED BY <2>1, <2>2
<1>4. CASE ArpRequest
  <2>1. PICK b \in free : free' = free \ {b} /\ txRing' = Append(txRing, b)
    BY <1>4 DEF ArpRequest
  <2>2. txRing' \in Seq(Bufs) /\ Len(txRing') = Len(txRing) + 1 /\ Len(txRing) \in Nat
    BY <2>1, Appended DEF Fields
  <2>3. Len(txRing') <= TX_RING_SIZE
    BY <1>1, <1>4, <2>2 DEF ArpRequest
  <2>4. Fields'
    BY <1>4, <2>1, <2>2, <2>3 DEF ArpRequest, Fields
  <2>5. Loops'
    BY <1>4, Idle DEF ArpRequest
  <2>6. QED BY <2>4, <2>5
<1>5. CASE DistPoll
  <2>1. /\ FirstOf(rxRing, RX_BURST_SIZE) \in Seq(Bufs)
        /\ AllBut(rxRing, RX_BURST_SIZE) \in Seq(Bufs)
        /\ Len(AllBut(rxRing, RX_BURST_SIZE)) <= Len(rxRing)
    BY <1>1, Split DEF Fields
  <2>2. Len(AllBut(rxRing, RX_BURST_SIZE)) <= RX_RING_SIZE
    <3>1. Len(AllBut(rxRing, RX_BURST_SIZE)) \in Nat /\ Len(rxRing) \in Nat
      BY <2>1 DEF Fields
    <3>2. QED BY <1>1, <2>1, <3>1 DEF Fields
  <2>3. Fields'
    BY <1>5, <2>1, <2>2 DEF DistPoll, Fields
  <2>4. Loops'
    BY <1>5 DEF DistPoll, Loops, Fits
  <2>5. QED BY <2>3, <2>4
<1>6. ASSUME NEW w \in Workers, DistGive(w)
      PROVE  Fields' /\ Loops'
  <2> DEFINE b == Head(dist.pkts)
  <2>1. dist.pkts \in Seq(Bufs) /\ dist.pkts # <<>> /\ dist.pc = "give"
    BY <1>6 DEF DistGive, Fields
  <2>2. b \in Bufs /\ Tail(dist.pkts) \in Seq(Bufs)
    BY <2>1, HeadTail
  <2> HIDE DEF b
  <2>3. /\ inbox[w] \in Seq(Bufs) /\ Append(inbox[w], b) \in Seq(Bufs)
        /\ Len(Append(inbox[w], b)) = Len(inbox[w]) + 1 /\ Len(inbox[w]) \in Nat
    BY <2>2, Appended DEF Fields
  <2>4. Len(inbox[w]) < DIST_BURST
    BY <1>6 DEF DistGive
  <2>5. inbox' = [inbox EXCEPT ![w] = Append(inbox[w], b)]
    BY <1>6 DEF DistGive, b, Fields
  <2>6. dist' = [dist EXCEPT !.pkts = Tail(dist.pkts)]
    BY <1>6 DEF DistGive
  <2>7. dist' \in [pc : {"poll", "give", "ended"}, pkts : Seq(Bufs)] /\ dist'.pc = "give"
    BY <2>1, <2>2, <2>6 DEF Fields
  <2>8. inbox' \in [Workers -> Seq(Bufs)]
    BY <2>3, <2>5 DEF Fields
  <2>9. Fields'
    BY <1>6, <2>7, <2>8 DEF DistGive, Fields
  <2>10. \A v \in Workers : Len(inbox'[v]) <= DIST_BURST
    BY <1>1, <2>3, <2>4, <2>5 DEF Fields, Loops
  <2>11. Loops'
    BY <1>6, <2>7, <2>10 DEF DistGive, Loops, Fits
  <2>12. QED BY <2>9, <2>11
<1>7. CASE DistReturn
  <2> DEFINE pkts == FirstOf(back, TX_BURST_SIZE)
             room == TX_RING_SIZE - Len(txRing)
             sent == FirstOf(pkts, room)
  <2>1. pkts \in Seq(Bufs) /\ AllBut(back, TX_BURST_SIZE) \in Seq(Bufs)
    BY <1>1, Split DEF Fields
  <2>2. room \in Nat /\ Len(txRing) \in Nat
    BY <1>1 DEF Fields
  <2>3. /\ lost' = lost \union (ToSet(pkts) \ ToSet(sent))
        /\ txRing' = txRing \o sent /\ back' = AllBut(back, TX_BURST_SIZE)
    BY <1>7 DEF DistReturn, Lose
  <2> HIDE DEF pkts
  <2>4. sent \in Seq(Bufs) /\ Len(sent) <= room
    BY <2>1, <2>2, Split
  <2> HIDE DEF sent
  <2>5. /\ txRing \o sent \in Seq(Bufs) /\ Len(txRing \o sent) = Len(txRing) + Len(sent)
        /\ Len(sent) \in Nat
    BY <2>4, Joined DEF Fields
  <2>6. txRing' \in Seq(Bufs) /\ Len(txRing') <= TX_RING_SIZE
    BY <1>1, <2>2, <2>3, <2>4, <2>5
  <2>7. lost' \subseteq Bufs
    BY <2>1, <2>3 DEF ToSet, Fields
  <2>8. dist' = [dist EXCEPT !.pc = "poll"] /\ dist.pkts = <<>>
    BY <1>7 DEF DistReturn
  <2>9. /\ dist' \in [pc : {"poll", "give", "ended"}, pkts : Seq(Bufs)]
        /\ dist'.pkts = <<>>
    BY <2>8 DEF Fields
  <2>10. Fields'
    BY <1>7, <2>1, <2>3, <2>6, <2>7, <2>9 DEF DistReturn, Fields
  <2>11. Loops'
    BY <1>7, <2>9 DEF DistReturn, Loops, Fits
  <2>12. QED BY <2>10, <2>11
<1>8. CASE DistEnds
  <2>1. dist' = [dist EXCEPT !.pc = "ended"] /\ dist.pkts = <<>>
    BY <1>8 DEF DistEnds, Loops
  <2>2. /\ dist' \in [pc : {"poll", "give", "ended"}, pkts : Seq(Bufs)]
        /\ dist'.pkts = <<>>
    BY <2>1 DEF Fields
  <2>3. Fields'
    BY <1>8, <2>2 DEF DistEnds, Fields
  <2>4. Loops'
    BY <1>8, <2>2 DEF DistEnds, Loops, Fits
  <2>5. QED BY <2>3, <2>4
<1>9. CASE TxBurst
  <2>1. /\ FirstOf(txRing, TX_BURST_SIZE) \in Seq(Bufs)
        /\ AllBut(txRing, TX_BURST_SIZE) \in Seq(Bufs)
        /\ Len(AllBut(txRing, TX_BURST_SIZE)) <= Len(txRing)
    BY <1>1, Split DEF Fields
  <2>2. Len(AllBut(txRing, TX_BURST_SIZE)) <= TX_RING_SIZE
    <3>1. Len(AllBut(txRing, TX_BURST_SIZE)) \in Nat /\ Len(txRing) \in Nat
      BY <2>1 DEF Fields
    <3>2. QED BY <1>1, <2>1, <3>1 DEF Fields
  <2>3. ToSet(FirstOf(txRing, TX_BURST_SIZE)) \subseteq Bufs
    BY <2>1 DEF ToSet
  <2>4. Fields'
    BY <1>9, <2>1, <2>2, <2>3 DEF TxBurst, Release, Fields
  <2>5. Loops'
    BY <1>9, Idle DEF TxBurst
  <2>6. QED BY <2>4, <2>5
<1>10. CASE TxEnds \/ Terminate \/ UNCHANGED vars
  <2>1. Fields'
    BY <1>10 DEF TxEnds, Terminate, vars, Fields
  <2>2. Loops'
    BY <1>10, Idle DEF TxEnds, Terminate, vars
  <2>3. QED BY <2>1, <2>2
<1>11. ASSUME NEW w \in Workers, WorkerAsk(w)
       PROVE  Fields' /\ Loops'
  <2> DEFINE q == worker[w].queue
             out == get_pkt_to_tx(q, MAX_PKT_PER_TX)
  <2>1. /\ q \in Queue /\ worker[w].batch = <<>>
        /\ Queued(q) <= DIST_BURST /\ Held(q) \in Seq(Bufs)
    BY <1>11, WorkerFields DEF WorkerAsk, Loops, Fits
  <2>2. Queued(q) <= MAX_PKT_PER_TX /\ MAX_PKT_PER_TX \in Nat
    <3>1. Queued(q) \in 0 .. TX_QUEUE_SIZE - 1
      BY <2>1, QueueFields
    <3>2. QED BY <2>1, <3>1, Sizes
  <2>3. /\ out.pkts = Held(q) /\ out.queue \in Queue
        /\ Queued(out.queue) = 0 /\ Held(out.queue) = <<>>
    BY <2>1, <2>2, Emptied
  <2>4. /\ worker' \in [Workers -> WorkerRecord]
        /\ worker'[w].pc = "wait" /\ worker'[w].batch = <<>>
        /\ worker'[w].queue = out.queue
        /\ \A v \in Workers \ {w} : worker'[v] = worker[v]
    BY <1>11, <2>1, <2>3, AskStep
  <2>5. back' = back \o out.pkts
    BY <1>11 DEF WorkerAsk
  <2> HIDE DEF q, out
  <2>6. Fits(worker'[w])
    <3>1. Held(worker'[w].queue) \in Seq(Bufs) /\ Queued(worker'[w].queue) = 0
      <4>1. Held(worker'[w].queue) = <<>> /\ Queued(worker'[w].queue) = 0
        BY <2>3, <2>4, Zenon
      <4>2. <<>> \in Seq(Bufs)
        OBVIOUS
      <4>3. QED BY <4>1, <4>2
    <3>2. QED BY <2>4, <3>1 DEF Fits
  <2>7. back' \in Seq(Bufs)
    BY <2>1, <2>3, <2>5, Joined DEF Fields
  <2>8. Fields'
    BY <1>11, <2>4, <2>7 DEF WorkerAsk, Fields
  <2>9. Loops'
    BY <1>11, <2>4, <2>6, OneWorker DEF WorkerAsk, Loops
  <2>10. QED BY <2>8, <2>9
<1>12. ASSUME NEW w \in Workers, WorkerTake(w)
       PROVE  Fields' /\ Loops'
  <2> DEFINE q == worker[w].queue
             out == get_pkt_to_tx(q, TX_QUEUE_SIZE)
  <2>1. /\ q \in Queue /\ inbox[w] \in Seq(Bufs)
        /\ Queued(q) = 0 /\ Held(q) \in Seq(Bufs) /\ Len(inbox[w]) <= DIST_BURST
    BY <1>12, WorkerFields DEF WorkerTake, Loops, Fits
  <2>2. Queued(q) <= TX_QUEUE_SIZE /\ TX_QUEUE_SIZE \in Nat
    BY <2>1, Sizes
  <2>3. /\ out.pkts = Held(q) /\ out.queue \in Queue
        /\ Queued(out.queue) = 0 /\ Held(out.queue) = <<>>
    BY <2>1, <2>2, Emptied
  <2>4. /\ worker' \in [Workers -> WorkerRecord]
        /\ worker'[w].pc = IF inbox[w] = <<>> THEN "top" ELSE "work"
        /\ worker'[w].batch = inbox[w] /\ worker'[w].queue = out.queue
        /\ \A v \in Workers \ {w} : worker'[v] = worker[v]
    BY <1>12, <2>3, TakeStep
  <2>5. back' = back \o out.pkts /\ inbox' = [inbox EXCEPT ![w] = <<>>]
    BY <1>12 DEF WorkerTake
  <2> HIDE DEF q, out
  <2>6. Fits(worker'[w])
    <3>1. 0 + Len(inbox[w]) <= DIST_BURST
      BY <2>1, <1>1
    <3>2. Held(worker'[w].queue) \in Seq(Bufs) /\ Queued(worker'[w].queue) = 0
      <4>1. Held(worker'[w].queue) = <<>> /\ Queued(worker'[w].queue) = 0
        BY <2>3, <2>4, Zenon
      <4>2. <<>> \in Seq(Bufs)
        OBVIOUS
      <4>3. QED BY <4>1, <4>2
    <3>3. CASE inbox[w] = <<>>
      BY <1>1, <2>4, <3>2, <3>3 DEF Fits
    <3>4. CASE inbox[w] # <<>>
      BY <2>4, <3>1, <3>2, <3>4 DEF Fits
    <3>5. QED BY <3>3, <3>4
  <2>7. back' \in Seq(Bufs)
    BY <2>1, <2>3, <2>5, Joined DEF Fields
  <2>8. inbox' \in [Workers -> Seq(Bufs)]
    BY <2>5 DEF Fields
  <2>9. Fields'
    BY <1>12, <2>4, <2>7, <2>8 DEF WorkerTake, Fields
  <2>10. \A v \in Workers : Len(inbox'[v]) <= DIST_BURST
    BY <1>1, <2>5 DEF Fields, Loops
  <2>11. Loops'
    BY <1>12, <2>4, <2>6, <2>10, OneWorker DEF WorkerTake
  <2>12. QED BY <2>9, <2>11
<1>13. ASSUME NEW w \in Workers, WorkerDrop(w) \/ WorkerKeep(w)
       PROVE  Fields' /\ Loops'
  <2> DEFINE q == worker[w].queue
             b == Head(worker[w].batch)
  <2>1. /\ Processed(w, q) /\ q \in Queue /\ Held(q) \in Seq(Bufs)
        /\ worker[w].batch \in Seq(Bufs) /\ worker[w].batch # <<>>
    BY <1>13, WorkerFields DEF WorkerDrop, WorkerKeep, Processed, Loops, Fits
  <2>2. Queued(q) <= Queued(q) + 1
    <3>1. Queued(q) \in 0 .. TX_QUEUE_SIZE - 1
      BY <2>1, QueueFields
    <3>2. QED BY <3>1
  <2>3. worker' \in [Workers -> WorkerRecord] /\ Loops'
    BY <2>1, <2>2, ProcessedKeeps
  <2>4. b \in Bufs
    BY <2>1, HeadTail
  <2>5. free' \subseteq free \union {b} /\ lost' \subseteq lost \union {b}
    BY <1>13 DEF WorkerDrop, WorkerKeep, Release, Lose
  <2> HIDE DEF q, b
  <2>6. Fields'
    BY <2>1, <2>3, <2>4, <2>5 DEF Processed, Fields
  <2>7. QED BY <2>3, <2>6
<1>14. ASSUME NEW w \in Workers, WorkerReply(w)
       PROVE  Fields' /\ Loops'
  <2> DEFINE q == worker[w].queue
             b == Head(worker[w].batch)
             r == queue_pkt_to_tx(q, b)
  <2>1. /\ Processed(w, r) /\ q \in Queue /\ Held(q) \in Seq(Bufs)
        /\ worker[w].batch \in Seq(Bufs) /\ worker[w].batch # <<>>
    BY <1>14, WorkerFields DEF WorkerReply, Processed, Loops, Fits
  <2>2. b \in Bufs
    BY <2>1, HeadTail
  <2>3. Queued(q) <= Queued(q) + 1
    <3>1. Queued(q) \in 0 .. TX_QUEUE_SIZE - 1
      BY <2>1, QueueFields
    <3>2. QED BY <3>1
  <2>4. lost' \subseteq lost \union {b} /\ free' = free
    BY <1>14 DEF WorkerReply, Lose
  <2> HIDE DEF b
  <2>5. r \in Queue /\ Held(r) \in Seq(Bufs) /\ Queued(r) <= Queued(q) + 1
    <3>1. CASE QueueFull(q)
      BY <2>1, <2>3, <3>1 DEF queue_pkt_to_tx
    <3>2. CASE ~QueueFull(q)
      <4>1. /\ r \in Queue /\ Queued(r) = Queued(q) + 1
            /\ Held(r) = Append(Held(q), b)
        BY <2>1, <2>2, <3>2, QueuedOne
      <4>2. Append(Held(q), b) \in Seq(Bufs)
        BY <2>1, <2>2, Appended
      <4>3. Queued(q) + 1 \in Nat
        <5>1. Queued(q) \in 0 .. TX_QUEUE_SIZE - 1
          BY <2>1, QueueFields
        <5>2. QED BY <5>1
      <4>4. QED BY <4>1, <4>2, <4>3
    <3>3. QED BY <3>1, <3>2
  <2> HIDE DEF r
  <2>6. worker' \in [Workers -> WorkerRecord] /\ Loops'
    BY <2>1, <2>5, ProcessedKeeps
  <2>7. Fields'
    BY <2>1, <2>2, <2>4, <2>6 DEF Processed, Fields
  <2>8. QED BY <2>6, <2>7
<1>15. ASSUME NEW w \in Workers, WorkerEnds(w)
       PROVE  Fields' /\ Loops'
  <2>1. /\ worker' \in [Workers -> WorkerRecord]
        /\ worker'[w].pc = "ended" /\ worker'[w].batch = worker[w].batch
        /\ worker'[w].queue = worker[w].queue
        /\ \A v \in Workers \ {w} : worker'[v] = worker[v]
    BY <1>15, EndsStep
  <2>2. Fits(worker'[w])
    BY <1>15, <2>1 DEF WorkerEnds, Loops, Fits
  <2>3. Fields'
    BY <1>15, <2>1 DEF WorkerEnds, Fields
  <2>4. Loops'
    BY <1>15, <2>1, <2>2, OneWorker DEF WorkerEnds, Loops
  <2>5. QED BY <2>3, <2>4
<1>16. QED
  BY <1>2, <1>3, <1>4, <1>5, <1>6, <1>7, <1>8, <1>9, <1>10, <1>11, <1>12, <1>13,
     <1>14, <1>15 DEF Next, RxLoop, DistLoop, TxLoop, WorkerLoop

(* A worker at work has room for its answer.                               *)
LEMMA Room ==
  ASSUME Fields, Loops
  PROVE  QueueNeverFull
<1> SUFFICES ASSUME NEW w \in Workers, worker[w].pc = "work"
             PROVE  ~QueueFull(worker[w].queue)
  BY DEF QueueNeverFull
<1> DEFINE r == worker[w]
<1>1. /\ r.queue \in Queue /\ r.batch \in Seq(Bufs) /\ r.batch # <<>>
      /\ Queued(r.queue) + Len(r.batch) <= DIST_BURST
  BY WorkerFields DEF Loops, Fits
<1>2. /\ Queued(r.queue) \in 0 .. TX_QUEUE_SIZE - 1
      /\ QueueFull(r.queue) <=> Queued(r.queue) = TX_QUEUE_SIZE - 1
  BY <1>1, QueueFields, QueueFacts
<1>3. Len(r.batch) \in Nat \ {0}
  BY <1>1, HeadTail
<1> HIDE DEF r
<1>4. ~QueueFull(r.queue)
  BY <1>1, <1>2, <1>3, Sizes
<1>5. QED BY <1>4 DEF r

-----------------------------------------------------------------------------
(* Places: what is at each of them, and what a step moves.                 *)
At(n) == [name |-> n, of |-> Nobody]
Of(n, w) == [name |-> n, of |-> w]

LEMMA PlaceNames ==
  /\ \A n \in {"rxRing", "dist", "back", "txRing"} : At(n) \in Containers
  /\ \A n \in {"free", "lost"} : At(n) \in Places
  /\ \A n \in {"inbox", "batch", "queue"}, w \in Workers : Of(n, w) \in Containers
  /\ Containers \subseteq Places
BY DEF Places, Containers, At, Of

LEMMA PlaceCases ==
  ASSUME NEW p \in Places
  PROVE  \/ \E n \in {"free", "lost", "rxRing", "dist", "back", "txRing"} : p = At(n)
         \/ \E n \in {"inbox", "batch", "queue"}, w \in Workers : p = Of(n, w)
BY DEF Places, Containers, At, Of

LEMMA View ==
  /\ BufsAt(At("free")) = free /\ BufsAt(At("lost")) = lost
  /\ Content(At("rxRing")) = rxRing /\ Content(At("dist")) = dist.pkts
  /\ Content(At("back")) = back /\ Content(At("txRing")) = txRing
  /\ \A w \in Workers : /\ Content(Of("inbox", w)) = inbox[w]
                        /\ Content(Of("batch", w)) = worker[w].batch
                        /\ Content(Of("queue", w)) = Held(worker[w].queue)
  /\ \A p \in Containers : BufsAt(p) = ToSet(Content(p))
BY DEF BufsAt, Content, At, Of, Waiting, Held, Containers

LEMMA ViewNext ==
  /\ BufsAt(At("free"))' = free' /\ BufsAt(At("lost"))' = lost'
  /\ Content(At("rxRing"))' = rxRing' /\ Content(At("dist"))' = dist'.pkts
  /\ Content(At("back"))' = back' /\ Content(At("txRing"))' = txRing'
  /\ \A w \in Workers : /\ Content(Of("inbox", w))' = inbox'[w]
                        /\ Content(Of("batch", w))' = worker'[w].batch
                        /\ Content(Of("queue", w))' = Held(worker'[w].queue)
  /\ \A p \in Containers : BufsAt(p)' = ToSet(Content(p)')
BY DEF BufsAt, Content, At, Of, Waiting, Held, Containers

(* Two places share nothing.                                               *)
LEMMA Apart ==
  ASSUME OnePlace, NEW x \in Places, NEW y \in Places, x # y,
         NEW b \in Bufs, b \in BufsAt(x)
  PROVE  b \notin BufsAt(y)
BY DEF OnePlace

(* Buffers moved from one place to another.                                *)
LEMMA Moved ==
  ASSUME OnePlace, NEW x \in Places, NEW y \in Places, x # y,
         NEW G, G \subseteq BufsAt(x),
         BufsAt(x)' = BufsAt(x) \ G, BufsAt(y)' = BufsAt(y) \union G,
         \A p \in Places \ {x, y} : BufsAt(p)' = BufsAt(p),
         \A p \in Containers : IsInjective(Content(p)')
  PROVE  OnePlace'
<1>1. ASSUME NEW b \in Bufs
      PROVE  \E p \in Places :
               b \in BufsAt(p)' /\ \A q \in Places \ {p} : b \notin BufsAt(q)'
  <2>1. PICK p \in Places : b \in BufsAt(p) /\ \A q \in Places \ {p} : b \notin BufsAt(q)
    BY DEF OnePlace
  <2>2. CASE b \in G
    <3>1. p = x
      BY <2>1, <2>2
    <3>2. b \in BufsAt(y)' /\ \A q \in Places \ {y} : b \notin BufsAt(q)'
      BY <2>1, <2>2, <3>1
    <3>3. QED BY <3>2
  <2>3. CASE b \notin G
    <3>1. b \in BufsAt(p)' /\ \A q \in Places \ {p} : b \notin BufsAt(q)'
      BY <2>1, <2>3
    <3>2. QED BY <3>1
  <2>4. QED BY <2>2, <2>3
<1>2. QED BY <1>1 DEF OnePlace

(* Buffers moved from one place to two others.                             *)
LEMMA MovedApart ==
  ASSUME OnePlace, NEW x \in Places, NEW y \in Places, NEW z \in Places,
         x # y, x # z, y # z,
         NEW G, NEW H, G \subseteq BufsAt(x), H \subseteq BufsAt(x), G \intersect H = {},
         BufsAt(x)' = BufsAt(x) \ (G \union H),
         BufsAt(y)' = BufsAt(y) \union G, BufsAt(z)' = BufsAt(z) \union H,
         \A p \in Places \ {x, y, z} : BufsAt(p)' = BufsAt(p),
         \A p \in Containers : IsInjective(Content(p)')
  PROVE  OnePlace'
<1>1. ASSUME NEW b \in Bufs
      PROVE  \E p \in Places :
               b \in BufsAt(p)' /\ \A q \in Places \ {p} : b \notin BufsAt(q)'
  <2>1. PICK p \in Places : b \in BufsAt(p) /\ \A q \in Places \ {p} : b \notin BufsAt(q)
    BY DEF OnePlace
  <2>2. CASE b \in G
    <3>1. p = x /\ b \notin H
      BY <2>1, <2>2
    <3>2. b \in BufsAt(y)' /\ \A q \in Places \ {y} : b \notin BufsAt(q)'
      BY <2>1, <2>2, <3>1
    <3>3. QED BY <3>2
  <2>3. CASE b \in H
    <3>1. p = x /\ b \notin G
      BY <2>1, <2>3
    <3>2. b \in BufsAt(z)' /\ \A q \in Places \ {z} : b \notin BufsAt(q)'
      BY <2>1, <2>3, <3>1
    <3>3. QED BY <3>2
  <2>4. CASE b \notin G /\ b \notin H
    <3>1. b \in BufsAt(p)' /\ \A q \in Places \ {p} : b \notin BufsAt(q)'
      BY <2>1, <2>4
    <3>2. QED BY <3>1
  <2>5. QED BY <2>2, <2>3, <2>4
<1>2. QED BY <1>1 DEF OnePlace

(* Nothing moved.                                                          *)
LEMMA Stayed ==
  ASSUME OnePlace, \A p \in Places : BufsAt(p)' = BufsAt(p),
         \A p \in Containers : Content(p)' = Content(p)
  PROVE  OnePlace'
BY DEF OnePlace, IsInjective

Same(p) == BufsAt(p)' = BufsAt(p) /\ (p \in Containers => Content(p)' = Content(p))

LEMMA SameAt ==
  /\ free' = free => Same(At("free"))
  /\ lost' = lost => Same(At("lost"))
  /\ rxRing' = rxRing => Same(At("rxRing"))
  /\ dist'.pkts = dist.pkts => Same(At("dist"))
  /\ back' = back => Same(At("back"))
  /\ txRing' = txRing => Same(At("txRing"))
  /\ \A w \in Workers :
       /\ inbox'[w] = inbox[w] => Same(Of("inbox", w))
       /\ worker'[w].batch = worker[w].batch => Same(Of("batch", w))
       /\ Held(worker'[w].queue) = Held(worker[w].queue) => Same(Of("queue", w))
<1>1. At("free") \notin Containers /\ At("lost") \notin Containers
  BY DEF At, Containers
<1>2. ASSUME NEW p \in Containers, Content(p)' = Content(p) PROVE Same(p)
  BY <1>2, View, ViewNext DEF Same
<1>3. /\ free' = free => Same(At("free"))
      /\ lost' = lost => Same(At("lost"))
  BY <1>1, View, ViewNext DEF Same
<1>4. /\ rxRing' = rxRing => Same(At("rxRing"))
      /\ dist'.pkts = dist.pkts => Same(At("dist"))
      /\ back' = back => Same(At("back"))
      /\ txRing' = txRing => Same(At("txRing"))
  BY <1>2, View, ViewNext, PlaceNames
<1>5. ASSUME NEW w \in Workers
      PROVE  /\ inbox'[w] = inbox[w] => Same(Of("inbox", w))
             /\ worker'[w].batch = worker[w].batch => Same(Of("batch", w))
             /\ Held(worker'[w].queue) = Held(worker[w].queue) => Same(Of("queue", w))
  BY <1>2, View, ViewNext, PlaceNames
<1>6. QED BY <1>3, <1>4, <1>5

LEMMA Shift ==
  ASSUME OnePlace, NEW x \in Places, NEW y \in Places, x # y,
         NEW G, G \subseteq BufsAt(x),
         BufsAt(x)' = BufsAt(x) \ G, BufsAt(y)' = BufsAt(y) \union G,
         x \in Containers => IsInjective(Content(x)'),
         y \in Containers => IsInjective(Content(y)'),
         \A p \in Places \ {x, y} : Same(p)
  PROVE  OnePlace'
<1>1. \A p \in Places \ {x, y} : BufsAt(p)' = BufsAt(p)
  BY DEF Same
<1>2. ASSUME NEW p \in Containers PROVE IsInjective(Content(p)')
  <2>1. CASE p \in {x, y}
    BY <2>1
  <2>2. CASE p \notin {x, y}
    <3>1. Content(p)' = Content(p)
      BY <2>2, PlaceNames DEF Same
    <3>2. QED BY <3>1 DEF OnePlace
  <2>3. QED BY <2>1, <2>2
<1>3. QED BY <1>1, <1>2, Moved

LEMMA Distinct ==
  /\ \A m, n \in STRING : m # n => At(m) # At(n)
  /\ \A m, n \in STRING : \A w \in Workers : m # n => At(m) # Of(n, w)
  /\ \A m, n \in STRING : \A v, w \in Workers : m # n \/ v # w => Of(m, v) # Of(n, w)
BY DEF At, Of

-----------------------------------------------------------------------------
(* At first all are in the pool; each step moves some, or none.            *)
LEMMA OnePlaceInit ==
  ASSUME Init
  PROVE  OnePlace
<1>1. Held(EmptyQueue) = <<>>
  <2>1. EmptyQueue \in Queue /\ EmptyQueue.head = 0 /\ EmptyQueue.tail = 0
    BY Sizes DEF EmptyQueue, Queue, Index
  <2>2. Queued(EmptyQueue) = 0
    BY <2>1, QueueFields
  <2>3. QED BY <2>1, <2>2, QueueFacts
<1>2. \A p \in Containers : Content(p) = <<>>
  <2>1. /\ Content(At("rxRing")) = <<>> /\ Content(At("dist")) = <<>>
        /\ Content(At("back")) = <<>> /\ Content(At("txRing")) = <<>>
    BY View DEF Init
  <2>2. \A w \in Workers : /\ Content(Of("inbox", w)) = <<>>
                           /\ Content(Of("batch", w)) = <<>>
                           /\ Content(Of("queue", w)) = <<>>
    <3> TAKE w \in Workers
    <3>1. inbox[w] = <<>> /\ worker[w].batch = <<>> /\ worker[w].queue = EmptyQueue
      BY DEF Init
    <3>2. QED BY <1>1, <3>1, View
  <2>3. ASSUME NEW p \in Containers
        PROVE  \/ \E n \in {"rxRing", "dist", "back", "txRing"} : p = At(n)
               \/ \E n \in {"inbox", "batch", "queue"}, w \in Workers : p = Of(n, w)
    BY DEF Containers, At, Of
  <2>4. QED BY <2>1, <2>2, <2>3
<1>3. \A p \in Places \ {At("free")} : BufsAt(p) = {}
  <2>1. \A p \in Containers : BufsAt(p) = {}
    BY <1>2, View DEF ToSet
  <2>2. BufsAt(At("lost")) = {}
    BY View DEF Init
  <2>3. QED BY <2>1, <2>2 DEF Places, At
<1>4. BufsAt(At("free")) = Bufs
  BY View DEF Init
<1>5. \A p \in Containers : IsInjective(Content(p))
  BY <1>2 DEF IsInjective
<1>6. QED BY <1>3, <1>4, <1>5, PlaceNames DEF OnePlace

LEMMA RxMoves ==
  ASSUME Fields, OnePlace, RxBurst \/ RxArpReply \/ RxForget
  PROVE  OnePlace'
<1>1. /\ At("free") \in Places /\ At("lost") \in Places /\ At("rxRing") \in Containers
      /\ At("rxRing") \in Places
      /\ At("free") \notin Containers /\ At("lost") \notin Containers
  BY PlaceNames DEF Containers, At
<1>2. At("free") # At("lost") /\ At("free") # At("rxRing")
  BY DEF At
<1>3. CASE RxBurst
  <2>1. PICK pkts \in UNION {[1 .. n -> free] : n \in 1 .. RX_BURST_SIZE} :
          LET got == FirstOf(pkts, RX_RING_SIZE - Len(rxRing))
          IN  IsInjective(pkts) /\ rxRing' = rxRing \o got /\ free' = free \ ToSet(got)
    BY <1>3 DEF RxBurst
  <2> DEFINE room == RX_RING_SIZE - Len(rxRing)
             got == FirstOf(pkts, room)
  <2>2. pkts \in Seq(free) /\ room \in Nat
    <3>1. RX_RING_SIZE \in Nat /\ RX_BURST_SIZE \in Nat
      BY Sizes
    <3>2. pkts \in Seq(free)
      <4>1. PICK n \in 1 .. RX_BURST_SIZE : pkts \in [1 .. n -> free]
        OBVIOUS
      <4>2. QED BY <3>1, <4>1
    <3>3. room \in Nat
      BY <3>1 DEF Fields
    <3>4. QED BY <3>2, <3>3
  <2>3. got \in Seq(free) /\ IsInjective(got)
    BY <2>1, <2>2, Split
  <2>4. ToSet(got) \subseteq free
    BY <2>3 DEF ToSet
  <2> HIDE DEF got
  <2>5. got \in Seq(Bufs) /\ rxRing \in Seq(Bufs) /\ free \subseteq Bufs
    BY <2>3 DEF Fields
  <2>6. rxRing' = rxRing \o got /\ free' = free \ ToSet(got)
    BY <2>1 DEF got
  <2>7. ToSet(rxRing) \intersect ToSet(got) = {}
    <3>1. BufsAt(At("free")) = free /\ BufsAt(At("rxRing")) = ToSet(rxRing)
      BY <1>1, View
    <3>2. \A b \in ToSet(got) : b \notin ToSet(rxRing)
      BY <1>1, <1>2, <2>4, <2>5, <3>1, Apart
    <3>3. QED BY <3>2
  <2>8. IsInjective(rxRing)
    BY <1>1, View DEF OnePlace
  <2>9. ToSet(rxRing') = ToSet(rxRing) \union ToSet(got) /\ IsInjective(rxRing')
    BY <2>3, <2>5, <2>6, <2>7, <2>8, Joined
  <2>10. /\ ToSet(got) \subseteq BufsAt(At("free"))
         /\ BufsAt(At("free"))' = BufsAt(At("free")) \ ToSet(got)
         /\ BufsAt(At("rxRing"))' = BufsAt(At("rxRing")) \union ToSet(got)
         /\ IsInjective(Content(At("rxRing"))')
    BY <1>1, <2>4, <2>6, <2>9, View, ViewNext
  <2>11. \A p \in Places \ {At("free"), At("rxRing")} : Same(p)
    BY <1>3, PlaceCases, SameAt, ZenonT(90) DEF RxBurst
  <2>12. QED BY <1>1, <1>2, <2>10, <2>11, Shift
<1>4. ASSUME RxArpReply \/ RxForget
      PROVE  OnePlace'
  <2>1. PICK G \in SUBSET free : free' = free \ G /\ lost' = lost \union G
    BY <1>4 DEF RxArpReply, RxForget
  <2>2. /\ G \subseteq BufsAt(At("free"))
        /\ BufsAt(At("free"))' = BufsAt(At("free")) \ G
        /\ BufsAt(At("lost"))' = BufsAt(At("lost")) \union G
    BY <2>1, View, ViewNext
  <2>3. \A p \in Places \ {At("free"), At("lost")} : Same(p)
    BY <1>4, PlaceCases, SameAt DEF RxArpReply, RxForget
  <2>4. QED BY <1>1, <1>2, <2>2, <2>3, Shift
<1>5. QED BY <1>3, <1>4

LEMMA RingMoves ==
  ASSUME Fields, Loops, OnePlace, ArpRequest \/ TxBurst \/ DistPoll
  PROVE  OnePlace'
<1>1. /\ \A n \in {"free", "rxRing", "dist", "txRing"} : At(n) \in Places
      /\ \A n \in {"rxRing", "dist", "txRing"} : At(n) \in Containers
      /\ At("free") \notin Containers
  BY PlaceNames DEF Containers, At
<1>2. At("free") # At("txRing") /\ At("rxRing") # At("dist")
  BY DEF At
<1>3. /\ BufsAt(At("free")) = free /\ BufsAt(At("txRing")) = ToSet(txRing)
      /\ BufsAt(At("rxRing")) = ToSet(rxRing) /\ BufsAt(At("dist")) = ToSet(dist.pkts)
      /\ IsInjective(rxRing) /\ IsInjective(txRing)
  BY <1>1, View DEF OnePlace
<1>4. /\ rxRing \in Seq(Bufs) /\ txRing \in Seq(Bufs) /\ free \subseteq Bufs
      /\ RX_BURST_SIZE \in Nat /\ TX_BURST_SIZE \in Nat
  BY Sizes DEF Fields
<1>5. CASE ArpRequest
  <2>1. PICK b \in free : free' = free \ {b} /\ txRing' = Append(txRing, b)
    BY <1>5 DEF ArpRequest
  <2>2. b \in Bufs /\ b \notin ToSet(txRing)
    BY <1>1, <1>2, <1>3, <1>4, Apart
  <2>3. ToSet(txRing') = ToSet(txRing) \union {b} /\ IsInjective(txRing')
    BY <1>3, <1>4, <2>1, <2>2, Appended
  <2> DEFINE G == {b}
  <2>4. /\ G \subseteq BufsAt(At("free"))
        /\ BufsAt(At("free"))' = BufsAt(At("free")) \ G
        /\ BufsAt(At("txRing"))' = BufsAt(At("txRing")) \union G
        /\ IsInjective(Content(At("txRing"))')
    BY <1>1, <1>3, <2>1, <2>3, ViewNext
  <2> HIDE DEF G
  <2>5. \A p \in Places \ {At("free"), At("txRing")} : Same(p)
    BY <1>5, PlaceCases, SameAt DEF ArpRequest
  <2>6. QED BY <1>1, <1>2, <2>4, <2>5, Shift
<1>6. CASE TxBurst
  <2> DEFINE G == ToSet(FirstOf(txRing, TX_BURST_SIZE))
  <2>1. txRing' = AllBut(txRing, TX_BURST_SIZE) /\ free' = free \union G
    BY <1>6 DEF TxBurst, Release
  <2>2. /\ ToSet(txRing) = G \union ToSet(txRing') /\ G \intersect ToSet(txRing') = {}
        /\ IsInjective(txRing')
    BY <1>3, <1>4, <2>1, Split
  <2> HIDE DEF G
  <2>3. /\ G \subseteq BufsAt(At("txRing"))
        /\ BufsAt(At("txRing"))' = BufsAt(At("txRing")) \ G
        /\ BufsAt(At("free"))' = BufsAt(At("free")) \union G
        /\ IsInjective(Content(At("txRing"))')
    BY <1>1, <1>3, <2>1, <2>2, ViewNext
  <2>4. \A p \in Places \ {At("txRing"), At("free")} : Same(p)
    BY <1>6, PlaceCases, SameAt DEF TxBurst
  <2>5. QED BY <1>1, <1>2, <2>3, <2>4, Shift
<1>7. CASE DistPoll
  <2> DEFINE first == FirstOf(rxRing, RX_BURST_SIZE)
  <2>1. rxRing' = AllBut(rxRing, RX_BURST_SIZE) /\ dist'.pkts = first
    BY <1>7 DEF DistPoll
  <2>2. dist.pkts = <<>>
    BY <1>7 DEF DistPoll, Loops
  <2>3. /\ ToSet(rxRing) = ToSet(first) \union ToSet(rxRing')
        /\ ToSet(first) \intersect ToSet(rxRing') = {}
        /\ IsInjective(rxRing') /\ IsInjective(first)
    BY <1>3, <1>4, <2>1, Split
  <2> HIDE DEF first
  <2>4. ToSet(dist.pkts) = {}
    BY <2>2 DEF ToSet
  <2>5. /\ ToSet(first) \subseteq BufsAt(At("rxRing"))
        /\ BufsAt(At("rxRing"))' = BufsAt(At("rxRing")) \ ToSet(first)
        /\ BufsAt(At("dist"))' = BufsAt(At("dist")) \union ToSet(first)
        /\ IsInjective(Content(At("rxRing"))') /\ IsInjective(Content(At("dist"))')
    BY <1>1, <1>3, <2>1, <2>3, <2>4, ViewNext
  <2>6. \A p \in Places \ {At("rxRing"), At("dist")} : Same(p)
    BY <1>7, PlaceCases, SameAt DEF DistPoll
  <2>7. QED BY <1>1, <1>2, <2>5, <2>6, Shift
<1>8. QED BY <1>5, <1>6, <1>7

LEMMA DistMoves ==
  ASSUME Fields, OnePlace, DistReturn \/ \E w \in Workers : DistGive(w)
  PROVE  OnePlace'
<1>1. /\ \A n \in {"lost", "back", "dist", "txRing"} : At(n) \in Places
      /\ \A n \in {"back", "dist", "txRing"} : At(n) \in Containers
      /\ \A w \in Workers : Of("inbox", w) \in Containers /\ Of("inbox", w) \in Places
      /\ At("lost") \notin Containers
  BY PlaceNames DEF Containers, At
<1>2. /\ At("back") # At("txRing") /\ At("back") # At("lost") /\ At("txRing") # At("lost")
      /\ \A w \in Workers : At("dist") # Of("inbox", w)
  BY DEF At, Of
<1>3. /\ BufsAt(At("lost")) = lost /\ BufsAt(At("txRing")) = ToSet(txRing)
      /\ BufsAt(At("back")) = ToSet(back) /\ BufsAt(At("dist")) = ToSet(dist.pkts)
      /\ \A w \in Workers : BufsAt(Of("inbox", w)) = ToSet(inbox[w]) /\ IsInjective(inbox[w])
      /\ IsInjective(back) /\ IsInjective(txRing) /\ IsInjective(dist.pkts)
  BY <1>1, View DEF OnePlace
<1>4. /\ back \in Seq(Bufs) /\ txRing \in Seq(Bufs) /\ dist.pkts \in Seq(Bufs)
      /\ \A w \in Workers : inbox[w] \in Seq(Bufs)
      /\ TX_BURST_SIZE \in Nat
  BY Sizes DEF Fields
<1>5. ASSUME NEW w \in Workers, DistGive(w)
      PROVE  OnePlace'
  <2> DEFINE b == Head(dist.pkts)
  <2>1. dist.pkts # <<>> /\ dist'.pkts = Tail(dist.pkts)
    <3>1. dist' = [dist EXCEPT !.pkts = Tail(dist.pkts)] /\ dist.pkts # <<>>
      BY <1>5 DEF DistGive
    <3>2. QED BY <3>1 DEF Fields
  <2>2. inbox' = [inbox EXCEPT ![w] = Append(inbox[w], b)]
    BY <1>5 DEF DistGive, Fields
  <2>3. /\ b \in Bufs /\ ToSet(dist.pkts) = ToSet(dist'.pkts) \union {b}
        /\ IsInjective(dist'.pkts) /\ b \notin ToSet(dist'.pkts)
    BY <1>3, <1>4, <2>1, HeadTail
  <2> HIDE DEF b
  <2>4. b \notin ToSet(inbox[w])
    BY <1>1, <1>2, <1>3, <2>3, Apart
  <2>5. inbox'[w] = Append(inbox[w], b) /\ \A v \in Workers \ {w} : inbox'[v] = inbox[v]
    BY <2>2 DEF Fields
  <2>6. ToSet(inbox'[w]) = ToSet(inbox[w]) \union {b} /\ IsInjective(inbox'[w])
    BY <1>3, <1>4, <2>3, <2>4, <2>5, Appended
  <2>7. /\ {b} \subseteq BufsAt(At("dist"))
        /\ BufsAt(At("dist"))' = BufsAt(At("dist")) \ {b}
        /\ BufsAt(Of("inbox", w))' = BufsAt(Of("inbox", w)) \union {b}
        /\ IsInjective(Content(At("dist"))') /\ IsInjective(Content(Of("inbox", w))')
    BY <1>1, <1>3, <2>3, <2>6, ViewNext
  <2>8. \A p \in Places \ {At("dist"), Of("inbox", w)} : Same(p)
    BY <1>5, <2>5, PlaceCases, SameAt DEF DistGive
  <2>9. QED BY <1>1, <1>2, <2>7, <2>8, Shift
<1>6. CASE DistReturn
  <2> DEFINE pkts == FirstOf(back, TX_BURST_SIZE)
             room == TX_RING_SIZE - Len(txRing)
             sent == FirstOf(pkts, room)
             forgotten == ToSet(pkts) \ ToSet(sent)
  <2>1. /\ lost' = lost \union forgotten
        /\ txRing' = txRing \o sent /\ back' = AllBut(back, TX_BURST_SIZE)
    BY <1>6 DEF DistReturn, Lose
  <2>2. dist'.pkts = dist.pkts
    <3>1. dist' = [dist EXCEPT !.pc = "poll"]
      BY <1>6 DEF DistReturn
    <3>2. QED BY <3>1 DEF Fields
  <2>3. room \in Nat
    BY Sizes DEF Fields
  <2>4. /\ pkts \in Seq(Bufs) /\ IsInjective(pkts)
        /\ ToSet(back) = ToSet(pkts) \union ToSet(back')
        /\ ToSet(pkts) \intersect ToSet(back') = {} /\ IsInjective(back')
    BY <1>3, <1>4, <2>1, Split
  <2> HIDE DEF pkts
  <2>5. sent \in Seq(Bufs) /\ IsInjective(sent) /\ ToSet(sent) \subseteq ToSet(pkts)
    BY <2>3, <2>4, Split
  <2> HIDE DEF sent
  <2>6. ToSet(txRing) \intersect ToSet(sent) = {}
    <3>1. ToSet(sent) \subseteq Bufs
      BY <2>5 DEF ToSet
    <3>2. ToSet(sent) \subseteq BufsAt(At("back"))
      BY <1>3, <2>4, <2>5
    <3>3. \A b \in ToSet(sent) : b \notin ToSet(txRing)
      BY <1>1, <1>2, <1>3, <3>1, <3>2, Apart
    <3>4. QED BY <3>3
  <2>7. ToSet(txRing') = ToSet(txRing) \union ToSet(sent) /\ IsInjective(txRing')
    BY <1>3, <1>4, <2>1, <2>5, <2>6, Joined
  <2>8. /\ ToSet(sent) \subseteq BufsAt(At("back")) /\ forgotten \subseteq BufsAt(At("back"))
        /\ ToSet(sent) \intersect forgotten = {}
        /\ BufsAt(At("back"))' = BufsAt(At("back")) \ (ToSet(sent) \union forgotten)
        /\ BufsAt(At("txRing"))' = BufsAt(At("txRing")) \union ToSet(sent)
        /\ BufsAt(At("lost"))' = BufsAt(At("lost")) \union forgotten
    <3>1. ToSet(sent) \union forgotten = ToSet(pkts) /\ ToSet(sent) \intersect forgotten = {}
      BY <2>5
    <3> HIDE DEF forgotten
    <3>2. /\ BufsAt(At("back"))' = ToSet(back') /\ BufsAt(At("lost"))' = lost'
          /\ BufsAt(At("txRing"))' = ToSet(txRing')
      BY <1>1, ViewNext
    <3>3. ToSet(back') = ToSet(back) \ (ToSet(sent) \union forgotten)
      BY <2>4, <3>1
    <3>4. ToSet(sent) \subseteq ToSet(back) /\ forgotten \subseteq ToSet(back)
      BY <2>4, <3>1
    <3>5. QED BY <1>3, <2>1, <2>7, <3>1, <3>2, <3>3, <3>4
  <2>9. IsInjective(Content(At("back"))') /\ IsInjective(Content(At("txRing"))')
    BY <2>4, <2>7, ViewNext
  <2> HIDE DEF forgotten
  <2>10. \A p \in Places \ {At("back"), At("txRing"), At("lost")} : Same(p)
    BY <1>6, <2>2, PlaceCases, SameAt DEF DistReturn
  <2>11. \A p \in Places \ {At("back"), At("txRing"), At("lost")} : BufsAt(p)' = BufsAt(p)
    BY <2>10 DEF Same
  <2>12. ASSUME NEW p \in Containers PROVE IsInjective(Content(p)')
    <3>1. CASE p \in {At("back"), At("txRing")}
      BY <2>9, <3>1
    <3>2. CASE p \notin {At("back"), At("txRing")}
      <4>1. Content(p)' = Content(p)
        BY <1>1, <2>10, <3>2, PlaceNames DEF Same
      <4>2. QED BY <4>1 DEF OnePlace
    <3>3. QED BY <3>1, <3>2
  <2>13. QED BY <1>1, <1>2, <2>8, <2>11, <2>12, MovedApart
<1>7. QED BY <1>5, <1>6

LEMMA WorkerPlaces ==
  ASSUME Fields, OnePlace, NEW w \in Workers
  PROVE  /\ \A n \in {"inbox", "batch", "queue"} : Of(n, w) \in Containers /\ Of(n, w) \in Places
         /\ At("back") \in Containers /\ At("back") \in Places
         /\ \A n \in {"free", "lost"} : At(n) \in Places /\ At(n) \notin Containers
         /\ Of("inbox", w) # Of("batch", w) /\ Of("batch", w) # Of("queue", w)
         /\ Of("queue", w) # At("back")
         /\ Of("batch", w) # At("free") /\ Of("batch", w) # At("lost")
         /\ BufsAt(At("free")) = free /\ BufsAt(At("lost")) = lost
         /\ BufsAt(At("back")) = ToSet(back) /\ IsInjective(back)
         /\ BufsAt(Of("inbox", w)) = ToSet(inbox[w]) /\ IsInjective(inbox[w])
         /\ BufsAt(Of("batch", w)) = ToSet(worker[w].batch) /\ IsInjective(worker[w].batch)
         /\ BufsAt(Of("queue", w)) = ToSet(Held(worker[w].queue))
         /\ IsInjective(Held(worker[w].queue))
<1>1. /\ \A n \in {"inbox", "batch", "queue"} : Of(n, w) \in Containers /\ Of(n, w) \in Places
      /\ At("back") \in Containers /\ At("back") \in Places
      /\ \A n \in {"free", "lost"} : At(n) \in Places
  BY PlaceNames
<1>2. \A n \in {"free", "lost"} : At(n) \notin Containers
  BY DEF Containers, At
<1>3. /\ Of("inbox", w) # Of("batch", w) /\ Of("batch", w) # Of("queue", w)
      /\ Of("queue", w) # At("back")
      /\ Of("batch", w) # At("free") /\ Of("batch", w) # At("lost")
  BY DEF At, Of
<1>4. /\ BufsAt(At("free")) = free /\ BufsAt(At("lost")) = lost
      /\ BufsAt(At("back")) = ToSet(back)
      /\ BufsAt(Of("inbox", w)) = ToSet(inbox[w])
      /\ BufsAt(Of("batch", w)) = ToSet(worker[w].batch)
      /\ BufsAt(Of("queue", w)) = ToSet(Held(worker[w].queue))
  BY <1>1, View
<1>5. /\ IsInjective(back) /\ IsInjective(inbox[w]) /\ IsInjective(worker[w].batch)
      /\ IsInjective(Held(worker[w].queue))
  BY <1>1, View DEF OnePlace
<1>6. QED BY <1>1, <1>2, <1>3, <1>4, <1>5

LEMMA AskMoves ==
  ASSUME Fields, Loops, OnePlace, NEW w \in Workers, WorkerAsk(w)
  PROVE  OnePlace'
<1> DEFINE q == worker[w].queue
           out == get_pkt_to_tx(q, MAX_PKT_PER_TX)
<1>1. /\ q \in Queue /\ Queued(q) <= DIST_BURST /\ Held(q) \in Seq(Bufs)
  BY WorkerFields DEF WorkerAsk, Loops, Fits
<1>2. Queued(q) <= MAX_PKT_PER_TX /\ MAX_PKT_PER_TX \in Nat
  <2>1. Queued(q) \in 0 .. TX_QUEUE_SIZE - 1
    BY <1>1, QueueFields
  <2>2. QED BY <1>1, <2>1, Sizes
<1>3. out.pkts = Held(q) /\ out.queue \in Queue /\ Held(out.queue) = <<>>
  BY <1>1, <1>2, Emptied
<1>4. /\ worker'[w].batch = worker[w].batch /\ worker'[w].queue = out.queue
      /\ \A v \in Workers \ {w} : worker'[v] = worker[v]
  BY <1>3, AskStep
<1>5. back' = back \o Held(q)
  BY <1>3 DEF WorkerAsk
<1> HIDE DEF out
<1>6. Held(worker'[w].queue) = <<>>
  BY <1>3, <1>4, Zenon
<1> DEFINE G == ToSet(Held(q))
<1>7. ToSet(back) \intersect G = {}
  <2>1. G \subseteq Bufs
    BY <1>1 DEF ToSet
  <2>2. \A b \in G : b \notin ToSet(back)
    BY <2>1, WorkerPlaces, Apart
  <2>3. QED BY <2>2
<1>8. back \in Seq(Bufs) /\ IsInjective(back) /\ IsInjective(Held(q))
  BY WorkerPlaces DEF Fields
<1>9. ToSet(back') = ToSet(back) \union G /\ IsInjective(back')
  BY <1>1, <1>5, <1>7, <1>8, Joined
<1>10. ToSet(Held(worker'[w].queue)) = {} /\ IsInjective(Held(worker'[w].queue))
  BY <1>6 DEF ToSet, IsInjective
<1>11. /\ BufsAt(Of("queue", w)) = G
       /\ BufsAt(Of("queue", w))' = {} /\ BufsAt(At("back"))' = BufsAt(At("back")) \union G
       /\ IsInjective(Content(Of("queue", w))') /\ IsInjective(Content(At("back"))')
  BY <1>9, <1>10, WorkerPlaces, ViewNext
<1> HIDE DEF G
<1>12. \A p \in Places \ {Of("queue", w), At("back")} : Same(p)
  BY <1>4, PlaceCases, SameAt, ZenonT(90) DEF WorkerAsk
<1>13. /\ G \subseteq BufsAt(Of("queue", w))
       /\ BufsAt(Of("queue", w))' = BufsAt(Of("queue", w)) \ G
  BY <1>11
<1>14. QED BY <1>11, <1>12, <1>13, WorkerPlaces, Shift

LEMMA TakeMoves ==
  ASSUME Fields, Loops, OnePlace, NEW w \in Workers, WorkerTake(w)
  PROVE  OnePlace'
<1> DEFINE q == worker[w].queue
           out == get_pkt_to_tx(q, TX_QUEUE_SIZE)
           G == ToSet(inbox[w])
<1>1. /\ q \in Queue /\ Queued(q) = 0 /\ worker[w].batch = <<>>
  BY WorkerFields DEF WorkerTake, Loops, Fits
<1>2. Queued(q) <= TX_QUEUE_SIZE /\ TX_QUEUE_SIZE \in Nat
  BY <1>1, Sizes
<1>3. out.pkts = Held(q) /\ out.queue \in Queue /\ Held(out.queue) = <<>>
  BY <1>1, <1>2, Emptied
<1>4. Held(q) = <<>>
  BY <1>1, QueueFacts
<1>5. /\ worker'[w].batch = inbox[w] /\ worker'[w].queue = out.queue
      /\ \A v \in Workers \ {w} : worker'[v] = worker[v]
  BY <1>3, TakeStep
<1>6. back' = back
  <2>1. back' = back \o <<>>
    BY <1>3, <1>4 DEF WorkerTake
  <2>2. QED BY <2>1 DEF Fields
<1> HIDE DEF out
<1>7. Held(worker'[w].queue) = Held(worker[w].queue)
  BY <1>3, <1>4, <1>5, Zenon
<1>8. inbox'[w] = <<>> /\ \A v \in Workers \ {w} : inbox'[v] = inbox[v]
  BY DEF WorkerTake, Fields
<1>9. /\ ToSet(inbox'[w]) = {} /\ IsInjective(inbox'[w])
      /\ ToSet(worker[w].batch) = {}
  BY <1>1, <1>8 DEF ToSet, IsInjective
<1>10. /\ G = BufsAt(Of("inbox", w))
       /\ BufsAt(Of("inbox", w))' = {} /\ BufsAt(Of("batch", w))' = G
       /\ BufsAt(Of("batch", w)) = {}
       /\ IsInjective(Content(Of("inbox", w))') /\ IsInjective(Content(Of("batch", w))')
  BY <1>5, <1>9, WorkerPlaces, ViewNext
<1> HIDE DEF G, q
<1>11. \A p \in Places \ {Of("inbox", w), Of("batch", w)} : Same(p)
  <2>1. UNCHANGED <<free, lost, rxRing, txRing, dist>>
    BY DEF WorkerTake
  <2>2. \A v \in Workers : Held(worker'[v].queue) = Held(worker[v].queue)
    BY <1>5, <1>7, Zenon
  <2>3. \A v \in Workers \ {w} : worker'[v].batch = worker[v].batch
    BY <1>5
  <2>4. QED BY <1>6, <1>8, <2>1, <2>2, <2>3, PlaceCases, SameAt
<1>12. /\ G \subseteq BufsAt(Of("inbox", w))
       /\ BufsAt(Of("inbox", w))' = BufsAt(Of("inbox", w)) \ G
       /\ BufsAt(Of("batch", w))' = BufsAt(Of("batch", w)) \union G
  BY <1>10
<1>13. QED BY <1>10, <1>11, <1>12, WorkerPlaces, Shift

(* The packet a worker has processed leaves its batch.                     *)
LEMMA ProcessedMoves ==
  ASSUME Fields, Loops, NEW w \in Workers, NEW q \in Queue, Processed(w, q), OnePlace
  PROVE  LET b == Head(worker[w].batch)
         IN  /\ b \in Bufs /\ {b} \subseteq BufsAt(Of("batch", w))
             /\ BufsAt(Of("batch", w))' = BufsAt(Of("batch", w)) \ {b}
             /\ IsInjective(Content(Of("batch", w))')
             /\ worker'[w].queue = q
             /\ \A v \in Workers \ {w} : worker'[v] = worker[v]
<1> DEFINE batch == worker[w].batch
           b == Head(batch)
<1>1. batch \in Seq(Bufs) /\ batch # <<>>
  BY WorkerFields DEF Processed, Loops, Fits
<1>2. /\ worker'[w].batch = Tail(batch) /\ worker'[w].queue = q
      /\ \A v \in Workers \ {w} : worker'[v] = worker[v]
  BY <1>1, ProcessedStep
<1>3. IsInjective(batch) /\ BufsAt(Of("batch", w)) = ToSet(batch)
  BY WorkerPlaces
<1>4. /\ b \in Bufs /\ ToSet(batch) = ToSet(Tail(batch)) \union {b}
      /\ IsInjective(Tail(batch)) /\ b \notin ToSet(Tail(batch))
  BY <1>1, <1>3, HeadTail
<1> HIDE DEF b
<1>5. /\ BufsAt(Of("batch", w))' = ToSet(Tail(batch))
      /\ IsInjective(Content(Of("batch", w))')
  BY <1>2, <1>4, WorkerPlaces, ViewNext
<1>6. /\ b \in Bufs /\ {b} \subseteq BufsAt(Of("batch", w))
      /\ BufsAt(Of("batch", w))' = BufsAt(Of("batch", w)) \ {b}
  BY <1>3, <1>4, <1>5
<1>7. QED BY <1>2, <1>5, <1>6 DEF b

LEMMA ProcessMoves ==
  ASSUME Fields, Loops, OnePlace, NEW w \in Workers,
         WorkerDrop(w) \/ WorkerKeep(w) \/ WorkerReply(w)
  PROVE  OnePlace'
<1> DEFINE q == worker[w].queue
           b == Head(worker[w].batch)
           G == {b}
           B == Of("batch", w)
<1>1. q \in Queue /\ Held(q) \in Seq(Bufs)
  BY WorkerFields DEF Loops, Fits
<1>2. CASE WorkerDrop(w)
  <2>1. Processed(w, q) /\ free' = free \union G /\ lost' = lost
    BY <1>2 DEF WorkerDrop, Release
  <2>2. /\ G \subseteq BufsAt(B) /\ BufsAt(B)' = BufsAt(B) \ G
        /\ IsInjective(Content(B)') /\ worker'[w].queue = q
        /\ \A v \in Workers \ {w} : worker'[v] = worker[v]
    BY <1>1, <2>1, ProcessedMoves
  <2> HIDE DEF G
  <2>3. BufsAt(At("free"))' = BufsAt(At("free")) \union G
    BY <2>1, WorkerPlaces, ViewNext
  <2>4. \A p \in Places \ {B, At("free")} : Same(p)
    <3>1. UNCHANGED <<rxRing, txRing, dist, inbox, back>>
      BY <2>1 DEF Processed
    <3>2. \A v \in Workers : Held(worker'[v].queue) = Held(worker[v].queue)
      BY <2>2, Zenon
    <3>3. \A v \in Workers \ {w} : worker'[v].batch = worker[v].batch
      BY <2>2
    <3>4. QED BY <2>1, <3>1, <3>2, <3>3, PlaceCases, SameAt
  <2>5. QED BY <2>2, <2>3, <2>4, WorkerPlaces, Shift
<1>3. CASE WorkerKeep(w)
  <2>1. Processed(w, q) /\ lost' = lost \union G /\ free' = free
    BY <1>3 DEF WorkerKeep, Lose
  <2>2. /\ G \subseteq BufsAt(B) /\ BufsAt(B)' = BufsAt(B) \ G
        /\ IsInjective(Content(B)') /\ worker'[w].queue = q
        /\ \A v \in Workers \ {w} : worker'[v] = worker[v]
    BY <1>1, <2>1, ProcessedMoves
  <2> HIDE DEF G
  <2>3. BufsAt(At("lost"))' = BufsAt(At("lost")) \union G
    BY <2>1, WorkerPlaces, ViewNext
  <2>4. \A p \in Places \ {B, At("lost")} : Same(p)
    <3>1. UNCHANGED <<rxRing, txRing, dist, inbox, back>>
      BY <2>1 DEF Processed
    <3>2. \A v \in Workers : Held(worker'[v].queue) = Held(worker[v].queue)
      BY <2>2, Zenon
    <3>3. \A v \in Workers \ {w} : worker'[v].batch = worker[v].batch
      BY <2>2
    <3>4. QED BY <2>1, <3>1, <3>2, <3>3, PlaceCases, SameAt
  <2>5. QED BY <2>2, <2>3, <2>4, WorkerPlaces, Shift
<1>4. CASE WorkerReply(w)
  <2> DEFINE r == queue_pkt_to_tx(q, b)
  <2>1. /\ Processed(w, r) /\ lost' = lost \union (IF QueueFull(q) THEN {b} ELSE {})
        /\ free' = free
    BY <1>4 DEF WorkerReply, Lose
  <2>2. ~QueueFull(q)
    BY <2>1, Room DEF QueueNeverFull, Processed
  <2>3. lost' = lost
    BY <2>1, <2>2
  <2>4. b \in Bufs
    <3>1. worker[w].batch \in Seq(Bufs) /\ worker[w].batch # <<>>
      BY <2>1, WorkerFields DEF Processed, Loops, Fits
    <3>2. QED BY <3>1, HeadTail
  <2>5. r \in Queue /\ Held(r) = Append(Held(q), b)
    BY <1>1, <2>2, <2>4, QueuedOne
  <2>6. /\ G \subseteq BufsAt(B) /\ BufsAt(B)' = BufsAt(B) \ G
        /\ IsInjective(Content(B)') /\ worker'[w].queue = r
        /\ \A v \in Workers \ {w} : worker'[v] = worker[v]
    BY <2>1, <2>5, ProcessedMoves
  <2> HIDE DEF r
  <2>7. b \notin ToSet(Held(q))
    BY <2>4, <2>6, WorkerPlaces, Apart
  <2> HIDE DEF b
  <2>8. ToSet(Held(r)) = ToSet(Held(q)) \union G /\ IsInjective(Held(r))
    BY <1>1, <2>4, <2>5, <2>7, WorkerPlaces, Appended
  <2> HIDE DEF G
  <2>9. Held(worker'[w].queue) = Held(r)
    BY <2>6, Zenon
  <2>10. /\ BufsAt(Of("queue", w))' = BufsAt(Of("queue", w)) \union G
         /\ IsInjective(Content(Of("queue", w))')
    BY <2>8, <2>9, WorkerPlaces, ViewNext
  <2>11. \A p \in Places \ {B, Of("queue", w)} : Same(p)
    <3>1. UNCHANGED <<free, lost, rxRing, txRing, dist, inbox, back>>
      BY <2>1, <2>3 DEF Processed
    <3>2. \A v \in Workers \ {w} : /\ worker'[v].batch = worker[v].batch
                                    /\ Held(worker'[v].queue) = Held(worker[v].queue)
      BY <2>6
    <3>3. QED BY <3>1, <3>2, PlaceCases, SameAt
  <2>12. QED BY <2>6, <2>10, <2>11, WorkerPlaces, Shift
<1>5. QED BY <1>2, <1>3, <1>4

LEMMA Unmoved ==
  ASSUME Fields, Loops, OnePlace,
         \/ RxEnds \/ DistEnds \/ TxEnds \/ Terminate \/ UNCHANGED vars
         \/ \E w \in Workers : WorkerEnds(w)
  PROVE  OnePlace'
<1>1. /\ UNCHANGED <<free, lost, rxRing, txRing, inbox, back>>
      /\ dist'.pkts = dist.pkts
      /\ \A v \in Workers : worker'[v].batch = worker[v].batch
                            /\ worker'[v].queue = worker[v].queue
  <2>1. CASE RxEnds \/ TxEnds \/ Terminate \/ UNCHANGED vars
    BY <2>1 DEF RxEnds, TxEnds, Terminate, vars
  <2>2. CASE DistEnds
    <3>1. dist' = [dist EXCEPT !.pc = "ended"]
      BY <2>2 DEF DistEnds
    <3>2. dist'.pkts = dist.pkts
      BY <3>1 DEF Fields
    <3>3. QED BY <2>2, <3>2 DEF DistEnds
  <2>3. ASSUME NEW w \in Workers, WorkerEnds(w)
        PROVE  /\ UNCHANGED <<free, lost, rxRing, txRing, inbox, back, dist>>
               /\ \A v \in Workers : worker'[v].batch = worker[v].batch
                                     /\ worker'[v].queue = worker[v].queue
    <3>1. /\ worker'[w].batch = worker[w].batch /\ worker'[w].queue = worker[w].queue
          /\ \A v \in Workers \ {w} : worker'[v] = worker[v]
      BY <2>3, EndsStep
    <3>2. QED BY <2>3, <3>1 DEF WorkerEnds
  <2>4. QED BY <2>1, <2>2, <2>3
<1>2. \A v \in Workers : Held(worker'[v].queue) = Held(worker[v].queue)
  BY <1>1, Zenon
<1>3. \A p \in Places : Same(p)
  BY <1>1, <1>2, PlaceCases, SameAt
<1>4. QED BY <1>3, PlaceNames, Stayed DEF Same

-----------------------------------------------------------------------------
(* The invariant holds at first and is kept by every step.                 *)
LEMMA InvInit == Init => DatapathInv
BY TypesInit, OnePlaceInit DEF DatapathInv

LEMMA InvNext == DatapathInv /\ [Next]_vars => DatapathInv'
<1> SUFFICES ASSUME DatapathInv, [Next]_vars PROVE DatapathInv'
  OBVIOUS
<1>1. Fields /\ Loops /\ OnePlace /\ Fields' /\ Loops'
  BY TypesNext DEF DatapathInv
<1>2. OnePlace'
  BY <1>1, RxMoves, RingMoves, DistMoves, AskMoves, TakeMoves, ProcessMoves, Unmoved
     DEF Next, RxLoop, DistLoop, TxLoop, WorkerLoop
<1>3. QED BY <1>1, <1>2 DEF DatapathInv

(* The queues fit, a loop between two rounds holds nothing, and no buffer  *)
(* is in two places: what the other two theorems follow from.              *)
THEOREM PipelineSafe == Spec => []DatapathInv
BY InvInit, InvNext, PTL DEF Spec

(* Whatever the loops do at the same time, and however many of them: no    *)
(* buffer is ever in two places of the pipeline, and none twice in one.    *)
THEOREM BuffersInOnePlace == Spec => []OnePlace
<1>1. DatapathInv => OnePlace
  BY DEF DatapathInv
<1>2. QED BY <1>1, PipelineSafe, PTL

(* No size of a batch the distributor may give makes a worker forget an    *)
(* answer, as long as a batch fits its queue and one call empties it.      *)
THEOREM AnswersAlwaysFit == Spec => []QueueNeverFull
<1>1. DatapathInv => QueueNeverFull
  BY Room DEF DatapathInv
<1>2. QED BY <1>1, PipelineSafe, PTL

-----------------------------------------------------------------------------
(***************************************************************************)
(* Order.  Of two packets of one flow the older one is further on, in a    *)
(* container of a higher rank or before the other in the same one.  The    *)
(* workers are beside each other and not behind: a flow is with one of     *)
(* them at a time.                                                         *)
(***************************************************************************)
Rank(p) == [rxRing |-> 1, dist |-> 2, inbox |-> 3, batch |-> 4, queue |-> 5, back |-> 6,
            txRing |-> 7][p.name]

Ahead(b, c) ==
  \A p, q \in Containers :
    b \in ToSet(Content(p)) /\ c \in ToSet(Content(q)) =>
      Rank(p) > Rank(q) \/ (p = q /\ Before(Content(p), b, c))

Ordered == \A p \in older : Ahead(p[1], p[2])

OlderInside ==
  /\ older \subseteq Inside \X Inside
  /\ \A p \in older : flow[p[1]] = flow[p[2]]

OneAtWork ==
  \A v, w \in Workers : \A f \in Range(flow) : Busy(v, f) /\ Busy(w, f) => v = w

Tagged ==
  \A w \in Workers : \A b \in ToSet(worker[w].batch) \union ToSet(Held(worker[w].queue)) :
    flow[b] \in worker[w].tags

OrderInv == OlderInside /\ Ordered /\ OneAtWork /\ Tagged

(* What is before what in the parts of a sequence.                         *)
LEMMA BeforeJoined ==
  ASSUME NEW S, NEW s \in Seq(S), NEW t \in Seq(S), NEW b, NEW c
  PROVE  /\ Before(s, b, c) => Before(s \o t, b, c)
         /\ Before(t, b, c) => Before(s \o t, b, c)
         /\ b \in ToSet(s) /\ c \in ToSet(t) => Before(s \o t, b, c)
<1> DEFINE u == s \o t
<1>1. /\ Len(s) \in Nat /\ DOMAIN s = 1 .. Len(s)
      /\ Len(t) \in Nat /\ DOMAIN t = 1 .. Len(t)
      /\ DOMAIN u = 1 .. Len(s) + Len(t)
      /\ \A i \in 1 .. Len(s) : u[i] = s[i]
      /\ \A i \in 1 .. Len(t) : u[i + Len(s)] = t[i]
  OBVIOUS
<1> HIDE DEF u
<1>2. \A i \in 1 .. Len(s) : i \in DOMAIN u
  BY <1>1
<1>3. \A i \in 1 .. Len(t) : i + Len(s) \in DOMAIN u /\ i + Len(s) \in Nat
  BY <1>1
<1>4. ASSUME Before(s, b, c) PROVE Before(u, b, c)
  BY <1>1, <1>2, <1>4 DEF Before
<1>5. ASSUME Before(t, b, c) PROVE Before(u, b, c)
  <2>1. PICK i \in DOMAIN t, j \in DOMAIN t : i < j /\ t[i] = b /\ t[j] = c
    BY <1>5 DEF Before
  <2>2. i + Len(s) < j + Len(s)
    BY <1>1, <2>1
  <2>3. u[i + Len(s)] = b /\ u[j + Len(s)] = c
    BY <1>1, <2>1
  <2>4. QED BY <1>1, <1>3, <2>2, <2>3 DEF Before
<1>6. ASSUME b \in ToSet(s), c \in ToSet(t) PROVE Before(u, b, c)
  <2>1. PICK i \in 1 .. Len(s), j \in 1 .. Len(t) : s[i] = b /\ t[j] = c
    BY <1>1, <1>6 DEF ToSet
  <2>2. i < j + Len(s)
    BY <1>1
  <2>3. u[i] = b /\ u[j + Len(s)] = c
    BY <1>1, <2>1
  <2>4. QED BY <1>1, <1>2, <1>3, <2>2, <2>3 DEF Before
<1>7. QED BY <1>4, <1>5, <1>6 DEF u

LEMMA BeforeParts ==
  ASSUME NEW S, NEW s \in Seq(S), NEW t \in Seq(S), IsInjective(s \o t), NEW b, NEW c,
         Before(s \o t, b, c)
  PROVE  /\ b \in ToSet(s) /\ c \in ToSet(s) => Before(s, b, c)
         /\ b \in ToSet(t) /\ c \in ToSet(t) => Before(t, b, c)
         /\ ~(b \in ToSet(t) /\ c \in ToSet(s))
<1> DEFINE u == s \o t
<1>1. /\ Len(s) \in Nat /\ DOMAIN s = 1 .. Len(s)
      /\ Len(t) \in Nat /\ DOMAIN t = 1 .. Len(t)
      /\ DOMAIN u = 1 .. Len(s) + Len(t)
      /\ \A i \in 1 .. Len(s) : u[i] = s[i]
      /\ \A i \in 1 .. Len(t) : u[i + Len(s)] = t[i]
  OBVIOUS
<1>2. IsInjective(u) /\ Before(u, b, c)
  OBVIOUS
<1> HIDE DEF u
<1>3. PICK i \in DOMAIN u, j \in DOMAIN u : i < j /\ u[i] = b /\ u[j] = c
  BY <1>2 DEF Before
<1>4. \A k, l \in DOMAIN u : u[k] = u[l] => k = l
  BY <1>2 DEF IsInjective
<1>5. \A x \in ToSet(s) : \E k \in 1 .. Len(s) : k \in DOMAIN u /\ u[k] = x /\ s[k] = x
  <2>1. \A k \in 1 .. Len(s) : k \in DOMAIN u
    BY <1>1
  <2>2. QED BY <1>1, <2>1 DEF ToSet
<1>6. \A x \in ToSet(t) :
        \E k \in 1 .. Len(t) : k + Len(s) \in DOMAIN u /\ u[k + Len(s)] = x /\ t[k] = x
  <2>1. \A k \in 1 .. Len(t) : k + Len(s) \in DOMAIN u
    BY <1>1
  <2>2. QED BY <1>1, <2>1 DEF ToSet
<1>7. ASSUME b \in ToSet(s), c \in ToSet(s) PROVE Before(s, b, c)
  <2>1. PICK k \in 1 .. Len(s) : k \in DOMAIN u /\ u[k] = b /\ s[k] = b
    BY <1>5, <1>7
  <2>2. PICK l \in 1 .. Len(s) : l \in DOMAIN u /\ u[l] = c /\ s[l] = c
    BY <1>5, <1>7
  <2>3. k = i /\ l = j
    BY <1>3, <1>4, <2>1, <2>2
  <2>4. QED BY <1>1, <1>3, <2>1, <2>2, <2>3 DEF Before
<1>8. ASSUME b \in ToSet(t), c \in ToSet(t) PROVE Before(t, b, c)
  <2>1. PICK k \in 1 .. Len(t) : k + Len(s) \in DOMAIN u /\ u[k + Len(s)] = b /\ t[k] = b
    BY <1>6, <1>8
  <2>2. PICK l \in 1 .. Len(t) : l + Len(s) \in DOMAIN u /\ u[l + Len(s)] = c /\ t[l] = c
    BY <1>6, <1>8
  <2>3. k + Len(s) = i /\ l + Len(s) = j
    BY <1>3, <1>4, <2>1, <2>2
  <2>4. k < l
    BY <1>1, <1>3, <2>3
  <2>5. QED BY <1>1, <2>1, <2>2, <2>4 DEF Before
<1>9. ASSUME b \in ToSet(t), c \in ToSet(s) PROVE FALSE
  <2>1. PICK k \in 1 .. Len(t) : k + Len(s) \in DOMAIN u /\ u[k + Len(s)] = b
    BY <1>6, <1>9
  <2>2. PICK l \in 1 .. Len(s) : l \in DOMAIN u /\ u[l] = c
    BY <1>5, <1>9
  <2>3. k + Len(s) = i /\ l = j
    BY <1>3, <1>4, <2>1, <2>2
  <2>4. QED BY <1>1, <1>3, <2>1, <2>2, <2>3
<1>10. QED BY <1>7, <1>8, <1>9

LEMMA BeforeBoth ==
  ASSUME NEW s, NEW b, NEW c, Before(s, b, c)
  PROVE  b \in ToSet(s) /\ c \in ToSet(s)
BY DEF Before, ToSet

LEMMA FirstAndRest ==
  ASSUME NEW S, NEW s \in Seq(S), NEW n \in Nat
  PROVE  s = FirstOf(s, n) \o AllBut(s, n)
<1> DEFINE m == Min2(n, Len(s))
           a == FirstOf(s, n)
           z == AllBut(s, n)
<1>1. Len(s) \in Nat /\ m \in 0 .. Len(s)
  BY DEF Min2
<1> HIDE DEF m
<1>2. /\ a \in Seq(S) /\ Len(a) = m /\ \A i \in 1 .. m : a[i] = s[i]
  <2>1. a = SubSeq(s, 1, m)
    BY DEF FirstOf, m
  <2>2. QED BY <1>1, <2>1
<1>3. /\ z \in Seq(S) /\ Len(z) = Len(s) - m
      /\ \A i \in 1 .. Len(s) - m : z[i] = s[i + m]
  <2>1. m + 1 \in 1 .. Len(s) + 1 /\ Len(s) \in m .. Len(s)
    BY <1>1
  <2>2. /\ z \in Seq(S)
        /\ Len(z) = IF m + 1 <= Len(s) THEN Len(s) - (m + 1) + 1 ELSE 0
        /\ \A i \in 1 .. Len(s) - (m + 1) + 1 : z[i] = s[m + 1 + i - 1]
    BY <2>1, SubSeqProperties DEF AllBut, m
  <2> HIDE DEF z
  <2>3. \A i \in 1 .. Len(s) - m : i \in 1 .. Len(s) - (m + 1) + 1 /\ m + 1 + i - 1 = i + m
    BY <1>1
  <2>4. Len(z) = Len(s) - m
    BY <1>1, <2>2
  <2>5. QED BY <2>2, <2>3, <2>4
<1> HIDE DEF a, z
<1> DEFINE u == a \o z
<1>4. /\ u \in Seq(S) /\ Len(u) = Len(s)
      /\ \A i \in 1 .. m : u[i] = s[i]
      /\ \A i \in 1 .. Len(s) - m : u[i + m] = z[i]
  BY <1>1, <1>2, <1>3
<1> HIDE DEF u
<1>5. ASSUME NEW i \in 1 .. Len(s) PROVE u[i] = s[i]
  <2>1. CASE i <= m
    BY <1>1, <1>4, <2>1
  <2>2. CASE i > m
    <3>1. i - m \in 1 .. Len(s) - m /\ (i - m) + m = i
      BY <1>1, <2>2
    <3>2. QED BY <1>3, <1>4, <3>1
  <2>3. QED BY <1>1, <2>1, <2>2
<1>6. u = s
  BY <1>4, <1>5
<1>7. QED BY <1>6 DEF u, a, z

LEMMA HeadAndTail ==
  ASSUME NEW S, NEW s \in Seq(S), s # <<>>
  PROVE  s = <<Head(s)>> \o Tail(s)
OBVIOUS

-----------------------------------------------------------------------------
(* Where a container comes on the way.                                     *)
LEMMA Ranks ==
  /\ Rank(At("rxRing")) = 1 /\ Rank(At("dist")) = 2
  /\ \A w \in Workers : /\ Rank(Of("inbox", w)) = 3 /\ Rank(Of("batch", w)) = 4
                         /\ Rank(Of("queue", w)) = 5
  /\ Rank(At("back")) = 6 /\ Rank(At("txRing")) = 7
BY DEF Rank, At, Of

LEMMA RankRange ==
  ASSUME NEW p \in Containers
  PROVE  /\ Rank(p) \in 1 .. 7
         /\ Rank(p) = 1 => p = At("rxRing")
         /\ Rank(p) = 2 => p = At("dist")
         /\ Rank(p) = 3 => \E w \in Workers : p = Of("inbox", w)
         /\ Rank(p) = 4 => \E w \in Workers : p = Of("batch", w)
         /\ Rank(p) = 5 => \E w \in Workers : p = Of("queue", w)
         /\ Rank(p) = 6 => p = At("back")
         /\ Rank(p) = 7 => p = At("txRing")
<1>1. \/ \E n \in {"rxRing", "dist", "back", "txRing"} : p = At(n)
      \/ \E n \in {"inbox", "batch", "queue"}, w \in Workers : p = Of(n, w)
  BY DEF Containers, At, Of
<1>2. QED BY <1>1, Ranks

LEMMA Contents ==
  ASSUME Fields, Loops, NEW p \in Containers
  PROVE  Content(p) \in Seq(Bufs)
<1>1. \/ \E n \in {"rxRing", "dist", "back", "txRing"} : p = At(n)
      \/ \E n \in {"inbox", "batch", "queue"}, w \in Workers : p = Of(n, w)
  BY DEF Containers, At, Of
<1>2. /\ rxRing \in Seq(Bufs) /\ dist.pkts \in Seq(Bufs) /\ back \in Seq(Bufs)
      /\ txRing \in Seq(Bufs)
  BY DEF Fields
<1>3. ASSUME NEW w \in Workers
      PROVE  /\ inbox[w] \in Seq(Bufs) /\ worker[w].batch \in Seq(Bufs)
             /\ Held(worker[w].queue) \in Seq(Bufs)
  BY WorkerFields DEF Loops, Fits
<1>4. QED BY <1>1, <1>2, <1>3, View

LEMMA AheadOf ==
  ASSUME NEW b, NEW c, NEW p \in Containers, NEW q \in Containers,
         Ahead(b, c), b \in ToSet(Content(p)), c \in ToSet(Content(q))
  PROVE  Rank(p) > Rank(q) \/ (p = q /\ Before(Content(p), b, c))
BY DEF Ahead

(* The first of x, which are g and h, leave it: g for the end of y, the    *)
(* next container on the way, and h for none.                              *)
Handed(x, y, g, h, k) ==
  /\ Content(x) = (g \o h) \o k
  /\ Content(x)' = k /\ Content(y)' = Content(y) \o g
  /\ \A p \in Containers \ {x, y} : Content(p)' = Content(p)

(* No older packet of the same flow is beside where it goes.               *)
Alone(y, g) ==
  \A p \in older : \A q \in Containers :
    p[1] \in ToSet(Content(q)) /\ p[2] \in ToSet(g) /\ Rank(q) = Rank(y) => q = y

LEMMA OrderShift ==
  ASSUME Fields, Loops, OnePlace, Ordered,
         NEW x \in Containers, NEW y \in Containers, Rank(y) = Rank(x) + 1,
         NEW g \in Seq(Bufs), NEW h \in Seq(Bufs), NEW k \in Seq(Bufs),
         Handed(x, y, g, h, k), Alone(y, g), older' \subseteq older
  PROVE  Ordered'
<1>0. /\ Content(x) = (g \o h) \o k
      /\ Content(x)' = k /\ Content(y)' = Content(y) \o g
      /\ \A p \in Containers \ {x, y} : Content(p)' = Content(p)
  BY DEF Handed
<1> SUFFICES ASSUME NEW o \in older, NEW p \in Containers, NEW q \in Containers,
                    o[1] \in ToSet(Content(p)'), o[2] \in ToSet(Content(q)')
             PROVE  Rank(p) > Rank(q) \/ (p = q /\ Before(Content(p)', o[1], o[2]))
  BY DEF Ordered, Ahead
<1> DEFINE b == o[1]
           c == o[2]
           f == g \o h
<1>1. Ahead(b, c)
  BY DEF Ordered
<1>2. \A q0 \in Containers :
        b \in ToSet(Content(q0)) /\ c \in ToSet(g) /\ Rank(q0) = Rank(y) => q0 = y
  BY DEF Alone
<1>3. b \in ToSet(Content(p)') /\ c \in ToSet(Content(q)')
  OBVIOUS
<1> HIDE DEF b, c
<1>4. /\ Rank(p) \in Nat /\ Rank(q) \in Nat /\ Rank(x) \in Nat /\ Rank(y) \in Nat
      /\ Rank(y) = Rank(x) + 1 /\ x # y
  <2>1. Rank(p) \in 1 .. 7 /\ Rank(q) \in 1 .. 7 /\ Rank(x) \in 1 .. 7 /\ Rank(y) \in 1 .. 7
    BY RankRange
  <2>2. QED BY <2>1
<1>5. f \in Seq(Bufs) /\ ToSet(f) = ToSet(g) \union ToSet(h)
  BY Joined
<1>6. ToSet(Content(x)) = ToSet(f) \union ToSet(k)
  <2>1. Content(x) = f \o k
    BY <1>0
  <2> HIDE DEF f
  <2>2. ToSet(f \o k) = ToSet(f) \union ToSet(k)
    BY <1>5, Joined
  <2>3. QED BY <2>1, <2>2
<1>7. IsInjective(f \o k)
  BY <1>0 DEF OnePlace
<1>8. Content(y) \in Seq(Bufs)
  BY Contents
<1>9. ToSet(Content(y)') = ToSet(Content(y)) \union ToSet(g)
  BY <1>0, <1>8, Joined
<1>10. Content(x) = f \o k
  BY <1>0
<1> HIDE DEF f
<1>11. ASSUME NEW e, NEW r \in Containers, e \in ToSet(Content(r)')
       PROVE  \/ e \in ToSet(Content(r)) /\ (r = x => e \in ToSet(k))
              \/ r = y /\ e \in ToSet(g)
  <2>1. CASE r = x
    BY <1>0, <1>6, <1>11, <2>1
  <2>2. CASE r = y
    BY <1>4, <1>9, <1>11, <2>2
  <2>3. CASE r \notin {x, y}
    BY <1>0, <1>11, <2>3
  <2>4. QED BY <2>1, <2>2, <2>3
<1>12. ToSet(g) \subseteq ToSet(f) /\ ToSet(g) \subseteq ToSet(Content(x))
  BY <1>5, <1>6
<1>13. CASE /\ b \in ToSet(Content(p)) /\ (p = x => b \in ToSet(k))
            /\ c \in ToSet(Content(q)) /\ (q = x => c \in ToSet(k))
  <2>1. Rank(p) > Rank(q) \/ (p = q /\ Before(Content(p), b, c))
    BY <1>1, <1>13, AheadOf
  <2>2. ASSUME p = q, Before(Content(p), b, c) PROVE Before(Content(p)', b, c)
    <3>1. CASE p = x
      <4>1. Before(f \o k, b, c) /\ b \in ToSet(k) /\ c \in ToSet(k)
        BY <1>10, <1>13, <2>2, <3>1
      <4>2. Before(k, b, c)
        BY <1>5, <1>7, <4>1, BeforeParts
      <4>3. QED BY <1>0, <3>1, <4>2
    <3>2. CASE p = y
      <4>1. Before(Content(y) \o g, b, c)
        BY <1>8, <2>2, <3>2, BeforeJoined
      <4>2. QED BY <1>0, <3>2, <4>1
    <3>3. CASE p \notin {x, y}
      BY <1>0, <2>2, <3>3
    <3>4. QED BY <3>1, <3>2, <3>3
  <2>3. QED BY <2>1, <2>2 DEF b, c
<1>14. CASE /\ b \in ToSet(Content(p)) /\ (p = x => b \in ToSet(k))
            /\ q = y /\ c \in ToSet(g)
  <2>1. c \in ToSet(Content(x)) /\ c \in ToSet(f)
    BY <1>12, <1>14
  <2>2. Rank(p) > Rank(x) \/ (p = x /\ Before(Content(p), b, c))
    BY <1>1, <1>14, <2>1, AheadOf
  <2>3. ASSUME p = x, Before(Content(p), b, c) PROVE FALSE
    <3>1. Before(f \o k, b, c) /\ b \in ToSet(k) /\ c \in ToSet(f)
      BY <1>10, <1>14, <2>1, <2>3
    <3>2. QED BY <1>5, <1>7, <3>1, BeforeParts
  <2>4. Rank(p) > Rank(y) \/ Rank(p) = Rank(y)
    BY <1>4, <2>2, <2>3
  <2>5. ASSUME Rank(p) = Rank(y) PROVE p = q /\ Before(Content(p)', b, c)
    <3>1. p = y
      BY <1>2, <1>14, <2>5
    <3>2. b \in ToSet(Content(y)) /\ c \in ToSet(g)
      BY <1>14, <3>1
    <3>3. Before(Content(y) \o g, b, c)
      BY <1>8, <3>2, BeforeJoined
    <3>4. QED BY <1>0, <1>14, <3>1, <3>3
  <2>6. QED BY <1>14, <2>4, <2>5 DEF b, c
<1>15. CASE /\ p = y /\ b \in ToSet(g)
            /\ c \in ToSet(Content(q)) /\ (q = x => c \in ToSet(k))
  <2>1. b \in ToSet(Content(x))
    BY <1>12, <1>15
  <2>2. Rank(x) > Rank(q) \/ x = q
    BY <1>1, <1>15, <2>1, AheadOf
  <2>3. QED BY <1>4, <1>15, <2>2
<1>16. CASE p = y /\ b \in ToSet(g) /\ q = y /\ c \in ToSet(g)
  <2>1. b \in ToSet(Content(x)) /\ c \in ToSet(Content(x)) /\ b \in ToSet(f) /\ c \in ToSet(f)
    BY <1>12, <1>16
  <2>2. Before(f \o k, b, c)
    <3>1. Rank(x) > Rank(x) \/ Before(Content(x), b, c)
      BY <1>1, <2>1, AheadOf
    <3>2. QED BY <1>4, <1>10, <3>1
  <2>3. Before(f, b, c)
    BY <1>5, <1>7, <2>1, <2>2, BeforeParts
  <2>4. Before(g, b, c)
    <3>1. IsInjective(f)
      <4>1. \A i \in DOMAIN f : i \in DOMAIN (f \o k) /\ (f \o k)[i] = f[i]
        BY <1>5
      <4>2. QED BY <1>7, <4>1 DEF IsInjective
    <3>2. IsInjective(g \o h) /\ Before(g \o h, b, c)
      BY <2>3, <3>1 DEF f
    <3>3. QED BY <1>16, <3>2, BeforeParts
  <2>5. Before(Content(y) \o g, b, c)
    BY <1>8, <2>4, BeforeJoined
  <2>6. QED BY <1>0, <1>16, <2>5 DEF b, c
<1>17. QED BY <1>3, <1>11, <1>13, <1>14, <1>15, <1>16

(* No container gains an older or a younger packet or changes their order. *)
LEMMA OrderKept ==
  ASSUME Ordered, OlderInside, older' \subseteq older,
         \A p \in Containers : \A b \in Inside :
           b \in ToSet(Content(p)') => b \in ToSet(Content(p)),
         \A p \in Containers : \A b, c \in Inside :
           /\ Before(Content(p), b, c)
           /\ b \in ToSet(Content(p)') /\ c \in ToSet(Content(p)')
           => Before(Content(p)', b, c)
  PROVE  Ordered'
<1> SUFFICES ASSUME NEW o \in older, NEW p \in Containers, NEW q \in Containers,
                    o[1] \in ToSet(Content(p)'), o[2] \in ToSet(Content(q)')
             PROVE  Rank(p) > Rank(q) \/ (p = q /\ Before(Content(p)', o[1], o[2]))
  BY DEF Ordered, Ahead
<1>1. o[1] \in Inside /\ o[2] \in Inside /\ Ahead(o[1], o[2])
  BY DEF Ordered, OlderInside
<1>2. o[1] \in ToSet(Content(p)) /\ o[2] \in ToSet(Content(q))
  BY <1>1
<1>3. Rank(p) > Rank(q) \/ (p = q /\ Before(Content(p), o[1], o[2]))
  BY <1>1, <1>2, AheadOf
<1>4. QED BY <1>1, <1>3

-----------------------------------------------------------------------------
(* Who is inside.                                                          *)
LEMMA InsideKept ==
  ASSUME OlderInside, UNCHANGED older, Inside \subseteq Inside'
  PROVE  OlderInside'
BY DEF OlderInside

LEMMA InsideLeft ==
  ASSUME OlderInside, NEW S, Leave(S), Inside \ S \subseteq Inside'
  PROVE  OlderInside' /\ older' \subseteq older
<1>1. older' = {p \in older : p[1] \notin S /\ p[2] \notin S}
  BY DEF Leave
<1>2. older \subseteq Inside \X Inside /\ \A p \in older : flow[p[1]] = flow[p[2]]
  BY DEF OlderInside
<1>3. older' \subseteq Inside' \X Inside'
  <2> SUFFICES ASSUME NEW p \in older' PROVE p \in Inside' \X Inside'
    OBVIOUS
  <2>1. PICK b \in Inside, c \in Inside : p = <<b, c>>
    BY <1>1, <1>2
  <2>2. b \notin S /\ c \notin S
    BY <1>1, <2>1
  <2>3. QED BY <2>1, <2>2
<1>4. QED BY <1>1, <1>2, <1>3 DEF OlderInside

LEMMA ContainedInside ==
  ASSUME OnePlace, NEW p \in Containers, NEW b \in Bufs, b \in ToSet(Content(p))
  PROVE  b \in Inside
<1>1. b \in BufsAt(p) /\ BufsAt(At("free")) = free /\ BufsAt(At("lost")) = lost
  BY View
<1>2. p # At("free") /\ p # At("lost")
  BY DEF Containers, At
<1>3. b \notin free /\ b \notin lost
  BY <1>1, <1>2, PlaceNames, Apart
<1>4. QED BY <1>3 DEF Inside

LEMMA OrderRx ==
  ASSUME Fields, Loops, OnePlace, OlderInside, Ordered, RxBurst
  PROVE  OlderInside' /\ Ordered'
<1>1. PICK pkts \in UNION {[1 .. n -> free] : n \in 1 .. RX_BURST_SIZE} :
        LET got == FirstOf(pkts, RX_RING_SIZE - Len(rxRing))
        IN  /\ rxRing' = rxRing \o got /\ free' = free \ ToSet(got)
            /\ older' = older \union {p \in Bufs \X ToSet(got) :
                 flow[p[1]] = flow[p[2]] /\ (p[1] \in Inside \/ Before(got, p[1], p[2]))}
  BY DEF RxBurst
<1> DEFINE room == RX_RING_SIZE - Len(rxRing)
           got == FirstOf(pkts, room)
           fresh == {p \in Bufs \X ToSet(got) :
             flow[p[1]] = flow[p[2]] /\ (p[1] \in Inside \/ Before(got, p[1], p[2]))}
<1>2. got \in Seq(free)
  <2>1. RX_RING_SIZE \in Nat /\ RX_BURST_SIZE \in Nat
    BY Sizes
  <2>2. pkts \in Seq(free)
    <3>1. PICK n \in 1 .. RX_BURST_SIZE : pkts \in [1 .. n -> free]
      OBVIOUS
    <3>2. QED BY <2>1, <3>1
  <2>3. room \in Nat
    BY <2>1 DEF Fields
  <2> HIDE DEF room
  <2>4. QED BY <2>2, <2>3, Split
<1>3. rxRing' = rxRing \o got /\ free' = free \ ToSet(got) /\ lost' = lost
  BY <1>1 DEF RxBurst
<1>4. older' = older \union fresh
  BY <1>1
<1> HIDE DEF got
<1>5. ToSet(got) \subseteq free /\ free \subseteq Bufs
  BY <1>2 DEF ToSet, Fields
<1>6. got \in Seq(Bufs) /\ rxRing \in Seq(Bufs)
  BY <1>2, <1>5 DEF Fields
<1>7. ToSet(got) \intersect lost = {}
  <2>1. \A b \in free : b \notin lost
    <3>1. At("free") \in Places /\ At("lost") \in Places /\ At("free") # At("lost")
      BY PlaceNames DEF At
    <3>2. BufsAt(At("free")) = free /\ BufsAt(At("lost")) = lost
      BY View
    <3>3. QED BY <1>5, <3>1, <3>2, Apart
  <2>2. QED BY <1>5, <2>1
<1>8. Inside' = Inside \union ToSet(got) /\ Inside \intersect ToSet(got) = {}
  BY <1>3, <1>5, <1>7 DEF Inside
<1>9. \A p \in fresh : /\ p[1] \in Bufs /\ p[2] \in ToSet(got) /\ flow[p[1]] = flow[p[2]]
                       /\ p[1] \in Inside \/ Before(got, p[1], p[2])
                       /\ p = <<p[1], p[2]>>
  OBVIOUS
<1>10. older \subseteq Inside \X Inside /\ \A p \in older : flow[p[1]] = flow[p[2]]
  BY DEF OlderInside
<1> HIDE DEF fresh
<1>11. OlderInside'
  <2>1. ASSUME NEW p \in older' PROVE p \in Inside' \X Inside' /\ flow[p[1]] = flow[p[2]]
    <3>1. CASE p \in older
      <4>1. Inside \subseteq Inside'
        BY <1>8
      <4>2. QED BY <1>10, <3>1, <4>1
    <3>2. CASE p \in fresh
      <4>1. p[1] \in Inside' /\ p[2] \in Inside'
        BY <1>8, <1>9, <3>2, BeforeBoth
      <4>2. QED BY <1>9, <3>2, <4>1
    <3>3. QED BY <1>4, <3>1, <3>2
  <2>2. QED BY <2>1 DEF OlderInside
<1>12. /\ Content(At("rxRing"))' = rxRing \o got /\ Content(At("rxRing")) = rxRing
       /\ At("rxRing") \in Containers
  BY <1>3, View, ViewNext, PlaceNames
<1>13. \A p \in Containers \ {At("rxRing")} : Content(p)' = Content(p)
  <2>1. \A p \in Places \ {At("free"), At("rxRing")} : Same(p)
    BY PlaceCases, SameAt, ZenonT(90) DEF RxBurst
  <2>2. At("free") \notin Containers
    BY DEF Containers, At
  <2>3. QED BY <2>1, <2>2, PlaceNames DEF Same
<1>14. ToSet(rxRing \o got) = ToSet(rxRing) \union ToSet(got)
  BY <1>6, Joined
<1>15. \A p \in Containers : ToSet(Content(p)) \subseteq Inside
  <2>1. \A p \in Containers : ToSet(Content(p)) \subseteq Bufs
    BY Contents DEF ToSet
  <2>2. QED BY <2>1, ContainedInside
<1>16. ASSUME NEW o \in older', NEW p \in Containers, NEW q \in Containers,
              o[1] \in ToSet(Content(p)'), o[2] \in ToSet(Content(q)')
       PROVE  Rank(p) > Rank(q) \/ (p = q /\ Before(Content(p)', o[1], o[2]))
  <2> DEFINE b == o[1]
             c == o[2]
  <2>1. /\ b \in ToSet(Content(p)) \/ (p = At("rxRing") /\ b \in ToSet(got))
        /\ c \in ToSet(Content(q)) \/ (q = At("rxRing") /\ c \in ToSet(got))
    BY <1>12, <1>13, <1>14, <1>16
  <2>2. CASE o \in older
    <3>1. b \in Inside /\ c \in Inside /\ Ahead(b, c)
      BY <1>10, <2>2 DEF Ordered
    <3>2. b \in ToSet(Content(p)) /\ c \in ToSet(Content(q))
      BY <1>8, <2>1, <3>1
    <3> HIDE DEF b, c
    <3>3. Rank(p) > Rank(q) \/ (p = q /\ Before(Content(p), b, c))
      BY <3>1, <3>2, AheadOf
    <3>4. ASSUME Before(Content(p), b, c) PROVE Before(Content(p)', b, c)
      <4>1. CASE p = At("rxRing")
        <5>1. Before(rxRing, b, c)
          BY <1>12, <3>4, <4>1
        <5>2. Before(rxRing \o got, b, c)
          BY <1>6, <5>1, BeforeJoined
        <5>3. QED BY <1>12, <4>1, <5>2
      <4>2. CASE p # At("rxRing")
        BY <1>13, <3>4, <4>2
      <4>3. QED BY <4>1, <4>2
    <3>5. QED BY <3>3, <3>4 DEF b, c
  <2>3. CASE o \in fresh
    <3>1. c \in ToSet(got) /\ (b \in Inside \/ Before(got, b, c))
      BY <1>9, <2>3
    <3> HIDE DEF b, c
    <3>2. q = At("rxRing")
      BY <1>8, <1>15, <2>1, <3>1
    <3>3. CASE b \in Inside
      <4>1. b \in ToSet(Content(p))
        BY <1>8, <2>1, <3>3
      <4>2. CASE p = At("rxRing")
        <5>1. b \in ToSet(rxRing)
          BY <1>12, <4>1, <4>2
        <5>2. Before(rxRing \o got, b, c)
          BY <1>6, <3>1, <5>1, BeforeJoined
        <5>3. QED BY <1>12, <3>2, <4>2, <5>2 DEF b, c
      <4>3. CASE p # At("rxRing")
        <5>1. Rank(q) = 1 /\ Rank(p) \in 1 .. 7 /\ Rank(p) # 1
          BY <3>2, <4>3, Ranks, RankRange
        <5>2. QED BY <5>1
      <4>4. QED BY <4>2, <4>3
    <3>4. CASE Before(got, b, c)
      <4>1. b \in ToSet(got)
        BY <3>4, BeforeBoth
      <4>2. p = At("rxRing")
        BY <1>8, <1>15, <2>1, <4>1
      <4>3. Before(rxRing \o got, b, c)
        BY <1>6, <3>4, BeforeJoined
      <4>4. QED BY <1>12, <3>2, <4>2, <4>3 DEF b, c
    <3>5. QED BY <3>1, <3>3, <3>4
  <2>4. QED BY <1>4, <2>2, <2>3
<1>17. QED BY <1>11, <1>16 DEF Ordered, Ahead

LEMMA OrderArp ==
  ASSUME Fields, Loops, OnePlace, OlderInside, Ordered, ArpRequest
  PROVE  OlderInside' /\ Ordered'
<1>1. PICK b \in free : free' = free \ {b} /\ txRing' = Append(txRing, b)
  BY DEF ArpRequest
<1>2. UNCHANGED <<lost, rxRing, dist, inbox, back, worker, older>>
  BY DEF ArpRequest
<1>3. OlderInside'
  <2>1. Inside \subseteq Inside'
    BY <1>1, <1>2 DEF Inside
  <2>2. QED BY <1>2, <2>1, InsideKept
<1>4. b \in Bufs /\ b \notin Inside /\ txRing \in Seq(Bufs)
  BY DEF Fields, Inside
<1>5. txRing' = txRing \o <<b>> /\ <<b>> \in Seq(Bufs) /\ ToSet(<<b>>) = {b}
  <2>1. txRing' = txRing \o <<b>> /\ <<b>> \in Seq(Bufs)
    BY <1>1, <1>4
  <2>2. ToSet(<<b>>) = {b}
    BY DEF ToSet
  <2>3. QED BY <2>1, <2>2
<1>6. ToSet(txRing') = ToSet(txRing) \union {b}
  BY <1>1, <1>4, Appended
<1>7. \A p \in Containers \ {At("txRing")} : Content(p)' = Content(p)
  <2>1. \A p \in Places \ {At("free"), At("txRing")} : Same(p)
    BY <1>2, PlaceCases, SameAt
  <2>2. At("free") \notin Containers
    BY DEF Containers, At
  <2>3. QED BY <2>1, <2>2, PlaceNames DEF Same
<1>8. /\ Content(At("txRing"))' = txRing' /\ Content(At("txRing")) = txRing
  BY View, ViewNext
<1>9. \A c, d : Before(txRing, c, d) => Before(txRing', c, d)
  BY <1>4, <1>5, BeforeJoined
<1>10. \A p \in Containers : \A c \in Inside :
         c \in ToSet(Content(p)') => c \in ToSet(Content(p))
  BY <1>4, <1>6, <1>7, <1>8
<1>11. \A p \in Containers : \A c, d \in Inside :
         Before(Content(p), c, d) => Before(Content(p)', c, d)
  BY <1>7, <1>8, <1>9
<1>12. Ordered'
  BY <1>2, <1>10, <1>11, OrderKept
<1>13. QED BY <1>3, <1>12

LEMMA OrderTx ==
  ASSUME Fields, Loops, OnePlace, OlderInside, Ordered, TxBurst
  PROVE  OlderInside' /\ Ordered'
<1> DEFINE first == FirstOf(txRing, TX_BURST_SIZE)
<1>1. /\ txRing' = AllBut(txRing, TX_BURST_SIZE) /\ free' = free \union ToSet(first)
      /\ Leave(ToSet(first)) /\ UNCHANGED <<lost, rxRing, dist, inbox, back, worker>>
  BY DEF TxBurst, Release
<1>2. txRing \in Seq(Bufs) /\ TX_BURST_SIZE \in Nat
  BY Sizes DEF Fields
<1>3. txRing = first \o txRing' /\ first \in Seq(Bufs) /\ txRing' \in Seq(Bufs)
  BY <1>1, <1>2, FirstAndRest, Split
<1> HIDE DEF first
<1>4. OlderInside' /\ older' \subseteq older
  <2>1. Inside \ ToSet(first) \subseteq Inside'
    BY <1>1 DEF Inside
  <2>2. QED BY <1>1, <2>1, InsideLeft
<1>5. \A p \in Containers \ {At("txRing")} : Content(p)' = Content(p)
  <2>1. \A p \in Places \ {At("free"), At("txRing")} : Same(p)
    BY <1>1, PlaceCases, SameAt
  <2>2. At("free") \notin Containers
    BY DEF Containers, At
  <2>3. QED BY <2>1, <2>2, PlaceNames DEF Same
<1>6. /\ Content(At("txRing"))' = txRing' /\ Content(At("txRing")) = txRing
      /\ At("txRing") \in Containers
  BY View, ViewNext, PlaceNames
<1>7. IsInjective(first \o txRing')
  BY <1>3, <1>6 DEF OnePlace
<1>8. ToSet(txRing') \subseteq ToSet(txRing)
  BY <1>2, <1>1, Split
<1>9. ASSUME NEW b, NEW c, Before(txRing, b, c), b \in ToSet(txRing'), c \in ToSet(txRing')
      PROVE  Before(txRing', b, c)
  <2>1. Before(first \o txRing', b, c)
    BY <1>3, <1>9
  <2>2. QED BY <1>3, <1>7, <1>9, <2>1, BeforeParts
<1>10. \A p \in Containers : \A b \in Inside :
         b \in ToSet(Content(p)') => b \in ToSet(Content(p))
  BY <1>5, <1>6, <1>8
<1>11. \A p \in Containers : \A b, c \in Inside :
         /\ Before(Content(p), b, c)
         /\ b \in ToSet(Content(p)') /\ c \in ToSet(Content(p)')
         => Before(Content(p)', b, c)
  <2> SUFFICES ASSUME NEW p \in Containers, NEW b \in Inside, NEW c \in Inside,
                      Before(Content(p), b, c),
                      b \in ToSet(Content(p)'), c \in ToSet(Content(p)')
               PROVE  Before(Content(p)', b, c)
    OBVIOUS
  <2>1. CASE p = At("txRing")
    <3>1. Before(txRing, b, c) /\ b \in ToSet(txRing') /\ c \in ToSet(txRing')
      BY <1>6, <2>1
    <3>2. Before(txRing', b, c)
      BY <1>9, <3>1, Zenon
    <3>3. QED BY <1>6, <2>1, <3>2
  <2>2. CASE p # At("txRing")
    BY <1>5, <2>2
  <2>3. QED BY <2>1, <2>2
<1>12. Ordered'
  BY <1>4, <1>10, <1>11, OrderKept
<1>13. QED BY <1>4, <1>12

LEMMA OrderPoll ==
  ASSUME Fields, Loops, OnePlace, OlderInside, Ordered, DistPoll
  PROVE  OlderInside' /\ Ordered'
<1> DEFINE first == FirstOf(rxRing, RX_BURST_SIZE)
<1>1. /\ rxRing' = AllBut(rxRing, RX_BURST_SIZE) /\ dist'.pkts = first
      /\ UNCHANGED <<free, lost, txRing, inbox, back, worker, older>>
  BY DEF DistPoll
<1>2. /\ rxRing \in Seq(Bufs) /\ RX_BURST_SIZE \in Nat /\ dist.pkts = <<>>
  BY Sizes DEF Fields, Loops, DistPoll
<1>3. rxRing = first \o rxRing' /\ first \in Seq(Bufs) /\ rxRing' \in Seq(Bufs)
  BY <1>1, <1>2, FirstAndRest, Split
<1> HIDE DEF first
<1>4. OlderInside'
  <2>1. Inside \subseteq Inside'
    BY <1>1 DEF Inside
  <2>2. QED BY <1>1, <2>1, InsideKept
<1>5. /\ Content(At("rxRing")) = rxRing /\ Content(At("rxRing"))' = rxRing'
      /\ Content(At("dist")) = dist.pkts /\ Content(At("dist"))' = first
      /\ At("rxRing") \in Containers /\ At("dist") \in Containers
  BY <1>1, View, ViewNext, PlaceNames
<1>6. \A p \in Containers \ {At("rxRing"), At("dist")} : Content(p)' = Content(p)
  <2>1. \A p \in Places \ {At("rxRing"), At("dist")} : Same(p)
    BY <1>1, PlaceCases, SameAt
  <2>2. QED BY <2>1, PlaceNames DEF Same
<1>7. Rank(At("dist")) = Rank(At("rxRing")) + 1
  BY Ranks
<1>8. /\ rxRing = (first \o <<>>) \o rxRing' /\ dist.pkts \o first = first
      /\ <<>> \in Seq(Bufs)
  BY <1>2, <1>3
<1>9. Alone(At("dist"), first)
  BY Ranks, RankRange DEF Alone
<1>10. Handed(At("rxRing"), At("dist"), first, <<>>, rxRing')
  BY <1>5, <1>6, <1>8 DEF Handed
<1>11. Ordered'
  BY <1>1, <1>3, <1>5, <1>7, <1>8, <1>9, <1>10, OrderShift
<1>12. QED BY <1>4, <1>11

LEMMA OrderGive ==
  ASSUME Fields, Loops, OnePlace, OlderInside, Ordered, OneAtWork,
         NEW w \in Workers, DistGive(w)
  PROVE  OlderInside' /\ Ordered'
<1> DEFINE b == Head(dist.pkts)
<1>1. dist.pkts \in Seq(Bufs) /\ dist.pkts # <<>> /\ inbox[w] \in Seq(Bufs)
  BY DEF DistGive, Fields
<1>2. dist'.pkts = Tail(dist.pkts)
  <2>1. dist' = [dist EXCEPT !.pkts = Tail(dist.pkts)]
    BY DEF DistGive
  <2>2. QED BY <2>1 DEF Fields
<1>3. /\ dist.pkts = <<b>> \o dist'.pkts /\ b \in Bufs /\ dist'.pkts \in Seq(Bufs)
  BY <1>1, <1>2, HeadAndTail, HeadTail
<1>4. /\ inbox'[w] = Append(inbox[w], b) /\ \A v \in Workers \ {w} : inbox'[v] = inbox[v]
      /\ UNCHANGED <<free, lost, rxRing, txRing, back, worker, older>>
      /\ (\E v \in Workers : Busy(v, flow[b])) => Busy(w, flow[b])
  BY DEF DistGive, Fields
<1> HIDE DEF b
<1>5. /\ dist.pkts = (<<b>> \o <<>>) \o dist'.pkts /\ inbox'[w] = inbox[w] \o <<b>>
      /\ <<>> \in Seq(Bufs) /\ <<b>> \in Seq(Bufs)
  BY <1>1, <1>3, <1>4
<1>6. ToSet(<<b>>) = {b}
  BY DEF ToSet
<1>7. OlderInside'
  <2>1. Inside \subseteq Inside'
    BY <1>4 DEF Inside
  <2>2. QED BY <1>4, <2>1, InsideKept
<1>8. /\ Content(At("dist")) = dist.pkts /\ Content(At("dist"))' = dist'.pkts
      /\ Content(Of("inbox", w)) = inbox[w] /\ Content(Of("inbox", w))' = inbox'[w]
      /\ At("dist") \in Containers /\ Of("inbox", w) \in Containers
  BY View, ViewNext, PlaceNames
<1>9. \A p \in Containers \ {At("dist"), Of("inbox", w)} : Content(p)' = Content(p)
  <2>1. \A p \in Places \ {At("dist"), Of("inbox", w)} : Same(p)
    BY <1>4, PlaceCases, SameAt
  <2>2. QED BY <2>1, PlaceNames DEF Same
<1>10. Rank(Of("inbox", w)) = Rank(At("dist")) + 1
  BY Ranks
<1>11. ASSUME NEW o \in older, NEW q \in Containers, o[1] \in ToSet(Content(q)),
              o[2] \in {b}, Rank(q) = Rank(Of("inbox", w))
       PROVE  q = Of("inbox", w)
  <2>1. PICK v \in Workers : q = Of("inbox", v)
    BY <1>11, Ranks, RankRange
  <2>2. o[1] \in ToSet(inbox[v]) /\ flow[o[1]] = flow[b]
    BY <1>11, <2>1, View DEF OlderInside
  <2>3. Busy(v, flow[b])
    BY <2>2 DEF Busy
  <2>4. Busy(w, flow[b])
    BY <1>4, <2>3
  <2>5. flow[b] \in Range(flow)
    BY <1>3, FlowAssumption DEF Range
  <2>6. v = w
    BY <2>3, <2>4, <2>5 DEF OneAtWork
  <2>7. QED BY <2>1, <2>6
<1>12. Alone(Of("inbox", w), <<b>>)
  BY <1>6, <1>11 DEF Alone
<1>13. Handed(At("dist"), Of("inbox", w), <<b>>, <<>>, dist'.pkts)
  BY <1>5, <1>8, <1>9 DEF Handed
<1>14. Ordered'
  BY <1>3, <1>4, <1>5, <1>8, <1>10, <1>12, <1>13, OrderShift
<1>15. QED BY <1>7, <1>14

LEMMA OrderReturn ==
  ASSUME Fields, Loops, OnePlace, OlderInside, Ordered, DistReturn
  PROVE  OlderInside' /\ Ordered'
<1> DEFINE pkts == FirstOf(back, TX_BURST_SIZE)
           room == TX_RING_SIZE - Len(txRing)
           sent == FirstOf(pkts, room)
           over == AllBut(pkts, room)
           forgotten == ToSet(pkts) \ ToSet(sent)
<1>1. /\ lost' = lost \union forgotten /\ Leave(forgotten)
      /\ txRing' = txRing \o sent /\ back' = AllBut(back, TX_BURST_SIZE)
      /\ UNCHANGED <<free, rxRing, inbox, worker>>
  BY DEF DistReturn, Lose
<1>2. dist'.pkts = dist.pkts
  <2>1. dist' = [dist EXCEPT !.pc = "poll"]
    BY DEF DistReturn
  <2>2. QED BY <2>1 DEF Fields
<1>3. back \in Seq(Bufs) /\ TX_BURST_SIZE \in Nat /\ room \in Nat
  BY Sizes DEF Fields
<1> HIDE DEF room
<1>4. back = pkts \o back' /\ pkts \in Seq(Bufs) /\ back' \in Seq(Bufs)
  BY <1>1, <1>3, FirstAndRest, Split
<1> HIDE DEF pkts
<1>5. pkts = sent \o over /\ sent \in Seq(Bufs) /\ over \in Seq(Bufs)
  BY <1>3, <1>4, FirstAndRest, Split
<1> HIDE DEF sent, over, forgotten
<1>6. OlderInside' /\ older' \subseteq older
  <2>1. Inside \ forgotten \subseteq Inside'
    BY <1>1 DEF Inside
  <2>2. QED BY <1>1, <2>1, InsideLeft
<1>7. /\ Content(At("back")) = back /\ Content(At("back"))' = back'
      /\ Content(At("txRing")) = txRing /\ Content(At("txRing"))' = txRing'
      /\ At("back") \in Containers /\ At("txRing") \in Containers
  BY View, ViewNext, PlaceNames
<1>8. \A p \in Containers \ {At("back"), At("txRing")} : Content(p)' = Content(p)
  <2>1. \A p \in Places \ {At("back"), At("txRing"), At("lost")} : Same(p)
    BY <1>1, <1>2, PlaceCases, SameAt
  <2>2. At("lost") \notin Containers
    BY DEF Containers, At
  <2>3. QED BY <2>1, <2>2, PlaceNames DEF Same
<1>9. Alone(At("txRing"), sent)
  BY Ranks, RankRange DEF Alone
<1>10. Handed(At("back"), At("txRing"), sent, over, back')
  <2>1. back = (sent \o over) \o back'
    BY <1>4, <1>5
  <2>2. QED BY <1>1, <1>7, <1>8, <2>1 DEF Handed
<1>11. Rank(At("txRing")) = Rank(At("back")) + 1
  BY Ranks
<1>12. Ordered'
  BY <1>4, <1>5, <1>6, <1>7, <1>9, <1>10, <1>11, OrderShift
<1>13. QED BY <1>6, <1>12

(* Two packets of one flow are not with two workers.                       *)
LEMMA SameWorker ==
  ASSUME OlderInside, OneAtWork, Tagged, NEW o \in older, NEW v \in Workers, NEW w \in Workers,
         o[1] \in ToSet(inbox[v]) \union ToSet(worker[v].batch)
                  \union ToSet(Held(worker[v].queue)),
         o[2] \in ToSet(inbox[w]) \union ToSet(worker[w].batch)
                  \union ToSet(Held(worker[w].queue))
  PROVE  v = w
<1>1. o[1] \in Bufs /\ flow[o[1]] = flow[o[2]]
  BY DEF OlderInside, Inside
<1>2. flow[o[1]] \in Range(flow)
  BY <1>1, FlowAssumption DEF Range
<1>3. ASSUME NEW u \in Workers, NEW b,
             b \in ToSet(inbox[u]) \union ToSet(worker[u].batch)
                  \union ToSet(Held(worker[u].queue))
      PROVE  Busy(u, flow[b])
  BY <1>3 DEF Tagged, Busy
<1>4. Busy(v, flow[o[1]]) /\ Busy(w, flow[o[1]])
  BY <1>1, <1>3
<1>5. QED BY <1>2, <1>4 DEF OneAtWork

LEMMA OrderAsk ==
  ASSUME Fields, Loops, OnePlace, OlderInside, Ordered, NEW w \in Workers, WorkerAsk(w)
  PROVE  OlderInside' /\ Ordered'
<1> DEFINE q == worker[w].queue
           out == get_pkt_to_tx(q, MAX_PKT_PER_TX)
<1>1. /\ q \in Queue /\ Queued(q) <= DIST_BURST /\ Held(q) \in Seq(Bufs)
  BY WorkerFields DEF WorkerAsk, Loops, Fits
<1>2. Queued(q) <= MAX_PKT_PER_TX /\ MAX_PKT_PER_TX \in Nat
  <2>1. Queued(q) \in 0 .. TX_QUEUE_SIZE - 1
    BY <1>1, QueueFields
  <2>2. QED BY <1>1, <2>1, Sizes
<1>3. out.pkts = Held(q) /\ out.queue \in Queue /\ Held(out.queue) = <<>>
  BY <1>1, <1>2, Emptied
<1>4. /\ worker'[w].batch = worker[w].batch /\ worker'[w].queue = out.queue
      /\ \A v \in Workers \ {w} : worker'[v] = worker[v]
  BY <1>3, AskStep
<1>5. back' = back \o Held(q) /\ UNCHANGED <<free, lost, rxRing, txRing, dist, inbox, older>>
  BY <1>3 DEF WorkerAsk
<1> HIDE DEF out
<1>6. Held(worker'[w].queue) = <<>>
  BY <1>3, <1>4, Zenon
<1>7. /\ Content(Of("queue", w)) = Held(q) /\ Content(Of("queue", w))' = <<>>
      /\ Content(At("back")) = back /\ Content(At("back"))' = back'
      /\ Of("queue", w) \in Containers /\ At("back") \in Containers
  BY <1>6, View, ViewNext, PlaceNames
<1>8. \A p \in Containers \ {Of("queue", w), At("back")} : Content(p)' = Content(p)
  <2>1. ASSUME NEW p \in Places, p # Of("queue", w), p # At("back") PROVE Same(p)
    <3>1. \A n \in {"free", "lost", "rxRing", "dist", "txRing"} : Same(At(n))
      BY <1>5, SameAt
    <3>2. \A v \in Workers : Same(Of("inbox", v)) /\ Same(Of("batch", v))
      <4>1. \A v \in Workers : worker'[v].batch = worker[v].batch /\ inbox'[v] = inbox[v]
        BY <1>4, <1>5, Zenon
      <4>2. QED BY <4>1, SameAt, Zenon
    <3>3. \A v \in Workers \ {w} : Same(Of("queue", v))
      <4>1. \A v \in Workers \ {w} : Held(worker'[v].queue) = Held(worker[v].queue)
        BY <1>4, Zenon
      <4>2. QED BY <4>1, SameAt, Zenon
    <3>4. QED BY <2>1, <3>1, <3>2, <3>3, PlaceCases
  <2>2. QED BY <2>1, PlaceNames DEF Same
<1>9. OlderInside'
  <2>1. Inside \subseteq Inside'
    BY <1>5 DEF Inside
  <2>2. QED BY <1>5, <2>1, InsideKept
<1> HIDE DEF q
<1>10. Alone(At("back"), Held(q))
  BY Ranks, RankRange DEF Alone
<1>11. Handed(Of("queue", w), At("back"), Held(q), <<>>, <<>>)
  <2>1. Held(q) = (Held(q) \o <<>>) \o <<>>
    BY <1>1
  <2>2. QED BY <1>5, <1>7, <1>8, <2>1 DEF Handed
<1>12. Rank(At("back")) = Rank(Of("queue", w)) + 1 /\ <<>> \in Seq(Bufs)
  BY Ranks
<1>13. Ordered'
  BY <1>1, <1>5, <1>7, <1>10, <1>11, <1>12, OrderShift
<1>14. QED BY <1>9, <1>13

LEMMA OrderTake ==
  ASSUME Fields, Loops, OnePlace, OrderInv, NEW w \in Workers, WorkerTake(w)
  PROVE  OlderInside' /\ Ordered'
<1> DEFINE q == worker[w].queue
           out == get_pkt_to_tx(q, TX_QUEUE_SIZE)
<1>1. /\ q \in Queue /\ Queued(q) = 0 /\ worker[w].batch = <<>>
      /\ inbox[w] \in Seq(Bufs) /\ back \in Seq(Bufs)
  BY WorkerFields DEF WorkerTake, Loops, Fits, Fields
<1>2. Queued(q) <= TX_QUEUE_SIZE /\ TX_QUEUE_SIZE \in Nat
  BY <1>1, Sizes
<1>3. out.pkts = Held(q) /\ out.queue \in Queue /\ Held(out.queue) = <<>>
  BY <1>1, <1>2, Emptied
<1>4. Held(q) = <<>>
  BY <1>1, QueueFacts
<1>5. /\ worker'[w].batch = inbox[w] /\ worker'[w].queue = out.queue
      /\ \A v \in Workers \ {w} : worker'[v] = worker[v]
  BY <1>3, TakeStep
<1>6. /\ back' = back /\ UNCHANGED <<free, lost, rxRing, txRing, dist, older>>
      /\ inbox'[w] = <<>> /\ \A v \in Workers \ {w} : inbox'[v] = inbox[v]
  <2>1. back' = back \o <<>>
    BY <1>3, <1>4 DEF WorkerTake
  <2>2. /\ UNCHANGED <<free, lost, rxRing, txRing, dist, older>>
        /\ inbox'[w] = <<>> /\ \A v \in Workers \ {w} : inbox'[v] = inbox[v]
    BY DEF WorkerTake, Fields
  <2>3. QED BY <1>1, <2>1, <2>2
<1> HIDE DEF out
<1>7. Held(worker'[w].queue) = Held(worker[w].queue)
  BY <1>3, <1>4, <1>5, Zenon
<1> HIDE DEF q
<1>8. /\ Content(Of("inbox", w)) = inbox[w] /\ Content(Of("inbox", w))' = <<>>
      /\ Content(Of("batch", w)) = <<>> /\ Content(Of("batch", w))' = inbox[w]
      /\ Of("inbox", w) \in Containers /\ Of("batch", w) \in Containers
  BY <1>1, <1>5, <1>6, View, ViewNext, PlaceNames
<1>9. \A p \in Containers \ {Of("inbox", w), Of("batch", w)} : Content(p)' = Content(p)
  <2>1. \A v \in Workers : Held(worker'[v].queue) = Held(worker[v].queue)
    BY <1>5, <1>7, Zenon
  <2>2. \A v \in Workers \ {w} : worker'[v].batch = worker[v].batch
    BY <1>5
  <2>3. \A p \in Places \ {Of("inbox", w), Of("batch", w)} : Same(p)
    BY <1>6, <2>1, <2>2, PlaceCases, SameAt
  <2>4. QED BY <2>3, PlaceNames DEF Same
<1>10. OlderInside'
  <2>1. Inside \subseteq Inside'
    BY <1>6 DEF Inside
  <2>2. QED BY <1>6, <2>1, InsideKept DEF OrderInv
<1>11. Alone(Of("batch", w), inbox[w])
  <2>1. ASSUME NEW o \in older, NEW p \in Containers, o[1] \in ToSet(Content(p)),
               o[2] \in ToSet(inbox[w]), Rank(p) = Rank(Of("batch", w))
        PROVE  p = Of("batch", w)
    <3>1. PICK v \in Workers : p = Of("batch", v)
      BY <2>1, Ranks, RankRange
    <3>2. o[1] \in ToSet(worker[v].batch)
      BY <2>1, <3>1, View
    <3>3. v = w
      BY <2>1, <3>2, SameWorker DEF OrderInv
    <3>4. QED BY <3>1, <3>3
  <2>2. QED BY <2>1 DEF Alone
<1>12. Handed(Of("inbox", w), Of("batch", w), inbox[w], <<>>, <<>>)
  <2>1. inbox[w] = (inbox[w] \o <<>>) \o <<>> /\ inbox[w] = <<>> \o inbox[w]
    BY <1>1
  <2>2. QED BY <1>8, <1>9, <2>1 DEF Handed
<1>13. Rank(Of("batch", w)) = Rank(Of("inbox", w)) + 1 /\ <<>> \in Seq(Bufs)
  BY Ranks
<1>14. Ordered'
  BY <1>1, <1>6, <1>8, <1>11, <1>12, <1>13, OrderShift DEF OrderInv
<1>15. QED BY <1>10, <1>14

LEMMA OrderReply ==
  ASSUME Fields, Loops, OnePlace, OrderInv, NEW w \in Workers, WorkerReply(w)
  PROVE  OlderInside' /\ Ordered'
<1> DEFINE q == worker[w].queue
           b == Head(worker[w].batch)
           r == queue_pkt_to_tx(q, b)
<1>1. /\ Processed(w, r) /\ free' = free
      /\ Lose(IF QueueFull(q) THEN {b} ELSE {})
  BY DEF WorkerReply
<1>2. ~QueueFull(q)
  BY <1>1, Room DEF QueueNeverFull, Processed
<1>3. lost' = lost /\ Leave({})
  <2>1. Lose({})
    BY <1>1, <1>2
  <2>2. QED BY <2>1 DEF Lose
<1>4. UNCHANGED <<rxRing, txRing, dist, inbox, back>>
  BY <1>1 DEF Processed
<1>5. /\ worker[w].batch \in Seq(Bufs) /\ worker[w].batch # <<>>
      /\ q \in Queue /\ Held(q) \in Seq(Bufs)
  BY <1>1, WorkerFields DEF Processed, Loops, Fits
<1>6. b \in Bufs /\ Tail(worker[w].batch) \in Seq(Bufs)
      /\ worker[w].batch = <<b>> \o Tail(worker[w].batch)
  BY <1>5, HeadTail, HeadAndTail
<1> HIDE DEF b
<1>7. r \in Queue /\ Held(r) = Append(Held(q), b)
  BY <1>2, <1>5, <1>6, QueuedOne
<1> HIDE DEF r
<1>8. /\ worker'[w].batch = Tail(worker[w].batch) /\ worker'[w].queue = r
      /\ \A v \in Workers \ {w} : worker'[v] = worker[v]
  BY <1>1, <1>5, <1>7, ProcessedStep
<1>9. Held(worker'[w].queue) = Held(q) \o <<b>>
  <2>1. Held(worker'[w].queue) = Append(Held(q), b)
    BY <1>7, <1>8, Zenon
  <2>2. QED BY <1>5, <1>6, <2>1
<1>10. OlderInside' /\ older' \subseteq older
  <2>1. Inside \ {} \subseteq Inside'
    BY <1>1, <1>3 DEF Inside
  <2>2. QED BY <1>3, <2>1, InsideLeft DEF OrderInv
<1>11. /\ Content(Of("batch", w)) = worker[w].batch
       /\ Content(Of("batch", w))' = Tail(worker[w].batch)
       /\ Content(Of("queue", w)) = Held(q) /\ Content(Of("queue", w))' = Held(q) \o <<b>>
       /\ Of("batch", w) \in Containers /\ Of("queue", w) \in Containers
  BY <1>8, <1>9, View, ViewNext, PlaceNames
<1>12. \A p \in Containers \ {Of("batch", w), Of("queue", w)} : Content(p)' = Content(p)
  <2>1. \A v \in Workers \ {w} : /\ worker'[v].batch = worker[v].batch
                                  /\ Held(worker'[v].queue) = Held(worker[v].queue)
    BY <1>8
  <2>2. \A p \in Places \ {Of("batch", w), Of("queue", w)} : Same(p)
    BY <1>1, <1>3, <1>4, <2>1, PlaceCases, SameAt
  <2>3. QED BY <2>2, PlaceNames DEF Same
<1>13. Alone(Of("queue", w), <<b>>)
  <2>1. ToSet(<<b>>) = {b} /\ b \in ToSet(worker[w].batch)
    <3>1. ToSet(<<b>>) = {b}
      BY DEF ToSet
    <3>2. b \in ToSet(worker[w].batch)
      BY <1>5, HeadTail DEF b
    <3>3. QED BY <3>1, <3>2
  <2>2. ASSUME NEW o \in older, NEW p \in Containers, o[1] \in ToSet(Content(p)),
               o[2] = b, Rank(p) = Rank(Of("queue", w))
        PROVE  p = Of("queue", w)
    <3>1. PICK v \in Workers : p = Of("queue", v)
      BY <2>2, Ranks, RankRange
    <3>2. o[1] \in ToSet(Held(worker[v].queue)) /\ o[2] \in ToSet(worker[w].batch)
      BY <2>1, <2>2, <3>1, View
    <3>3. v = w
      BY <3>2, SameWorker DEF OrderInv
    <3>4. QED BY <3>1, <3>3
  <2>3. QED BY <2>1, <2>2 DEF Alone
<1>14. Handed(Of("batch", w), Of("queue", w), <<b>>, <<>>, Tail(worker[w].batch))
  <2>1. worker[w].batch = (<<b>> \o <<>>) \o Tail(worker[w].batch)
    BY <1>6
  <2>2. QED BY <1>11, <1>12, <2>1 DEF Handed
<1>15. /\ Rank(Of("queue", w)) = Rank(Of("batch", w)) + 1
       /\ <<>> \in Seq(Bufs) /\ <<b>> \in Seq(Bufs)
  BY <1>6, Ranks
<1>16. Ordered'
  BY <1>6, <1>10, <1>11, <1>13, <1>14, <1>15, OrderShift DEF OrderInv
<1>17. QED BY <1>10, <1>16

LEMMA OrderGone ==
  ASSUME Fields, Loops, OnePlace, OlderInside, Ordered, NEW w \in Workers,
         WorkerDrop(w) \/ WorkerKeep(w)
  PROVE  OlderInside' /\ Ordered'
<1> DEFINE q == worker[w].queue
           b == Head(worker[w].batch)
           rest == Tail(worker[w].batch)
<1>1. /\ Processed(w, q) /\ Leave({b})
      /\ free' \union lost' = free \union lost \union {b}
  BY DEF WorkerDrop, WorkerKeep, Release, Lose
<1>2. UNCHANGED <<rxRing, txRing, dist, inbox, back>>
  BY <1>1 DEF Processed
<1>3. worker[w].batch \in Seq(Bufs) /\ worker[w].batch # <<>> /\ q \in Queue
  BY <1>1, WorkerFields DEF Processed, Loops, Fits
<1>4. /\ worker'[w].batch = rest /\ worker'[w].queue = q
      /\ \A v \in Workers \ {w} : worker'[v] = worker[v]
  BY <1>1, <1>3, ProcessedStep
<1>5. /\ rest \in Seq(Bufs) /\ <<b>> \in Seq(Bufs) /\ worker[w].batch = <<b>> \o rest
      /\ ToSet(rest) \subseteq ToSet(worker[w].batch)
  BY <1>3, HeadTail, HeadAndTail
<1> HIDE DEF b, rest
<1>6. OlderInside' /\ older' \subseteq older
  <2>1. Inside \ {b} \subseteq Inside'
    BY <1>1 DEF Inside
  <2>2. QED BY <1>1, <2>1, InsideLeft
<1>7. /\ Content(Of("batch", w)) = worker[w].batch /\ Content(Of("batch", w))' = rest
      /\ Of("batch", w) \in Containers
  BY <1>4, View, ViewNext, PlaceNames
<1>8. \A p \in Containers \ {Of("batch", w)} : Content(p)' = Content(p)
  <2>1. \A v \in Workers : Held(worker'[v].queue) = Held(worker[v].queue)
    BY <1>4, Zenon
  <2>2. \A v \in Workers \ {w} : worker'[v].batch = worker[v].batch
    BY <1>4
  <2>3. \A p \in Places \ {Of("batch", w), At("free"), At("lost")} : Same(p)
    BY <1>2, <2>1, <2>2, PlaceCases, SameAt
  <2>4. At("free") \notin Containers /\ At("lost") \notin Containers
    BY DEF Containers, At
  <2>5. QED BY <2>3, <2>4, PlaceNames DEF Same
<1>9. IsInjective(<<b>> \o rest)
  BY <1>5, <1>7 DEF OnePlace
<1>10. ASSUME NEW c, NEW d, Before(worker[w].batch, c, d), c \in ToSet(rest), d \in ToSet(rest)
       PROVE  Before(rest, c, d)
  <2>1. Before(<<b>> \o rest, c, d)
    BY <1>5, <1>10
  <2>2. QED BY <1>5, <1>9, <1>10, <2>1, BeforeParts
<1>11. \A p \in Containers : \A c \in Inside :
         c \in ToSet(Content(p)') => c \in ToSet(Content(p))
  BY <1>5, <1>7, <1>8
<1>12. \A p \in Containers : \A c, d \in Inside :
         /\ Before(Content(p), c, d)
         /\ c \in ToSet(Content(p)') /\ d \in ToSet(Content(p)')
         => Before(Content(p)', c, d)
  <2> SUFFICES ASSUME NEW p \in Containers, NEW c \in Inside, NEW d \in Inside,
                      Before(Content(p), c, d),
                      c \in ToSet(Content(p)'), d \in ToSet(Content(p)')
               PROVE  Before(Content(p)', c, d)
    OBVIOUS
  <2>1. CASE p = Of("batch", w)
    <3>1. Before(worker[w].batch, c, d) /\ c \in ToSet(rest) /\ d \in ToSet(rest)
      BY <1>7, <2>1
    <3>2. Before(rest, c, d)
      BY <1>10, <3>1, Zenon
    <3>3. QED BY <1>7, <2>1, <3>2
  <2>2. CASE p # Of("batch", w)
    BY <1>8, <2>2
  <2>3. QED BY <2>1, <2>2
<1>13. Ordered'
  BY <1>6, <1>11, <1>12, OrderKept
<1>14. QED BY <1>6, <1>13

LEMMA OrderUnmoved ==
  ASSUME Fields, OnePlace, OlderInside, Ordered,
         \/ RxArpReply \/ RxForget \/ RxEnds \/ DistEnds \/ TxEnds \/ Terminate
         \/ UNCHANGED vars \/ \E w \in Workers : WorkerEnds(w)
  PROVE  OlderInside' /\ Ordered'
<1>1. /\ UNCHANGED <<rxRing, txRing, inbox, back, older>>
      /\ free' \union lost' = free \union lost
      /\ dist'.pkts = dist.pkts
      /\ \A v \in Workers : worker'[v].batch = worker[v].batch
                            /\ worker'[v].queue = worker[v].queue
  <2>1. CASE RxEnds \/ TxEnds \/ Terminate \/ UNCHANGED vars
    BY <2>1 DEF RxEnds, TxEnds, Terminate, vars
  <2>2. CASE DistEnds
    <3>1. dist' = [dist EXCEPT !.pc = "ended"]
      BY <2>2 DEF DistEnds
    <3>2. dist'.pkts = dist.pkts
      BY <3>1 DEF Fields
    <3>3. QED BY <2>2, <3>2 DEF DistEnds
  <2>3. ASSUME NEW w \in Workers, WorkerEnds(w)
        PROVE  /\ UNCHANGED <<free, lost, rxRing, txRing, inbox, back, dist, older>>
               /\ \A v \in Workers : worker'[v].batch = worker[v].batch
                                     /\ worker'[v].queue = worker[v].queue
    <3>1. /\ worker'[w].batch = worker[w].batch /\ worker'[w].queue = worker[w].queue
          /\ \A v \in Workers \ {w} : worker'[v] = worker[v]
      BY <2>3, EndsStep
    <3>2. QED BY <2>3, <3>1 DEF WorkerEnds
  <2>4. CASE RxArpReply \/ RxForget
    <3>1. PICK G \in SUBSET free : free' = free \ G /\ lost' = lost \union G
      BY <2>4 DEF RxArpReply, RxForget
    <3>2. free' \union lost' = free \union lost
      BY <3>1
    <3>3. QED BY <2>4, <3>2 DEF RxArpReply, RxForget
  <2>5. QED BY <2>1, <2>2, <2>3, <2>4
<1>2. \A v \in Workers : Held(worker'[v].queue) = Held(worker[v].queue)
  BY <1>1, Zenon
<1>3. \A p \in Containers : Content(p)' = Content(p)
  <2>1. \A p \in Places \ {At("free"), At("lost")} : Same(p)
    BY <1>1, <1>2, PlaceCases, SameAt
  <2>2. At("free") \notin Containers /\ At("lost") \notin Containers
    BY DEF Containers, At
  <2>3. QED BY <2>1, <2>2, PlaceNames DEF Same
<1>4. OlderInside'
  <2>1. Inside \subseteq Inside'
    BY <1>1 DEF Inside
  <2>2. QED BY <1>1, <2>1, InsideKept
<1>5. Ordered'
  BY <1>1, <1>3, OrderKept
<1>6. QED BY <1>4, <1>5

-----------------------------------------------------------------------------
(* What a worker is at work on.                                            *)
LEMMA TagsStep ==
  ASSUME Fields, NEW w \in Workers
  PROVE  /\ WorkerAsk(w) => worker'[w].tags = {}
         /\ WorkerTake(w) => worker'[w].tags = {flow[b] : b \in ToSet(inbox[w])}
         /\ \A q \in Queue : Processed(w, q) => worker'[w].tags = worker[w].tags
         /\ WorkerEnds(w) => worker'[w].tags = worker[w].tags
<1>1. worker \in [Workers -> WorkerRecord]
  BY DEF Fields
<1>2. ASSUME WorkerAsk(w) PROVE worker'[w].tags = {}
  <2> DEFINE out == get_pkt_to_tx(worker[w].queue, MAX_PKT_PER_TX)
  <2>1. worker' = [worker EXCEPT ![w].pc = "wait", ![w].tags = {}, ![w].queue = out.queue]
    BY <1>2 DEF WorkerAsk
  <2> HIDE DEF out
  <2>2. QED BY <1>1, <2>1 DEF WorkerRecord
<1>3. ASSUME WorkerTake(w)
      PROVE  worker'[w].tags = {flow[b] : b \in ToSet(inbox[w])}
  <2> DEFINE out == get_pkt_to_tx(worker[w].queue, TX_QUEUE_SIZE)
             tags == {flow[b] : b \in ToSet(inbox[w])}
             pc == IF inbox[w] = <<>> THEN "top" ELSE "work"
  <2>1. worker' = [worker EXCEPT ![w].pc = pc, ![w].batch = inbox[w], ![w].tags = tags,
                                 ![w].queue = out.queue]
    BY <1>3 DEF WorkerTake
  <2> HIDE DEF out, tags, pc
  <2>2. worker'[w].tags = tags
    BY <1>1, <2>1 DEF WorkerRecord
  <2>3. QED BY <2>2 DEF tags
<1>4. ASSUME NEW q \in Queue, Processed(w, q) PROVE worker'[w].tags = worker[w].tags
  BY <1>1, <1>4 DEF Processed, WorkerRecord
<1>5. ASSUME WorkerEnds(w) PROVE worker'[w].tags = worker[w].tags
  BY <1>1, <1>5 DEF WorkerEnds, WorkerRecord
<1>6. QED BY <1>2, <1>3, <1>4, <1>5

With(w) == ToSet(worker[w].batch) \union ToSet(Held(worker[w].queue))

LEMMA WorkKept ==
  ASSUME OneAtWork, Tagged,
         \A v \in Workers : /\ worker'[v].tags = worker[v].tags
                            /\ inbox'[v] = inbox[v]
                            /\ With(v)' \subseteq With(v)
  PROVE  OneAtWork' /\ Tagged'
<1>1. \A v \in Workers : \A f : Busy(v, f)' <=> Busy(v, f)
  BY DEF Busy
<1>2. OneAtWork'
  BY <1>1 DEF OneAtWork
<1>3. ASSUME NEW v \in Workers, NEW b \in With(v)' PROVE flow[b] \in worker'[v].tags
  BY <1>3 DEF Tagged, With
<1>4. Tagged'
  BY <1>3 DEF Tagged, With
<1>5. QED BY <1>2, <1>4

(* One worker's step: it is at work on nothing new, and what is with it    *)
(* afterwards is tagged.                                                   *)
LEMMA WorkOne ==
  ASSUME OneAtWork, Tagged, NEW w \in Workers,
         \A v \in Workers \ {w} : worker'[v] = worker[v] /\ inbox'[v] = inbox[v],
         \A f \in Range(flow) : Busy(w, f)' => Busy(w, f),
         \A b \in With(w)' : flow[b] \in worker'[w].tags
  PROVE  OneAtWork' /\ Tagged'
<1>1. \A v \in Workers : \A f \in Range(flow) : Busy(v, f)' => Busy(v, f)
  <2>1. \A v \in Workers \ {w} : \A f : Busy(v, f)' => Busy(v, f)
    BY DEF Busy
  <2>2. QED BY <2>1
<1>2. OneAtWork'
  BY <1>1 DEF OneAtWork
<1>3. ASSUME NEW v \in Workers, NEW b \in With(v)' PROVE flow[b] \in worker'[v].tags
  <2>1. CASE v = w
    BY <1>3, <2>1
  <2>2. CASE v # w
    <3>1. b \in With(v)
      BY <1>3, <2>2 DEF With
    <3>2. QED BY <2>2, <3>1 DEF Tagged, With
  <2>3. QED BY <2>1, <2>2
<1>4. Tagged'
  BY <1>3 DEF Tagged, With
<1>5. QED BY <1>2, <1>4

LEMMA WorkGive ==
  ASSUME Fields, OneAtWork, Tagged, NEW w \in Workers, DistGive(w)
  PROVE  OneAtWork' /\ Tagged'
<1> DEFINE b == Head(dist.pkts)
<1>1. dist.pkts \in Seq(Bufs) /\ dist.pkts # <<>> /\ inbox[w] \in Seq(Bufs)
  BY DEF DistGive, Fields
<1>2. b \in Bufs
  BY <1>1, HeadTail
<1>3. /\ inbox'[w] = Append(inbox[w], b) /\ \A v \in Workers \ {w} : inbox'[v] = inbox[v]
      /\ UNCHANGED worker
      /\ (\E v \in Workers : Busy(v, flow[b])) => Busy(w, flow[b])
  BY DEF DistGive, Fields
<1> HIDE DEF b
<1>4. ToSet(inbox'[w]) = ToSet(inbox[w]) \union {b}
  BY <1>1, <1>2, <1>3, Appended
<1>5. ASSUME NEW v \in Workers, NEW f, Busy(v, f)'
      PROVE  Busy(v, f) \/ (v = w /\ f = flow[b])
  <2>1. CASE v = w
    BY <1>3, <1>4, <1>5, <2>1 DEF Busy
  <2>2. CASE v # w
    BY <1>3, <1>5, <2>2 DEF Busy
  <2>3. QED BY <2>1, <2>2
<1>6. ASSUME NEW u \in Workers, NEW v \in Workers, NEW f \in Range(flow),
             Busy(u, f)', Busy(v, f)'
      PROVE  u = v
  <2>1. CASE Busy(u, f) /\ Busy(v, f)
    BY <2>1 DEF OneAtWork
  <2>2. CASE Busy(u, f) /\ v = w /\ f = flow[b]
    BY <1>3, <2>2 DEF OneAtWork
  <2>3. CASE Busy(v, f) /\ u = w /\ f = flow[b]
    BY <1>3, <2>3 DEF OneAtWork
  <2>4. QED BY <1>5, <1>6, <2>1, <2>2, <2>3
<1>7. OneAtWork'
  BY <1>6 DEF OneAtWork
<1>8. Tagged'
  BY <1>3 DEF Tagged
<1>9. QED BY <1>7, <1>8

LEMMA WorkAsk ==
  ASSUME Fields, Loops, OneAtWork, Tagged, NEW w \in Workers, WorkerAsk(w)
  PROVE  OneAtWork' /\ Tagged'
<1> DEFINE q == worker[w].queue
           out == get_pkt_to_tx(q, MAX_PKT_PER_TX)
<1>1. /\ q \in Queue /\ Queued(q) <= DIST_BURST /\ worker[w].batch = <<>>
  BY WorkerFields DEF WorkerAsk, Loops, Fits
<1>2. Queued(q) <= MAX_PKT_PER_TX /\ MAX_PKT_PER_TX \in Nat
  <2>1. Queued(q) \in 0 .. TX_QUEUE_SIZE - 1
    BY <1>1, QueueFields
  <2>2. QED BY <1>1, <2>1, Sizes
<1>3. out.queue \in Queue /\ Held(out.queue) = <<>>
  BY <1>1, <1>2, Emptied
<1>4. /\ worker'[w].batch = worker[w].batch /\ worker'[w].queue = out.queue
      /\ \A v \in Workers \ {w} : worker'[v] = worker[v]
  BY <1>3, AskStep
<1>5. inbox' = inbox /\ worker'[w].tags = {}
  BY TagsStep DEF WorkerAsk
<1> HIDE DEF out, q
<1>6. Held(worker'[w].queue) = <<>>
  BY <1>3, <1>4, Zenon
<1>7. With(w)' = {}
  BY <1>1, <1>4, <1>6 DEF With, ToSet
<1>8. \A f : Busy(w, f)' => Busy(w, f)
  BY <1>5 DEF Busy
<1>9. QED BY <1>4, <1>5, <1>7, <1>8, WorkOne

LEMMA WorkTake ==
  ASSUME Fields, Loops, OneAtWork, Tagged, NEW w \in Workers, WorkerTake(w)
  PROVE  OneAtWork' /\ Tagged'
<1> DEFINE q == worker[w].queue
           out == get_pkt_to_tx(q, TX_QUEUE_SIZE)
<1>1. /\ q \in Queue /\ Queued(q) = 0
  BY WorkerFields DEF WorkerTake, Loops, Fits
<1>2. Queued(q) <= TX_QUEUE_SIZE /\ TX_QUEUE_SIZE \in Nat
  BY <1>1, Sizes
<1>3. out.queue \in Queue /\ Held(out.queue) = <<>>
  BY <1>1, <1>2, Emptied
<1>4. /\ worker'[w].batch = inbox[w] /\ worker'[w].queue = out.queue
      /\ \A v \in Workers \ {w} : worker'[v] = worker[v]
  BY <1>3, TakeStep
<1>5. /\ inbox'[w] = <<>> /\ \A v \in Workers \ {w} : inbox'[v] = inbox[v]
      /\ worker'[w].tags = {flow[b] : b \in ToSet(inbox[w])}
  BY TagsStep DEF WorkerTake, Fields
<1> HIDE DEF out, q
<1>6. Held(worker'[w].queue) = <<>>
  BY <1>3, <1>4, Zenon
<1>7. With(w)' = ToSet(inbox[w])
  BY <1>4, <1>6 DEF With, ToSet
<1>8. ToSet(inbox'[w]) = {}
  BY <1>5 DEF ToSet
<1>9. \A f : Busy(w, f)' => Busy(w, f)
  BY <1>5, <1>8 DEF Busy
<1>10. QED BY <1>4, <1>5, <1>7, <1>9, WorkOne

LEMMA WorkProcess ==
  ASSUME Fields, Loops, OneAtWork, Tagged, NEW w \in Workers,
         WorkerDrop(w) \/ WorkerKeep(w) \/ WorkerReply(w)
  PROVE  OneAtWork' /\ Tagged'
<1> DEFINE q == worker[w].queue
           b == Head(worker[w].batch)
<1>1. PICK r : Processed(w, r) /\ (r = q \/ r = queue_pkt_to_tx(q, b))
  BY DEF WorkerDrop, WorkerKeep, WorkerReply
<1>2. /\ worker[w].batch \in Seq(Bufs) /\ worker[w].batch # <<>>
      /\ q \in Queue /\ Held(q) \in Seq(Bufs)
  BY <1>1, WorkerFields DEF Processed, Loops, Fits
<1>3. ~QueueFull(q)
  BY <1>1, Room DEF QueueNeverFull, Processed
<1>4. /\ b \in Bufs /\ b \in ToSet(worker[w].batch)
      /\ ToSet(Tail(worker[w].batch)) \subseteq ToSet(worker[w].batch)
  BY <1>2, HeadTail
<1> HIDE DEF b
<1>5. r \in Queue /\ ToSet(Held(r)) \subseteq ToSet(Held(q)) \union {b}
  <2>1. CASE r = q
    BY <1>2, <2>1
  <2>2. CASE r = queue_pkt_to_tx(q, b)
    <3>1. r \in Queue /\ Held(r) = Append(Held(q), b)
      BY <1>2, <1>3, <1>4, <2>2, QueuedOne
    <3>2. ToSet(Append(Held(q), b)) = ToSet(Held(q)) \union {b}
      BY <1>2, <1>4, Appended
    <3>3. QED BY <3>1, <3>2
  <2>3. QED BY <1>1, <2>1, <2>2
<1>6. /\ worker'[w].batch = Tail(worker[w].batch) /\ worker'[w].queue = r
      /\ \A v \in Workers \ {w} : worker'[v] = worker[v]
  BY <1>1, <1>2, <1>5, ProcessedStep
<1>7. worker'[w].tags = worker[w].tags /\ inbox' = inbox
  BY <1>1, <1>5, TagsStep DEF Processed
<1>8. Held(worker'[w].queue) = Held(r)
  BY <1>6, Zenon
<1>9. With(w)' \subseteq With(w)
  BY <1>4, <1>5, <1>6, <1>8 DEF With
<1>10. \A v \in Workers \ {w} : With(v)' = With(v)
  BY <1>6 DEF With
<1>11. QED BY <1>6, <1>7, <1>9, <1>10, WorkKept

LEMMA WorkNext ==
  ASSUME Fields, Loops, OneAtWork, Tagged, [Next]_vars
  PROVE  OneAtWork' /\ Tagged'
<1>1. ASSUME UNCHANGED <<worker, inbox>> PROVE OneAtWork' /\ Tagged'
  BY <1>1, WorkKept DEF With
<1>2. CASE \/ RxLoop \/ ArpRequest \/ TxLoop \/ Terminate \/ DistPoll \/ DistReturn \/ DistEnds
           \/ UNCHANGED vars
  BY <1>1, <1>2 DEF RxLoop, RxBurst, RxArpReply, RxForget, RxEnds, ArpRequest, TxLoop, TxBurst,
                    TxEnds, Terminate, DistPoll, DistReturn, DistEnds, vars
<1>3. ASSUME NEW w \in Workers, WorkerEnds(w) PROVE OneAtWork' /\ Tagged'
  <2>1. /\ worker'[w].batch = worker[w].batch /\ worker'[w].queue = worker[w].queue
        /\ \A v \in Workers \ {w} : worker'[v] = worker[v]
    BY <1>3, EndsStep
  <2>2. worker'[w].tags = worker[w].tags /\ inbox' = inbox
    BY <1>3, TagsStep DEF WorkerEnds
  <2>3. \A v \in Workers : With(v)' = With(v)
    BY <2>1 DEF With
  <2>4. QED BY <2>1, <2>2, <2>3, WorkKept
<1>4. QED
  BY <1>2, <1>3, WorkGive, WorkAsk, WorkTake, WorkProcess DEF Next, DistLoop, WorkerLoop

-----------------------------------------------------------------------------
(* Together.                                                               *)
LEMMA OrderInit == Init => OrderInv
<1> SUFFICES ASSUME Init PROVE OrderInv
  OBVIOUS
<1>1. older = {} /\ \A w \in Workers : /\ worker[w].batch = <<>> /\ worker[w].tags = {}
                                       /\ worker[w].queue = EmptyQueue /\ inbox[w] = <<>>
  BY DEF Init
<1>2. Held(EmptyQueue) = <<>>
  <2>1. EmptyQueue \in Queue /\ EmptyQueue.head = 0 /\ EmptyQueue.tail = 0
    BY Sizes DEF EmptyQueue, Queue, Index
  <2>2. Queued(EmptyQueue) = 0
    BY <2>1, QueueFields
  <2>3. QED BY <2>1, <2>2, QueueFacts
<1>3. \A w \in Workers : ToSet(worker[w].batch) \union ToSet(Held(worker[w].queue)) = {}
  BY <1>1, <1>2 DEF ToSet
<1>4. \A w \in Workers : ToSet(inbox[w]) = {}
  BY <1>1 DEF ToSet
<1>5. QED
  BY <1>1, <1>3, <1>4 DEF OrderInv, OlderInside, Ordered, OneAtWork, Tagged, Busy

LEMMA OrderNext == DatapathInv /\ OrderInv /\ [Next]_vars => OrderInv'
<1> SUFFICES ASSUME DatapathInv, OrderInv, [Next]_vars PROVE OrderInv'
  OBVIOUS
<1>1. /\ Fields /\ Loops /\ OnePlace
      /\ OlderInside /\ Ordered /\ OneAtWork /\ Tagged
  BY DEF DatapathInv, OrderInv
<1>2. OneAtWork' /\ Tagged'
  BY <1>1, WorkNext
<1>3. OlderInside' /\ Ordered'
  BY <1>1, OrderRx, OrderArp, OrderTx, OrderPoll, OrderGive, OrderReturn, OrderAsk, OrderTake,
     OrderReply, OrderGone, OrderUnmoved
     DEF Next, RxLoop, DistLoop, TxLoop, WorkerLoop
<1>4. QED BY <1>2, <1>3 DEF OrderInv

(* Of two packets of one flow the older one is always further on, and a    *)
(* flow is with one worker at a time, whichever that is.                   *)
THEOREM OlderFurtherOn == Spec => []OrderInv
BY InvInit, OrderInit, InvNext, OrderNext, PTL DEF Spec

(* What has left the transmit ring.                                        *)
LEMMA LeavesInOrder ==
  ASSUME DatapathInv, OrderInv, [Next]_vars, NEW o \in older,
         o[2] \in ToSet(txRing) \ ToSet(txRing')
  PROVE  o[1] \in free' \union lost'
<1>1. Fields /\ Loops /\ OnePlace /\ OlderInside /\ Ordered
  BY DEF DatapathInv, OrderInv
<1>2. CASE TxBurst
  <2> DEFINE first == FirstOf(txRing, TX_BURST_SIZE)
             b == o[1]
             c == o[2]
  <2>1. txRing' = AllBut(txRing, TX_BURST_SIZE) /\ free' = free \union ToSet(first)
    BY <1>2 DEF TxBurst, Release
  <2>2. txRing \in Seq(Bufs) /\ TX_BURST_SIZE \in Nat
    BY <1>1, Sizes DEF Fields
  <2>3. /\ txRing = first \o txRing' /\ first \in Seq(Bufs) /\ txRing' \in Seq(Bufs)
        /\ ToSet(txRing) = ToSet(first) \union ToSet(txRing')
    BY <2>1, <2>2, FirstAndRest, Split
  <2> HIDE DEF first
  <2>4. b \in Bufs /\ b \in Inside /\ Ahead(b, c)
    BY <1>1 DEF OlderInside, Inside, Ordered
  <2> HIDE DEF b, c
  <2>5. PICK p \in Places : b \in BufsAt(p)
    BY <1>1, <2>4 DEF OnePlace
  <2>6. p \in Containers
    <3>1. p # At("free") /\ p # At("lost")
      BY <2>4, <2>5, View DEF Inside
    <3>2. QED BY <3>1, PlaceCases, PlaceNames
  <2>7. b \in ToSet(Content(p))
    BY <2>5, <2>6, View
  <2>8. At("txRing") \in Containers /\ Content(At("txRing")) = txRing
    BY View, PlaceNames
  <2>9. c \in ToSet(first) /\ c \in ToSet(txRing)
    BY <2>3 DEF c
  <2>10. Rank(p) > Rank(At("txRing")) \/ (p = At("txRing") /\ Before(Content(p), b, c))
    BY <2>4, <2>6, <2>7, <2>8, <2>9, AheadOf
  <2>11. p = At("txRing") /\ Before(txRing, b, c)
    <3>1. Rank(p) \in 1 .. 7 /\ Rank(At("txRing")) = 7
      BY <2>6, Ranks, RankRange
    <3>2. QED BY <2>8, <2>10, <3>1
  <2>12. IsInjective(txRing)
    BY <1>1, <2>8 DEF OnePlace
  <2>13. Before(first \o txRing', b, c) /\ IsInjective(first \o txRing')
    BY <2>3, <2>11, <2>12
  <2>14. ~(b \in ToSet(txRing'))
    BY <2>3, <2>9, <2>13, BeforeParts
  <2>15. b \in ToSet(first)
    BY <2>3, <2>7, <2>8, <2>11, <2>14
  <2>16. QED BY <2>1, <2>15 DEF b
<1>3. CASE ~TxBurst
  <2>1. ASSUME UNCHANGED txRing PROVE FALSE
    BY <2>1
  <2>2. CASE ArpRequest
    <3>1. PICK b \in free : txRing' = Append(txRing, b)
      BY <2>2 DEF ArpRequest
    <3>2. ToSet(txRing) \subseteq ToSet(txRing')
      BY <1>1, <3>1, Appended DEF Fields
    <3>3. QED BY <3>2
  <2>3. CASE DistReturn
    <3> DEFINE pkts == FirstOf(back, TX_BURST_SIZE)
               room == TX_RING_SIZE - Len(txRing)
               sent == FirstOf(pkts, room)
    <3>1. txRing' = txRing \o sent
      BY <2>3 DEF DistReturn
    <3>2. txRing \in Seq(Bufs) /\ back \in Seq(Bufs) /\ TX_BURST_SIZE \in Nat /\ room \in Nat
      BY <1>1, Sizes DEF Fields
    <3> HIDE DEF room
    <3>3. pkts \in Seq(Bufs)
      BY <3>2, Split
    <3> HIDE DEF pkts
    <3>4. sent \in Seq(Bufs)
      BY <3>2, <3>3, Split
    <3> HIDE DEF sent
    <3>5. ToSet(txRing) \subseteq ToSet(txRing')
      BY <3>1, <3>2, <3>4, Joined
    <3>6. QED BY <3>5
  <2>4. CASE \/ RxLoop \/ TxEnds \/ Terminate \/ DistPoll \/ DistEnds \/ UNCHANGED vars
             \/ \E w \in Workers : DistGive(w) \/ WorkerLoop(w)
    BY <2>1, <2>4
       DEF RxLoop, RxBurst, RxArpReply, RxForget, RxEnds, TxEnds, Terminate, DistPoll,
           DistEnds, DistGive, WorkerLoop, WorkerAsk, WorkerTake, WorkerEnds, WorkerDrop,
           WorkerKeep, WorkerReply, Processed, vars
  <2>5. QED BY <1>3, <2>2, <2>3, <2>4 DEF Next, DistLoop, TxLoop
<1>4. QED BY <1>2, <1>3

(* For any number of workers and any sizes, packets of one flow leave in   *)
(* the order in which they were received: when one leaves the transmit     *)
(* ring, every older one of its flow that was still inside leaves with it  *)
(* or has left before.                                                     *)
THEOREM PacketsInOrder == Spec => InOrder
<1>1. DatapathInv /\ OrderInv /\ [Next]_vars
      => [\A p \in older :
            p[2] \in ToSet(txRing) \ ToSet(txRing') => p[1] \in free' \union lost']_vars
  BY LeavesInOrder
<1>2. QED BY <1>1, PipelineSafe, OlderFurtherOn, PTL DEF Spec, InOrder

-----------------------------------------------------------------------------
(* The fields the argument does not need.                                  *)
Flags == quit \in BOOLEAN /\ ended \subseteq {"rx", "tx"}

LEMMA FlagsNext ==
  ASSUME Flags, [Next]_vars
  PROVE  Flags'
<1>1. CASE RxEnds \/ TxEnds \/ Terminate
  BY <1>1 DEF Flags, RxEnds, TxEnds, Terminate
<1>2. CASE \/ RxBurst \/ RxArpReply \/ RxForget \/ ArpRequest \/ TxBurst \/ UNCHANGED vars
           \/ DistPoll \/ DistReturn \/ DistEnds \/ \E w \in Workers : DistGive(w)
  BY <1>2 DEF Flags, RxBurst, RxArpReply, RxForget, ArpRequest, TxBurst, vars, DistPoll,
              DistReturn, DistEnds, DistGive
<1>3. ASSUME NEW w \in Workers, WorkerLoop(w) PROVE Flags'
  BY <1>3 DEF Flags, WorkerLoop, WorkerAsk, WorkerTake, WorkerEnds, WorkerDrop, WorkerKeep,
              WorkerReply, Processed
<1>4. QED BY <1>1, <1>2, <1>3 DEF Next, RxLoop, DistLoop, TxLoop

(* Whatever the loops do, no ring exceeds its size and every field is what *)
(* it is declared to be.                                                   *)
THEOREM PipelineTyped == Spec => []TypeOK
<1>1. Init => Flags
  BY DEF Init, Flags
<1>2. Flags /\ [Next]_vars => Flags'
  BY FlagsNext
<1>3. ASSUME DatapathInv, OrderInv, Flags PROVE TypeOK
  <2>1. Fields /\ older \subseteq Bufs \X Bufs
    BY <1>3 DEF DatapathInv, OrderInv, OlderInside, Inside
  <2>2. dist.pc \in {"poll", "give", "ended"} /\ dist.pkts \in Seq(Bufs)
    BY <2>1 DEF Fields
  <2>3. \A w \in Workers :
          /\ worker[w].pc \in {"top", "wait", "work", "ended"}
          /\ worker[w].batch \in Seq(Bufs) /\ worker[w].tags \subseteq Range(flow)
          /\ worker[w].queue \in Queue
    BY <2>1 DEF Fields, WorkerRecord
  <2>4. QED BY <1>3, <2>1, <2>2, <2>3 DEF Fields, Flags, TypeOK
<1>4. DatapathInv /\ OrderInv /\ Flags => TypeOK
  BY <1>3
<1>5. QED BY <1>1, <1>2, <1>4, PipelineSafe, OlderFurtherOn, PTL DEF Spec

=============================================================================
