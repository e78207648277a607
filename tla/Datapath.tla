------------------------------ MODULE Datapath ------------------------------
(***************************************************************************)
(* The packet buffers on their way through the lcores: the receive loop    *)
(* (pfm_rx_loop.c, pfm_classifier.c), a ring, the distributor's loop       *)
(* (pfm_dist_loop.c), the workers (pfm_worker_loop.c) with the application *)
(* they call, another ring, and the transmit loop (pfm_tx_loop.c).  Every  *)
(* loop polls on an lcore of its own; they share the two rings, the DPDK   *)
(* distributor and the flag force_quit_g.                                  *)
(***************************************************************************)
EXTENDS Naturals, SequencesExt

CONSTANTS
  Bufs, Workers,
  flow,                           \* the tag by which the distributor keeps
                                  \* packets together; no code here sets it
  RX_RING_SIZE, TX_RING_SIZE,     \* usable slots of the two rings
  RX_BURST_SIZE, TX_BURST_SIZE,   \* most a loop moves at once
  TX_QUEUE_SIZE,                  \* slots of a worker's queue
  MAX_PKT_PER_TX,                 \* most a worker gives back with a request
  DIST_BURST,                     \* most the distributor gives a worker
  Nobody                          \* an empty slot

ASSUME SizeAssumption ==
  /\ {RX_RING_SIZE, TX_RING_SIZE, RX_BURST_SIZE, TX_BURST_SIZE,
      MAX_PKT_PER_TX, DIST_BURST, TX_QUEUE_SIZE} \subseteq Nat \ {0}
  /\ DIST_BURST <= MAX_PKT_PER_TX /\ DIST_BURST < TX_QUEUE_SIZE
ASSUME FlowAssumption == DOMAIN flow = Bufs
ASSUME NobodyAssumption == Nobody \notin Bufs

VARIABLES
  free,      \* the buffers in the pool, or with a port or the kernel
  lost,      \* the buffers that nothing refers to and nobody has freed
  rxRing, txRing,
  dist,      \* [pc, pkts]: the distributor's loop, what it has to give out
  inbox,     \* what the distributor has for each worker
  back,      \* what the workers have given back to the distributor
  worker,    \* [pc, batch, tags, queue]: each worker's loop
  quit,      \* force_quit_g
  ended,     \* which of the receive and the transmit loop has returned
  older      \* history: <<b, c>>, of one flow and inside, and b came first

vars == <<free, lost, rxRing, txRing, dist, inbox, back, worker, quit, ended, older>>

Index == 0 .. TX_QUEUE_SIZE - 1
Queue == [slot : [Index -> Bufs \union {Nobody}], head : Index, tail : Index]
EmptyQueue == [slot |-> [i \in Index |-> Nobody], head |-> 0, tail |-> 0]

Init ==
  /\ free = Bufs /\ lost = {}
  /\ rxRing = <<>> /\ txRing = <<>>
  /\ dist = [pc |-> "poll", pkts |-> <<>>]
  /\ inbox = [w \in Workers |-> <<>>]
  /\ back = <<>>
  /\ worker = [w \in Workers |->
       [pc |-> "top", batch |-> <<>>, tags |-> {}, queue |-> EmptyQueue]]
  /\ quit = FALSE /\ ended = {}
  /\ older = {}

Min2(a, b) == IF a <= b THEN a ELSE b
FirstOf(s, n) == SubSeq(s, 1, Min2(n, Len(s)))
AllBut(s, n) == SubSeq(s, Min2(n, Len(s)) + 1, Len(s))

Before(s, b, c) == \E i, j \in DOMAIN s : i < j /\ s[i] = b /\ s[j] = c

Inside == Bufs \ (free \union lost)
Leave(S) == older' = {p \in older : p[1] \notin S /\ p[2] \notin S}
Release(S) == free' = free \union S /\ Leave(S)
Lose(S) == lost' = lost \union S /\ Leave(S)

-----------------------------------------------------------------------------
(* A worker's queue.  A slot that is not between tail and head is not read *)
(* before it is written; the model blanks it.                              *)
Queued(q) == (q.head + TX_QUEUE_SIZE - q.tail) % TX_QUEUE_SIZE

(* Mutant: the queue counts as empty when one packet is left.              *)
get_pkt_to_tx_LeavesOne(q, max) ==
  LET n == Min2(IF Queued(q) = 0 THEN 0 ELSE Queued(q) - 1, max)
      at(i) == (q.tail + i - 1) % TX_QUEUE_SIZE
  IN  [pkts  |-> [i \in 1 .. n |-> q.slot[at(i)]],
       queue |-> [slot |-> [j \in Index |->
                              IF \E i \in 1 .. n : at(i) = j THEN Nobody ELSE q.slot[j]],
                  tail |-> (q.tail + n) % TX_QUEUE_SIZE, head |-> q.head]]

(* Mutant: the tail is not advanced.                                       *)
get_pkt_to_tx_KeepsTail(q, max) ==
  LET n == Min2(Queued(q), max)
      at(i) == (q.tail + i - 1) % TX_QUEUE_SIZE
  IN  [pkts |-> [i \in 1 .. n |-> q.slot[at(i)]], queue |-> q]

get_pkt_to_tx(q, max) ==
  LET n == Min2(Queued(q), max)
      at(i) == (q.tail + i - 1) % TX_QUEUE_SIZE
  IN  [pkts  |-> [i \in 1 .. n |-> q.slot[at(i)]],
       queue |-> [slot |-> [j \in Index |->
                              IF \E i \in 1 .. n : at(i) = j THEN Nobody ELSE q.slot[j]],
                  tail |-> (q.tail + n) % TX_QUEUE_SIZE, head |-> q.head]]

QueueFull(q) == (q.head + 1) % TX_QUEUE_SIZE = q.tail

(* When the queue is full the head goes back, and the packet is forgotten. *)
queue_pkt_to_tx(q, b) ==
  IF QueueFull(q) THEN q
  ELSE [q EXCEPT !.slot[q.head] = b, !.head = (@ + 1) % TX_QUEUE_SIZE]

-----------------------------------------------------------------------------
(* rx_loop reads a burst; ingress_classify sends its GTP packets to the    *)
(* workers.  Other packets go to the kernel or are freed, with no change   *)
(* here, except in the next two actions.                                   *)
RxRunning == "rx" \notin ended /\ ~quit

RxBurst ==
  /\ RxRunning
  /\ \E pkts \in UNION {[1 .. n -> free] : n \in 1 .. RX_BURST_SIZE} :
       LET got == FirstOf(pkts, RX_RING_SIZE - Len(rxRing))
       IN  /\ IsInjective(pkts)
           /\ rxRing' = rxRing \o got
           /\ free' = free \ ToSet(got)
           /\ older' = older \union {p \in Bufs \X ToSet(got) :
                /\ flow[p[1]] = flow[p[2]]
                /\ p[1] \in Inside \/ Before(got, p[1], p[2])}
  /\ UNCHANGED <<lost, txRing, dist, inbox, back, worker, quit, ended>>

(* An ARP reply is cloned for the ARP table.  Nobody frees the clone, and  *)
(* so the buffer of the reply is never free again either.                  *)
RxArpReply ==
  /\ RxRunning
  /\ \E b, c \in free :
       /\ b # c
       /\ free' = free \ {b, c}
       /\ lost' = lost \union {b, c}
  /\ UNCHANGED <<rxRing, txRing, dist, inbox, back, worker, quit, ended, older>>

(* Packets for the kernel are written at the end of a burst to the KNI     *)
(* port of its last packet.  If that one has none, being a broadcast or    *)
(* unknown, kni_write gets NULL and returns, and nobody frees them.        *)
RxForget ==
  /\ RxRunning
  /\ \E b \in free : free' = free \ {b} /\ lost' = lost \union {b}
  /\ UNCHANGED <<rxRing, txRing, dist, inbox, back, worker, quit, ended, older>>

(* pfm_kni_tx_arp, from the receive loop's timers and from the workers.    *)
ArpRequest ==
  /\ RxRunning \/ \E w \in Workers : worker[w].pc = "work"
  /\ Len(txRing) < TX_RING_SIZE
  /\ \E b \in free : free' = free \ {b} /\ txRing' = Append(txRing, b)
  /\ UNCHANGED <<lost, rxRing, dist, inbox, back, worker, quit, ended, older>>

RxEnds ==
  /\ "rx" \notin ended /\ quit
  /\ ended' = ended \union {"rx"}
  /\ UNCHANGED <<free, lost, rxRing, txRing, dist, inbox, back, worker, quit, older>>

-----------------------------------------------------------------------------
(* dist_loop: a burst is taken from the ring ...                           *)
DistPoll ==
  /\ dist.pc = "poll" /\ ~quit
  /\ dist' = [pc |-> "give", pkts |-> FirstOf(rxRing, RX_BURST_SIZE)]
  /\ rxRing' = AllBut(rxRing, RX_BURST_SIZE)
  /\ UNCHANGED <<free, lost, txRing, inbox, back, worker, quit, ended, older>>

(* ... rte_distributor_process gives each packet to the worker that is at  *)
(* work on its flow, waiting until it can take more, or else to any, and   *)
(* answers the workers that wait (WorkerTake) ...                          *)
Busy(w, f) == f \in worker[w].tags \/ \E b \in ToSet(inbox[w]) : flow[b] = f

DistGive(w) ==
  LET b == Head(dist.pkts)
  IN  /\ dist.pc = "give" /\ dist.pkts # <<>>
      /\ Len(inbox[w]) < DIST_BURST
      /\ (\E v \in Workers : Busy(v, flow[b])) => Busy(w, flow[b])
      /\ inbox' = [inbox EXCEPT ![w] = Append(@, b)]
      /\ dist' = [dist EXCEPT !.pkts = Tail(@)]
      /\ UNCHANGED <<free, lost, rxRing, txRing, back, worker, quit, ended, older>>

(* ... and what has come back goes to the transmit ring as far as it fits. *)
DistReturn ==
  LET pkts == FirstOf(back, TX_BURST_SIZE)
      sent == FirstOf(pkts, TX_RING_SIZE - Len(txRing))
  IN  /\ dist.pc = "give" /\ dist.pkts = <<>>
      /\ dist' = [dist EXCEPT !.pc = "poll"]
      /\ back' = AllBut(back, TX_BURST_SIZE)
      /\ txRing' = txRing \o sent
      /\ Lose(ToSet(pkts) \ ToSet(sent))
      /\ UNCHANGED <<free, rxRing, inbox, worker, quit, ended>>

DistEnds ==
  /\ dist.pc = "poll" /\ quit
  /\ dist' = [dist EXCEPT !.pc = "ended"]
  /\ UNCHANGED <<free, lost, rxRing, txRing, inbox, back, worker, quit, ended, older>>

-----------------------------------------------------------------------------
(* Mutant: a worker asks for more before it gives back what it has to send.*)
WorkerAsk_Early(w) ==
  /\ worker[w].pc = "top" /\ ~quit
  /\ worker' = [worker EXCEPT ![w].pc = "wait", ![w].tags = {}]
  /\ UNCHANGED <<free, lost, rxRing, txRing, dist, inbox, back, quit, ended, older>>

(* worker_loop: rte_distributor_get_pkt takes back what the worker has to  *)
(* send, which ends its work on the last batch ...                         *)
WorkerAsk(w) ==
  LET out == get_pkt_to_tx(worker[w].queue, MAX_PKT_PER_TX)
  IN  /\ worker[w].pc = "top" /\ ~quit
      /\ worker' = [worker EXCEPT ![w].pc = "wait", ![w].tags = {}, ![w].queue = out.queue]
      /\ back' = back \o out.pkts
      /\ UNCHANGED <<free, lost, rxRing, txRing, dist, inbox, quit, ended, older>>

(* ... and returns when the distributor answers, with a batch that may be  *)
(* empty, and at no other time; what is left in the queue is given back.   *)
WorkerTake(w) ==
  LET out == get_pkt_to_tx(worker[w].queue, TX_QUEUE_SIZE)
  IN  /\ worker[w].pc = "wait" /\ dist.pc = "give"
      /\ worker' = [worker EXCEPT ![w].pc = IF inbox[w] = <<>> THEN "top" ELSE "work",
                                  ![w].batch = inbox[w],
                                  ![w].tags = {flow[b] : b \in ToSet(inbox[w])},
                                  ![w].queue = out.queue]
      /\ inbox' = [inbox EXCEPT ![w] = <<>>]
      /\ back' = back \o out.pkts
      /\ UNCHANGED <<free, lost, rxRing, txRing, dist, quit, ended, older>>

(* The next packet of the batch, which leaves the queue as q.              *)
Processed(w, q) ==
  /\ worker[w].pc = "work"
  /\ worker' = [worker EXCEPT ![w].batch = Tail(@), ![w].queue = q,
                              ![w].pc = IF Len(worker[w].batch) = 1 THEN "top" ELSE @]
  /\ UNCHANGED <<rxRing, txRing, dist, inbox, back, quit, ended>>

(* It is not UDP or too short, or its answer cannot be sent for want of    *)
(* room or of a MAC address.                                               *)
WorkerDrop(w) ==
  /\ Processed(w, worker[w].queue)
  /\ Release({Head(worker[w].batch)})
  /\ UNCHANGED lost

(* pfm_data_ind does not answer it: none of its returns frees the buffer.  *)
WorkerKeep(w) ==
  /\ Processed(w, worker[w].queue)
  /\ Lose({Head(worker[w].batch)})
  /\ UNCHANGED free

(* pfm_data_ind answers it in the same buffer by pfm_data_req.             *)
WorkerReply(w) ==
  LET b == Head(worker[w].batch)
      q == worker[w].queue
  IN  /\ Processed(w, queue_pkt_to_tx(q, b))
      /\ Lose(IF QueueFull(q) THEN {b} ELSE {})
      /\ UNCHANGED free

WorkerEnds(w) ==
  /\ worker[w].pc = "top" /\ quit
  /\ worker' = [worker EXCEPT ![w].pc = "ended"]
  /\ UNCHANGED <<free, lost, rxRing, txRing, dist, inbox, back, quit, ended, older>>

-----------------------------------------------------------------------------
(* tx_loop: what the port does not take is freed at once.                  *)
TxBurst ==
  /\ "tx" \notin ended /\ ~quit /\ txRing # <<>>
  /\ txRing' = AllBut(txRing, TX_BURST_SIZE)
  /\ Release(ToSet(FirstOf(txRing, TX_BURST_SIZE)))
  /\ UNCHANGED <<lost, rxRing, dist, inbox, back, worker, quit, ended>>

TxEnds ==
  /\ "tx" \notin ended /\ quit
  /\ ended' = ended \union {"tx"}
  /\ UNCHANGED <<free, lost, rxRing, txRing, dist, inbox, back, worker, quit, older>>

(* pfm_terminate, from the command line or from a signal.                  *)
Terminate ==
  /\ ~quit
  /\ quit' = TRUE
  /\ UNCHANGED <<free, lost, rxRing, txRing, dist, inbox, back, worker, ended, older>>

RxLoop == RxBurst \/ RxArpReply \/ RxForget \/ RxEnds
DistLoop == DistPoll \/ (\E w \in Workers : DistGive(w)) \/ DistReturn \/ DistEnds
WorkerLoop(w) ==
  \/ WorkerAsk(w) \/ WorkerTake(w) \/ WorkerEnds(w)
  \/ WorkerDrop(w) \/ WorkerKeep(w) \/ WorkerReply(w)
TxLoop == TxBurst \/ TxEnds

Next ==
  \/ RxLoop \/ ArpRequest \/ DistLoop \/ TxLoop \/ Terminate
  \/ \E w \in Workers : WorkerLoop(w)

(***************************************************************************)
(* Every loop has an lcore to itself and never sleeps, so it takes its     *)
(* next step; each call of rte_distributor_process answers the workers     *)
(* that wait.  Packets, replies and the request to stop may never come.    *)
(***************************************************************************)
Fairness ==
  /\ WF_vars(RxEnds) /\ WF_vars(DistLoop) /\ WF_vars(TxLoop)
  /\ \A w \in Workers : WF_vars(WorkerLoop(w)) /\ SF_vars(WorkerTake(w))

Spec == Init /\ [][Next]_vars /\ Fairness

-----------------------------------------------------------------------------

TypeOK ==
  /\ free \subseteq Bufs /\ lost \subseteq Bufs
  /\ rxRing \in Seq(Bufs) /\ Len(rxRing) <= RX_RING_SIZE
  /\ txRing \in Seq(Bufs) /\ Len(txRing) <= TX_RING_SIZE
  /\ dist.pc \in {"poll", "give", "ended"} /\ dist.pkts \in Seq(Bufs)
  /\ inbox \in [Workers -> Seq(Bufs)]
  /\ back \in Seq(Bufs)
  /\ \A w \in Workers :
       /\ worker[w].pc \in {"top", "wait", "work", "ended"}
       /\ worker[w].batch \in Seq(Bufs) /\ worker[w].tags \subseteq Range(flow)
       /\ worker[w].queue \in Queue
  /\ quit \in BOOLEAN /\ ended \subseteq {"rx", "tx"}
  /\ older \subseteq Bufs \X Bufs

(* The places of buffers, in order where order matters: the pool, what is  *)
(* lost, and the containers on the way.                                    *)
Waiting(w) == get_pkt_to_tx(worker[w].queue, TX_QUEUE_SIZE).pkts

Containers == [name : {"rxRing", "dist", "back", "txRing"}, of : {Nobody}] \union
              [name : {"inbox", "batch", "queue"}, of : Workers]
Places == Containers \union [name : {"free", "lost"}, of : {Nobody}]

Content(p) ==
  CASE p.name = "rxRing" -> rxRing
    [] p.name = "dist" -> dist.pkts
    [] p.name = "back" -> back
    [] p.name = "txRing" -> txRing
    [] p.name = "inbox" -> inbox[p.of]
    [] p.name = "batch" -> worker[p.of].batch
    [] p.name = "queue" -> Waiting(p.of)

BufsAt(p) ==
  CASE p.name = "free" -> free
    [] p.name = "lost" -> lost
    [] OTHER -> ToSet(Content(p))

(* Every buffer is in one place only: whatever the loops do at the same    *)
(* time, none is sent twice, freed while it is still queued, or sent after *)
(* it was given back to the pool.                                          *)
OnePlace ==
  LET at == [p \in Places |-> BufsAt(p)]
  IN  /\ \A p \in Containers : IsInjective(Content(p))
      /\ \A b \in Bufs : \E p \in Places :
           b \in at[p] /\ \A q \in Places \ {p} : b \notin at[q]

(* The queue of a worker, which forgets what does not fit, is never full   *)
(* when an answer is to be queued, for it is emptied between two batches.  *)
QueueNeverFull ==
  \A w \in Workers : worker[w].pc = "work" => ~QueueFull(worker[w].queue)

(* Packets of one flow leave in the order in which they came, through both *)
(* rings, the distributor, any of the workers and its queue.               *)
InOrder ==
  [][\A p \in older :
       p[2] \in ToSet(txRing) \ ToSet(txRing') => p[1] \in free' \union lost']_vars

(* Until somebody asks it to stop, no accepted packet waits for the next  *)
(* one to push it on: it is sent, freed or forgotten.                      *)
NoneWaitsForEver ==
  \A b \in Bufs : b \in ToSet(rxRing) ~> b \in free \union lost \/ quit
=============================================================================
