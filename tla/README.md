# Formal models of the PFM / CU-UP

PFM is a DPDK packet-forwarding framework with a first application on top, the
user-plane half of a 5G gNB's central unit (CU-UP).  This directory holds TLA+
modules of its stateful parts, TLC configurations that check them on small
instances, and TLAPS proofs about all of them: every safety property of a passing run is
a theorem, for instances of any size (section 4 has the premises).  Line numbers refer
to the files in `../src`.

    tlc -workers 2 -config MCTunnelTable.cfg MCTunnelTable     a run
    tlapm TunnelTable_proofs.tla                               proofs

`PROJECT.json` lists the components, the runs, the source lines each definition
models, the hazards, the findings and the theorems.

## 1. The system

| part | state | operations | called by |
|---|---|---|---|
| tunnel table, `tunnel.c` | rows with `is_row_used`, a hash from (local ip, TE-id) to a row, two cursors | `tunnel_key_alloc`, `add`, `modify`, `remove`, `commit`, `rollback`, `get` | E1AP handlers (main thread); `get` by the workers |
| UE contexts, `ue_ctx.c` | rows with two lists of pointers to tunnels, a hash from UE id to a row, two cursors | the same operations on contexts | E1AP handlers |
| PDU sessions and DRBs, `pdus.c`, `drb.c` | none of their own; they fill tunnel rows and the lists of a context | set-up, modify, remove, commit, rollback | E1AP handlers |
| E1AP handlers, `e1ap_bearer_*.c` | none | bearer context setup, modify, release | the CU-CP's messages |
| GTP, `gtp.c` | paths to peers with echo timers, `gtp_table_up_g` | path add/remove, echo, `pfm_data_ind`, data requests | workers, timers |
| ARP table, `pfm_arp.c` | rows, a hash from address to position, one timer per row | `pfm_arp_process_reply`, refresh timer, `pfm_arp_query` | receive loop; `query` also by the workers |
| routes, `pfm_route.c` | an `rte_lpm` table, `route_table`, `entry_count`, `lpm_up` | add, query, print | `query` by workers and by the tunnel code, `print` by the console; nobody calls `pfm_route_add` but its unit test |
| receive loop and classifier | per-link list of KNI ports and addresses | `pfm_ingress_classifier_add`, `rx_loop`, `ingress_classify` | main; an lcore of its own |
| distributor loop, `pfm_dist_loop.c` | none (DPDK's distributor) | `dist_loop` | an lcore of its own |
| workers, `pfm_worker_loop.c` | a transmit queue each | `worker_loop`, `pfm_data_req` | one lcore each |
| transmit loop, `pfm_tx_loop.c` | none | `tx_loop` | an lcore of its own |
| links and KNI ports, `pfm_link.c`, `pfm_kni.c` | two lists with operational states, two read positions | open, start, stop, read, monitor, call-backs | main, the monitor thread, the receive and transmit loops |
| command line, `pfm_cli.c` | the table of objects and actions | `pfm_cli_exec` | main thread |
| start and stop, `cuup.c`, `pfm.c` | `force_quit_g`, `sys_info_g` | `pfm_init`, `pfm_start_pkt_processing`, `pfm_terminate`, signals | main thread |
| bearer set-up, first generation, `criterion_tests/e1ap/e1ap_bearer_setup` | tunnel and UE tables with a hash of reserved ids each | bearer context setup | its tests |
| SDAP, PDCP, error indication; logs, utilities | none | stubs; output | |

How they interact: packets go port -> receive loop -> ring -> distributor ->
worker -> application (`pfm_data_ind`, here `gtp.c`) -> `pfm_data_req` -> the
worker's transmit queue -> distributor -> ring -> transmit loop -> port, always as
pointers to one buffer.  The control plane builds contexts and tunnels in the main
thread; workers find them through hashes without a lock.  ARP replies and timers
change the ARP table on the receive lcore while workers read it through pointers.
The kernel's network stack uses the links through KNI ports; its requests to bring a
port up or down are answered by whichever loop comes across them, and a change of a
link is passed on to it by the monitor thread.

What is hard here:

* tables that are read while they are changed, which is why the tunnel code puts a
  new version on a new row and why commit and rollback exist;
* commit and rollback get only a row: they work out from the hash and from
  `is_row_used` what was done to it, which takes a protocol that no code enforces and
  that the callers do not always keep;
* cyclic searches and small tables that run full in the middle of a request;
* rows and hash positions that are used again with what the last user left in them;
* buffers that nobody frees or that two places could refer to, order across several
  workers;
* tables that are made by whoever needs them first, on any of five or more lcores;
* loops that wait for each other when the program stops.

What makes each part correct is stated in section 3, property by property.

## 2. The modules

| module | models | kind |
|---|---|---|
| `CyclicScan` | the search loop that `tunnel_key_alloc`, `tunnel_alloc`, `ue_ctx_id_alloc` and `ue_ctx_alloc` share | operators |
| `TunnelOps` | every function of `tunnel.c` that changes the table, as an operator from table to table | operators |
| `TunnelTable` | the table with its callers, who break its protocol at times: changes, then commit or rollback row by row; and the readers' `tunnel_get` | specification |
| `TunnelStore` | what a reader may rely on: an atomic store, one key at a time | abstract specification |
| `TunnelTable_proofs` | | proofs |
| `BearerOps` | `ue_ctx.c`, `pdus.c`, `drb.c` on top of `TunnelOps` | operators |
| `Bearer` | the three E1AP handlers | specification |
| `Bearer_proofs` | | proofs |
| `Setup` | the first-generation bearer set-up, with its own tables | specification |
| `ArpTable` | `pfm_arp.c` with its timers and a worker's use of an entry | specification |
| `Routes` | `pfm_route.c` and a worker's use of a route | specification |
| `Classifier` | `pfm_classifier.c`, burst by burst, packet by packet | specification |
| `Classifier_proofs` | | proofs |
| `Datapath` | the loops, rings, distributor and queues, and every buffer | specification |
| `Ports` | `pfm_link.c` and `pfm_kni.c` with the four threads that use them | specification |
| `Console` | `pfm_cli.c`: what a line of input does | operators |
| `Program` | `cuup.c` and `pfm.c`: start, console, signals, the loops' ends, the exit; the making of the ARP table | specification |
| `Setup_proofs`, `ArpTable_proofs`, `Routes_proofs`, `Datapath_proofs` | | proofs |
| `Program_proofs` | the theorems of `Program` and of `Ports`, whose definitions have no name in common | proofs |
| `MC*` | instances for TLC | |

The two searches are one idea and are modelled once: `NextInScan(n, last, free)`
is the first element of `free` after `last`, round the end, and never `last` itself,
since the code's loops stop when they come back to where they began.

**TunnelOps, TunnelTable.** `tbl` is a record of the two columns of the row array
that matter (`used`, `key`), `info` for everything else in a row, the hash, and the
two cursors `last_allocated_slot_g` and `last_assigned_id_g`.  `tx` is the set of
rows the running handler has changed, i.e. the pointers it has put into the lists of the
UE context it builds, with what it did to each; `mode` says whether it is still at work or is
committing or rolling back.  `zero` is the key at position 0 of the hash, since `tunnel_get`
takes only that position for a hit (tunnel.c:183).  Every function of `tunnel.c` is one operator and every
call of a handler one step, so a look-up may come between any two calls.

The callers do what the code lets them do, with rows that may stand on a list: a handler
modifies or removes any tunnel, also one it has removed or modified before
(`ModifyTunnel`, `CopyTunnel` with the used flag that `drb_modify` copies, `RemoveTunnel`),
gives a session up by committing it in mid-handler (`GiveUp`), and commits or rolls back
rows it has not touched, or has committed already, or that were given back long ago
(`CommitOther`, `RollbackOther`; ue_ctx.c:257-296 goes through both lists, and after
line 291 DRBs are on both).  Commit and rollback are right only under rules that
follow from how `tunnel.c` decides, and the history variable `slips` notes when one is broken:

* "protocol": a tunnel is modified or removed through a row that is not the one its
  key leads to, or is modified after it was changed in the same handler, or a row
  that has been given back is committed;
* "reuse": the search gives out a row whose removal is not committed yet.

`Kept` is `slips = {}`.  All properties of the module but `TypeOK` and `RemovalFreesKey` speak of
histories up to the first slip.

**Bearer.** Requests are handled by one thread, one after the other, so a request is
a step; it is the composition, in the code's order, of the operators of `BearerOps`
and `TunnelOps`.  A context row keeps its two lists *and* the entries beyond the
counts, for the code reads stale ones.  `zero` is the id at position 0 of the UE
hash, because `ue_ctx_get` takes only that position for a hit.  A row keeps one
byte for its id: a session's is the whole byte, a DRB's its five low bits
(tunnel.h:23, 40, 60-64), so that storing a DRB id cuts it down and leaves the other three bits
(`WithDrbId`), and a search reads every row as what it looks for (`AsPdus`, `AsDrbs`).
`phase = "dead"` stands for a handler that has dereferenced a NULL list entry, or the id of a
failed session, which is logged with `%s` (pdus.c:119-121; only id 0 is printed).  Left out: the
counters and lists of the responses (`rsp.granted` is the set of tunnels a response
announces), the copying of QoS and flow parameters (all of it is `info`).

**ArpTable.** The receive loop's work is split where a worker could see it: key
added, row filled, timer armed; key deleted, row cleared.  A worker looks up, copies
the MAC address through the pointer and sends.  `told` and `asked` are history
variables that no action depends on.  Positions of the hash are reused first in,
first out, as DPDK's free-slot ring does.

**Datapath.** A buffer is in the pool (`free`, which includes buffers the port or the
kernel has), in one of the containers on its way, or `lost`, when nothing refers to
it any more and nobody has freed it.  A worker's queue keeps its slots, head and
tail.  DPDK's distributor is external: it gives the packets of one flow to one
worker at a time and answers a waiting worker, perhaps with no packet, each time
`dist_loop` calls `rte_distributor_process`.  `flow` is the tag by which the distributor keeps
packets together; no code of this repository sets it, so any may occur, and it is external
too.  It is a constant, so a buffer always
carries packets of the same flow; buffers are interchangeable, so this only names
them.  `older` is a history variable: the pairs of packets of one flow that are both
inside the pipeline, the one that came first before the other.

**Classifier.** `ingress_classifier_g` has the KNI ports main added, per link.  A burst
is a sequence of packets of which only what `packet_classify` looks at is kept; each
packet is a step, the two flushes at the end of the burst are one each, and what a KNI
port or the ring takes is any first part of what it is offered.  `fate` has every
buffer of the burst the classifier is done with: the original `<<i, 0>>`, the clone for
the n-th KNI port, the clone for the ARP table.  `last_kni_ptr` is not a variable: it is
only assigned where it is not NULL and so stays NULL.

**Routes.** A prefix is a net and a depth; `rule` is the content of DPDK's table and
`Longest` the rule its look-up finds, from the documentation of `rte_lpm`.  The lazy
initialisation is split where a second lcore can come in: create, assign and test the
pointer, set `lpm_up`.  So is an addition: the rule is put into DPDK's table, the row is
counted, the row is filled.  A worker gets the row's address and reads the row later.  `told`
and `met` are history variables.

**Program.** `main` is where main is, `loop` where each loop is with regard to
`force_quit_g`, or what it has returned.  What a loop does with packets is one step
here; the receive loop may meet an ARP reply and a worker a packet to send in it, which
is their first use of the ARP table, as `arp list` is main's.  Every line of input of
up to three words goes through `pfm_cli_exec` of `Console`.  The status 99 stands for
"still running".

**Setup.** `e1ap_bearer_setup` in its first form, step by step: tables with a hash of
reserved ids, look-ups that test for position 0 in some places and for "not negative"
in others, and a tunnel row for each session.  `run` is the handler's position and its
local variables; at "dead" it has dereferenced the id of a failed session, which is logged
with `%s` here too (pdus.c:99-101 of that program).  This code is built and run by its tests; the program itself has the
form that `BearerOps` models.

**Ports.** `mainAt` counts what main has done; `link` and `kni` are the two lists up to their counts, `dev` is what DPDK
makes of each device, `carrier` and `req` are the kernel's.  Each round of a loop is
one step, for what it reads is not used after the round.  The monitor's work on one
link is split before each port it tells.  A call-back has a step for each thing it does: note
the port's state, look at the states of the link's ports, stop the device, start it, return
and be answered.  The kernel has one request at a time, but its queue is meant for one
reader and both loops read it without a lock (pfm_kni.c:538, 570), so that one request may
be taken by both, one call-back in each loop (`Takable`).  It is then answered twice, and
the kernel may take the second answer for that to its next request, so that a late stop
can follow a later start.  `twice` notes that a request was taken by both.
A device may fail to start, which the code does not look at (pfm_link.c:658); `unstarted`
notes it.  The kernel's own time-out of three seconds for a request is not modelled: it
waits until it is answered.  `watched` is one packet of the many
that may come; packets are not followed otherwise, which `Datapath` does.  `flip`
only makes two bursts in a row different states, so that fairness can be stated.
The status a device reports is left open, since DPDK's drivers differ (pfm_link.c:361-371).

## 3. The runs

The violation runs check what comments of the repository say and the code does not do;
they are the findings of `PROJECT.json`.

| run | properties | result |
|---|---|---|
| `tunnel_table` | `TypeOK`, `KeyMatchesRow`, `NoRowLeak`, `UniqueNewKeys`, `CommittedRowsFrozen`, `ImplementsStore` | hold |
| `tunnel_reuse` | `RemovalFreesKey` | violated |
| `bearer_growth` | `UeHashSound`, `DrbsSound`, `GrantsLive`, `RowsAnnounced`, `TunnelsKept`, `OthersKept` | hold |
| `bearer_all` | `TypeOK`, `SetupOnlyAdds` | hold |
| `setup` | `RowForEveryId`, `Announced`, `RefusedOnlyWhenFull` | hold |
| `arp_table` | `TypeOK`, `TableSound`, `CleanReads`, `AskedFirst`, `SilentForgotten` | hold |
| `routes` | `RulesLeadToRows`, `ReadsOwnRoute`, `MapperSound` | hold |
| `classifier` | `OneFate`, `BroadcastToAll`, `GtpInOrder`, `OwnPortIfLast` | hold |
| `classifier_ports` | `OthersToOwnPort` | violated |
| `ports` | `LinkFollowsPorts`, `CarrierHonest`, `RequestsAnswered`, `PacketsRead` | hold |
| `datapath` | `OnePlace`, `QueueNeverFull`, `InOrder`, `NoneWaitsForEver` | hold |
| `program` | `ExitStatus`, `ArpMapperSound`, `ShutdownExits` | hold |

*tunnel_table* (`MAX_TUNNEL_COUNT = 3`, one address, two contents).  Until the first slip
hash and rows agree, no row leaks, two new tunnels of a handler never
share a key although `tunnel_key_alloc` reserves nothing, no row a reader can reach is
written, and readers see an atomic
store.  Three rows let one handler hold an old and a new version and a third row at
once, and run full; one address already has all the aliasing, since keys of
different addresses never compare equal.  `CONSTRAINT Kept` ends each history at its first
slip, after which these properties have nothing more to say; the slip itself is
a step of the run.  What a slip leads to is known from counterexamples without the premise:
a key that leads to an unused row, which is then given to another tunnel under the
reader's eyes; a row in use that nothing leads to; one key for two new tunnels (section 5).
The readers of this run are `tunnel_get`'s: `TunnelStore` settles when a key gets its
first value whether readers will ever find it, and only the key at position 0 is found.

*tunnel_reuse* (one content, two addresses, no constraint) asks of a caller that keeps its side
of the protocol what a comment promises, that a removal frees the key.  The search gives
out the removed row of the same handler before the removal is committed, the commit
then works on the new tunnel's key, and the old key stays in the hash for good.  It takes a cursor
that has gone round the table once since that row was taken.

*bearer_growth* (4 tunnels, 3 UE rows, 2 sessions and 2 DRBs per UE; set-ups with and
without a route to the peer, with DRB ids 1 and 32; modifications that add or are refused; no removal).
As long as contexts only grow, both hashes lead to live contexts of the right UE;
the key of every announced tunnel leads to a row in use, of the kind and with the id the
answer says; and a refused request changes nothing.  DRB lists are disjoint and name each
id once, except what an id of 32 or more is cut down to: 32 is stored and answered as 0, and
the duplicate test compares the 0 with the request's 32, so one context can have it twice
(`Doubled`).  Every row that comes into use is found by its key, and its key is in the
answer (`RowsAnnounced`), with two exceptions, which are the hazards pdus.c:122 and
e1ap_bearer_setup.c:100: the tunnel of a failed session, whose id can only be 0 since
any other ends the program at pdus.c:119, and the context of a set-up that failed as a
whole.  These rows are gone for good; that no third kind of row is, is what the property says.
The sizes make ids, UE rows, tunnel
rows and lists run out, each on its own and in the middle of a request.

*bearer_all* (3 tunnels, 2 UE rows, 1 address) adds removals, modifications of
sessions and DRBs, and releases.  With the divergences of section 5 the context lists decay
here, so most of the properties above no longer hold; what still does is that no
index leaves the tables and that a set-up only adds: it changes no row in use and nothing
a key leads to, and announces only keys that led nowhere before.
The requests of this run are few, since each state is large; they reach every
action, and handlers do crash.  Session 33 and DRB 1 agree in the five bits
that a search for a DRB compares, and a DRB is removed and modified in one request.

*setup* (10 tunnels, 5 UEs, requests for up to two sessions of up to two DRBs each, UE
ids up to 7).  Its search for a row never ends if it starts at slot 0 and all are used;
the run shows that it is not begun then, since rows and ids are taken in step, although
they are given back on different paths.  What was announced stays, and every refusal has a
shortage of ids as its reason.  Ten tunnels are enough for ids to run out in a
session, in a DRB and between two requests, and for the cursor to go round; a UE id is
refused from the sixth on, and 7 leaves room for two of those.  A session without a DRB may
end the program, if its id is not 0; the ids of sessions are not kept, so either may happen.

*arp_table* (2 rows, 3 addresses, 2 MACs, 1 worker).  Between two calls of
the receive loop every entry is right and has its timer; a worker reads the MAC
address last announced unless the loop was at work on the same row; an entry goes
only after two requests without an answer, and a silent neighbour does go.  Three
addresses on two rows fill the table and reuse positions; workers do not affect the
table, so one shows what any of them can see.

*routes* (2 rows, addresses of 2 bits, 2 gateways, the adding thread and one more).
Rules and rows agree at each step of an addition, except for the row that is being added: its
rule is in DPDK's table before it is counted (pfm_route.c:87, 97) and counted before it is
filled, and it is the next to be counted.  A row read late is still the row of
the prefix that was looked up, and a table that counts as up has its pointer unless two
threads met in `lpm_init` (`met`).  Two rows and six prefixes let one prefix hide
another and the table run full; a second reader would see what the first sees.  The run
goes on after two threads met: what is lost then is the state "dead".

*classifier* (bursts of up to 3 packets, 2 KNI ports on one link and 1 on the other).  Every
burst of the four kinds of packet, with rings and KNI ports that take all, some or none:
no buffer has two fates, broadcasts reach each port of the link once, GTP keeps its
order, and a packet for the kernel goes to the port with its address if the last packet
of the burst is for the same one.  Of other bursts nothing is claimed here but that
a packet offered to the kernel is for some port of the link and not for the workers.  Three packets are needed for a mixed burst with
something between; two KNI ports on one link for a wrong port, the second link for none.

*classifier_ports* checks what the header of `ingress_classify` says, that each packet for the
kernel goes to the KNI port `packet_classify` found for it (pfm_classifier.c:275-277), on the same
instance.  A burst of two packets for two ports refutes it: `last_kni_ptr` is never set, so
nothing is written before the end of the burst, and then all goes to the last packet's port.

*ports* (2 links, 2 KNI ports on the first and none on the second).  However many of the
ports main manages to open, and in whatever order the steps of the call-backs come: once the kernel
is answered the program knows which interfaces are up, and a link is stopped when all
its KNI ports are down and never otherwise, unless its last start has failed unseen; an
interface has a carrier only if the monitor last saw its link up;
the kernel's requests are answered and a packet is read although other ports are
busy all the time.  Two KNI ports on one link are the least that tell "all ports of this
link" from "this port", and the link without any is never to be stopped.
`CONSTRAINT TakenOnce` ends a history where both loops take one request:
`LinkFollowsPorts` fails after that (a late stop of the one call-back follows the start of
a later request), and `CarrierHonest`, which does not, is proved for all histories; the two
liveness properties are checked for histories in which each request is taken once.
The monitor's
first look comes after main has opened everything: 1.5 seconds are taken to be long
enough.  Without that, a KNI port opened after the first change of its link would
wait for the next one.

*datapath* (2 buffers of one flow, 2 workers, a receive ring of 2, and room for one packet
everywhere else: batches, bursts, the transmit ring, a queue of two slots).  Whatever
the interleaving, each buffer is in one place, the queue is never full when an
answer is queued, a flow keeps its order, and a packet moves on without the help of a later
one.  Everything but the receive ring runs full, and a packet can be in a queue or on its way
back while the next one of its flow is with the other worker, which is all a change of
order needs.  Batches of more than one packet are left to the proofs, which hold for
every size.

*program* (2 workers, every line of up to three words).  After `shutdown` the program
exits whatever the loops do, and never with status 0.  A loop returns 1 when it sees
`force_quit_g` at the head of its `while`; only the receive loop may return 0, if the flag
is set between that test and its second one.  main takes a 1 for a failure and exits with
3 (cuup.c:99-107), at the receive loop or, if that returned 0, at the transmit loop.
It therefore never waits for a worker, and the one that the distributor may have left
behind in `rte_distributor_get_pkt` does no harm.  A signal sets the flag and nothing
else: the loops end and main stays at its console until it is told to shut down.  Two
workers are needed for `LaunchFails` to have a worker that is not the last; the ARP
table can be made on every lcore there is.

`CHECK_DEADLOCK FALSE` stands where the program can stop: after a handler's crash in
the Bearer runs and in *setup*, after a NULL clone in the classifier runs, after a NULL table in *routes*,
after the shutdown in *datapath*, after main's exit in *ports* and *program*,
and at the bound `LastUeId` in *setup*.

Every property of a passing run has a mutant in `PROJECT.json`: a definition with a
plausible mistake (a dropped test, a missing wrap-round, a forgotten reset) under
which TLC finds that property violated in the same run.  The mutants stand in the
modules before the definitions they replace.

**Fairness.** Tunnel table and Bearer have only safety properties.  `ArpTable`: weak
fairness of the receive loop's next step inside a call, since it runs on its own
lcore and nothing in a call blocks, and strong fairness of every timer that is due,
since `rx_loop` calls `rte_timer_manage` again and again between bursts
(pfm_rx_loop.c:32-36) and one call runs all expired timers.  Nothing is assumed of
replies.  `Datapath`: weak fairness of each loop, which polls on its own lcore, and
strong fairness of the distributor's answer to a waiting worker, which every call
of `rte_distributor_process` gives.  Nothing is assumed of arrivals, ARP traffic or
the request to stop.  `Ports`: weak fairness of the two loops; nothing is assumed of
main, the monitor, the kernel or the network.  `Program`: weak fairness of main's own
steps outside the console, of the receive and the transmit loop, which poll, and of each
step in `arp_init`, where nothing blocks; none for the console, signals, the
distributor and the workers, so that `ShutdownExits` does not rest on them.  `Classifier`,
`Routes` and `Setup` have only safety properties.

## 4. The proofs

For every table size, every set of addresses and every kind of contents
(`TunnelTable_proofs`, whose first part is about the operators of `TunnelOps`;
`Bearer_proofs` has that part again, for neither module can extend the other):

* `TypeCorrect`: `Spec => []TypeOK`, whatever the callers do.  The searches return
  only rows and ids inside the table (`NextInScanFound`).
* `TableSafe`: `Spec => []TableInv`.
* `LookupsSound`, `NothingLeaks`: the two parts of it a reader will look for.
* `RowsFrozen`: no step writes a row the hash leads to.
* `NewKeysUnique`: no two tunnels a handler is setting up have the same key.
* `TableImplementsStore`: the table with `tunnel_get` implements `TunnelStore`.

The theorems have no premise; what they state, all but `TypeCorrect`, is stated of histories up
to the first slip (`Kept`, section 2), for the code does not keep callers from slipping, and
after a slip of the protocol TLC finds counterexamples to `KeyMatchesRow`,
`CommittedRowInUse`, `NoRowLeak` and `UniqueNewKeys`.  The theorems say that the rules
together are enough: the proof has to show for every step the callers can take, protocol or
no protocol, that it either keeps the facts or is noted in `slips`.

`TableInv` is the type invariant with `KeyMatchesRow`, `CommittedRowInUse`,
`NoRowLeak` and `HandlesSound`.  None of them is inductive alone: commit and rollback
decide what to do from the hash and the `used` flag, so that they are right only if a
removed row is still the one its key leads to and unused, and an added or changed
row is in use and not reachable (`HandlesSound`), and these facts survive allocation
only if every committed row is marked used (`CommittedRowInUse`).  The proof has a
lemma for each kind of step: a row is taken, a row is removed, a new row is
committed, a removed row is committed, a row is rolled back, a row nobody has touched is
committed or rolled back.  For the refinement,
taking or removing is `Stage` on the workspace of that row, committing is `Apply`, in
mid-handler as well, rolling back `Discard`, a failed allocation or a row that was left alone is a
stutter, and a slip is `Break`, after which the store promises nothing.

`NewKeysUnique` counts without counting.  `tunnel_key_alloc` skips the ids it finds in the
hash and reserves none, so it gives an id a second time only when the search has gone
round the circle of ids since.  The ids the search has passed since a key was handed out
form an arc, and each of them is carried by a row in use: by a committed one, which is why
it was passed, or by one the handler holds.  An arc that is the whole circle would mean that
every row is taken, and then the row for the second key could not have been had.

For every set of requests and any number of tunnels, UEs, sessions and DRBs
(`Bearer_proofs`), without further assumption:

* `BearerInvariant`: `Spec => []BearerInv`, and from it `BearerTypeOK`.
* `SetupAdds`: a set-up only adds, whatever the requests before have left.

`BearerInv` adds `NoGaps` to the types: no DRB list of a context has a NULL below its
count.  `ue_ctx_commit` calls `tunnel_commit` on every entry of both lists without a test.
A NULL in the session list is the crash that `phase = "dead"` stands for; `NoGaps` is why
there is none for a DRB.  A request is a fold over lists of sessions and in each over
a list of DRBs, so most lemmas are about what one element of a fold preserves; a fold itself
is reasoned about through the line of its intermediate results, whose last element it is.
For `SetupAdds` the fold's invariant (`Adds`, `IsNew`, `ListsNew`) says that the table grew
by rows that were free, that the lists of the context hold only such rows and what is
granted only keys of such rows; the stale entries beyond the counts, which a new context
takes over from the row's last user, are never read in it.

As long as no context is released (`ReleaseIds = {}`):

* `IdsInvariant`: `Spec => []IdsInv`, which adds to `BearerInv` that UE ids and contexts
  in use belong to each other; from it `UeIdsFound` and `OthersUntouched`, the properties
  `UeHashSound` and `OthersKept`.

The lists may remove, modify and set up what they like.  A new version is built in a
row that was free; while it is worked on its id and its `used` flag do not change
(`SameUe`, one lemma for each step of a handler); the commit enters it and gives back the
row of the old version, the rollback gives back its own.  The assumption is necessary: a
release marks the context free before it looks the id up for the commit, does not find
it, and leaves the id in the hash with an unused context (section 5).

As long as contexts only grow (`Growth`: modifications only set up sessions, and none is
released; they may still be refused, fail in the middle or find every table full):

* `GrowthInvariant`: `Spec => []GrowInv`.
* `GrowthAnnounced`, `GrowthGrants`, `GrowthDrbs`, `GrowthKeepsTunnels`: `RowsAnnounced`,
  `GrantsLive`, `DrbsSound` and `TunnelsKept`.

`GrowInv` says what is so between two requests: no row is in use that its key does not lead
to (`Pending`), keys and rows in use belong to each other (`Growing`), what was granted is
there (`GrantsHeld`), and the context of each UE has good lists with no tunnel of another
UE (`UeSound`).  Inside a request there are pending rows, and three things have to be known
of them: each is on a list of the context or in the handler's hand, so that the commit
enters them all; each has a key of its own, by the argument of `NewKeysUnique`
(`OneKeyEach`, `Passed`); and a context has no more sessions than DRBs, since the packing
loop of the commit overwrites the session list with the first entries of the DRB list.
`Accounted` carries along which rows came into use since the request began: each is granted,
in the handler's hand, or a failed session's, of id 0.  For `DrbsSound`, an id below 32 is stored
as it is, so that the duplicate test has found it if it was there.

No part of `Growth` can be dropped for all four.  With releases, or with a session that is
modified, `DrbsSound` fails: a released context's id leads to lists of freed tunnels, and
what is cloned for a modified session is the DRB tunnel that the packing loop has put in the
session list, whose old row is freed by the commit while the DRB list names it.  A session
that is modified twice in one request leaves its first clone's row in use for good, against
`RowsAnnounced`.  A removed session's tunnels go, against `TunnelsKept`.  After a release one
handler can get the same key twice if the session's local address is the DRBs' as well (section
5), and then only one of the two grants is true, against `GrantsLive`.

For any number of links and KNI ports (`Program_proofs`), without further assumption:

* `PortsSafe`: `Spec => []PortsInv`.
* `LinksFollowPorts`: `Spec => []LinkFollowsPorts`.
* `CarrierStaysHonest`: `Spec => []CarrierHonest`.

`PortsInv` adds to `LinkFollowsPorts` what it rests on.  `Fields`: the types.  `Indexed`: the port id of a
link is its place in the list, by `link_start`'s index, so that two entries never
share a device and every open link's device is configured; without it a call-back
could not stop the link it should.  `Quiet`: KNI ports come after the links and no
request is answered before the loops run, so a link or a port that is opened finds
nothing stopped.  These hold whatever happens.  The rest, `Once`, is about histories
in which no request was taken by both loops: then one call-back is at work at most, on the request the
kernel waits for (`Taken`); of every port the kernel has not just asked about the program knows
whether it is up (`Known`); what a call-back found when it looked at the ports still holds when it
stops or starts the link (`OnTheWay`); and every open link no call-back is at is as its
ports want it, unless its last start failed (`Settled`).  With a request taken twice,
`Taken` is what breaks first.

`CarrierHonest` holds also with requests taken twice and answered early.  Its invariant
`CarrierInv` adds `Watching`: the monitor tells only KNI ports of the link it last looked
at; and an interface that the kernel brings up or down loses its carrier with that.

For a route table of any size, addresses of any width and any number of threads
(`Routes_proofs`), without further assumption: `RoutesSafe`, and from its invariant
`RulesSound`, `ReadersSound` and `MapperSafe`, the three properties of the run, with the
types (`RoutesTyped`).  `RoutesInv` adds to them `HeldKeys`, that a key a thread holds is the
one the rule of its prefix has, which is what keeps a pointer good when the table grows
behind its back, and that the row being added is the next to be counted, and `OneMaker`: without a meeting at most one thread is in `lpm_init`, none
once the table is up, and a thread about to say so has seen that its pointer is good.

For an ARP table of any size, any addresses and any number of workers
(`ArpTable_proofs`), without further assumption: `ArpSafe`, `TypeCorrect`, `TableAlwaysSound`,
`ReadsClean` and `NoneForgottenUnasked`, i.e. all safety properties of the run.
`ArpInv` has `HashSound` (addresses and free positions share the table out: without it a
new key could get a position in use), `RowsSound` (a row the receive loop is not at is the
entry of its address, or empty, so that no timer outlives its entry), `RxSound` (what the receive
loop holds in the middle of a call) and `ReadersSound` (what a worker
holds agrees with the row as long as the receive loop was not at it).

For any number of workers (`Program_proofs`), without further assumption: `ProgramSafe`,
`ExitsWithReason`, `ArpMapperSafe` and the types (`ProgramTyped`).  `ProgramInv` adds to `ExitStatus` how far the launch has come
when main is at each of its places (`MainSound`), that a loop has returned only after it saw
`force_quit_g` and that the transmit loop returns nothing but 1 (`LoopsSound`), and
`OneMaker`, as for the routes.  The last lcore of the launch order and the next one
to wait for are minima of sets, which is why the module needs that every non-empty set
of numbers has a least element.

For any number of buffers and workers and rings, bursts and queues of any size
(`Datapath_proofs`): `PipelineSafe`, `BuffersInOnePlace` and `AnswersAlwaysFit`, from
`SizeAssumption` (a batch is smaller than a worker's queue and one request takes it back,
`rte_distributor`'s 8 against `MAX_PKT_PER_TX` and `TX_QUEUE_SIZE`).  `DatapathInv` adds to
`OnePlace` the types with the rings' limits (`Fields`) and `Loops`: at the top of its loop a
worker has no batch and at most a batch of answers, while it waits its queue is empty, at work
its answers and what is left of the batch are at most a batch, and the distributor holds
packets only while it gives them out.  Without it nothing keeps a full queue from dropping an
answer, nor an emptied batch from being overwritten.  Half of the proof is about the queue:
that what is read from tail to head, with both wrapping round, is a sequence that grows at its end and is
taken whole.  The other half shows for each step which buffers it moves from which place to which.

In the same module `OlderFurtherOn` and from it `PacketsInOrder`, the property `InOrder`, and
`PipelineTyped`, the types.  What makes a flow keep its order is a fact about all pairs at once:
of two packets of one flow that are inside, the older is in a container further along the way
(`Rank`), or in the same one and before the other (`Ordered`).  The containers of two workers
have the same ranks, so it needs that a flow is with one worker at a time (`OneAtWork`), and a worker has a tag for every packet it has taken and not
returned (`Tagged`), by which the distributor keeps the flow with it.  Every step of the pipeline
takes a first part of one container and puts it, in its order, behind what the
next one has, so one lemma about such a hand-over serves them all (`OrderShift`); the queue
is where it could fail, and does with the mutant that empties it from the head.  `OnePlace` is
used throughout: without it "the container a packet is in" means nothing.

For any links, KNI ports, addresses and packets, bursts of any size, and whatever the ring
and the KNI ports take (`Classifier_proofs`): `ClassifierInvariant`, and from `ClassifierInv`
all four properties of the run, `ClassifierOneFate`, `ClassifierBroadcasts`,
`ClassifierGtpInOrder` and `ClassifierOwnPort`.  The invariant says what the code only does
in passing: the packets collected so far are those of their class, in order (`Lists`); a
fate is one its packet's class allows (`FatesRight`), where the port a broadcast's clone
went to tells which clone it was; and a packet waits in a list exactly if its own buffer has
no fate yet (`AllAccounted`).  `Burst` says where `kni_ptr` comes from, the packet classified
last, which is what `OwnPortIfLast` needs; `Entries` that a link has only KNI ports main was to
add.  After a NULL clone was written `Lists` and `AllAccounted` are not claimed.
The last two theorems need `OnePort`: KNI ports of one link with one address have one GTP port.  main gives all of
them `GTP_PORTNO` (cuup.c:61-71), and without it `packet_classify`, which looks at the first
port with the address only, would send GTP packets for the second to the kernel (TLC finds
`GtpInOrder` violated at once).

For tables of any size and any requests (`Setup_proofs`): `SetupInvariant`, and from it
`RowsSuffice`, `AnswersKept` and `RefusedRightly`, all three properties of the run.  The only
assumption is that there are at least two tunnels (`SetupAssumption`; the code has far more): id
0 is taken for a failure at the first search, so with one tunnel there would be no id to be had.
`SetupInv` says that ids and rows of the tunnels go in step (`InStep`): both are searched for
by cursors that start together, nothing is given back by any path, and a row is looked for
only after an id was had, so the two sets are the same and the search for a row, which would not
end in a full table, ends at the row with the number of the id.  `KeysInRows` carries that to the
hash; `UesOK` has the UE contexts, whose ids are counted and never repeated.  `RunSound` says for
each point of the handler what it holds, and `AnswersApart` that nothing of it has been announced,
so that whatever it does next, on success or on giving up, leaves the announced
contexts and tunnels alone (`AnswersStand`).

**Only model-checked.**  The five liveness properties, which need fairness and `ENABLED`
and are out of the prover's reach: `SilentForgotten`, `RequestsAnswered`, `PacketsRead`,
`NoneWaitsForEver` and `ShutdownExits`.  The violations of `RemovalFreesKey` and `OthersToOwnPort` are
counterexamples and have no proof.  `CommittedRowInUse` and `HandlesSound` are proved as parts of `TableInv` and have
no place in a run of their own.

## 5. What reading the code showed besides

Some divergences are known from reading or from a counterexample and have no run:

* `tunnel_get` has the same position-0 test as `ue_ctx_get` (tunnel.c:183), so workers
  find at most one tunnel, and an announced tunnel that is committed need never be found
  (`tunnel_get` of `TunnelTable`).  The repository's own list of
  fixes asks for another test (criterion_tests/e1ap/components/tunnel/fixes).
* Nothing keeps a request from removing and modifying one DRB, or from modifying one session or DRB
  twice (drb.c:117-146, pdus.c:196-251, e1ap_bearer_modify.c:96-136).  In the first case the
  copy of the row is not in use, and the commit leaves a key that leads to a free row; in the
  second the first copy stays in use for good, with its key leading elsewhere (`CopyTunnel`, `ModifyTunnel`).
* DRB ids of 32 and more do not fit the row (tunnel.h:23 against e1ap_comm.h:50): 32 is
  stored and answered as 0, and can be set up twice in one context (`DrbId`, `Doubled`).
* A failed session's id is logged with `%s` (pdus.c:119-121, and in the first generation
  pdus.c:99-101), which dereferences it unless it is 0 (`SessionSetup`, `SessionDies`).
* The first set-up request is always refused, for the test of
  `ue_ctx_table_init`'s result is inverted (ue_ctx.c:59-69; `FirstSetup`).
* A set-up without any session that succeeds leaves a committed context that the
  CU-CP is not told of (e1ap_bearer_setup.c:100-107; `SetupBearer`), and a failed
  session leaves its tunnel committed (pdus.c:117-127; `SessionSetup`).  Nobody can give these
  rows back; `RowsAnnounced` names them.
* When the UE table is full, a modification is answered "unknown id"
  (`ModifyUnknown`).
* `gtp_table_up_g` is never set, nobody calls `gtp_path_add`, and the second call of
  `rte_timer_subsystem_init`, from the GTP or the ARP table, counts as a failure.
* main's orderly end, `terminate_program` and `exit(0)` (cuup.c:110-117), is never reached, since
  the transmit loop's 1 counts as a failure (`ExitStatus`); and after a signal main does not
  exit although the handler announces it (cuup.c:25-26).
* "all loops can be terminated" by `force_quit_g` (pfm_comm.h:83-84), but a worker in
  `rte_distributor_get_pkt` waits for an answer that no longer comes once the distributor's
  loop has ended (pfm_worker_loop.c:117; `Answer` of `Program`).
* Two lcores in `arp_init` or `lpm_init` at once: the second create returns NULL, since the
  name is taken, and that NULL is assigned over the first one's pointer before it is tested
  (pfm_arp.c:62, pfm_route.c:39).  If the first has been past its own test, the table counts as up with
  a NULL pointer (`ArpMapperSound`, `MapperSound` without their premise).
* `pfm_route_add` takes every non-zero result of `rte_lpm_is_rule_present` for a rule that is
  there (pfm_route.c:72): with a prefix of depth 0 or a NULL table the result is -EINVAL
  and the row is chosen by an uninitialised key.  `Routes` has no prefix of depth 0.
* `ue_ctx_modify` does not copy the CU-CP's id (ue_ctx.c:208), so that the check of the
  pair of ids in a modification (e1ap_bearer_modify.c:55) compares with what the row's last user
  left.
* `ue_ctx_get` takes only hash position 0 for a hit (ue_ctx.c:373 against the comment in
  326-329), so that the release of any other UE fails half-way.
* The packing loop of `ue_ctx_commit` copies the DRB list into the session list
  (ue_ctx.c:291 against the comment in 288).
* "we use the same hash to maintain uniqueness" of the TE-ids (tunnel.c:27, 139-140) holds
  until a row that was given back is committed, and not after that, not even within one request.  With 4 rows, UEs of one session and two
  DRBs, one local address for sessions and DRBs, and releases, set-up, release, set-up give the session and the second DRB of
  the last request one key: the released DRB is
  in both lists of its context (ue_ctx.c:291), so it is committed twice and its key
  enters the hash again with an unused row; after that ids run out while rows are free, and
  the cyclic search comes back to an id that is not committed yet (`CommitOther`, `UniqueNewKeys`
  without its premise).
* First generation: the DRB list is packed down to the NULLs in it and the session list is
  overwritten by DRB tunnels after every good set-up (`ue_ctx_commit` of `Setup`); ids at
  position 0 are never freed; a DRB without a row keeps its id; a session given up
  stays committed (`GiveUp`).  A request for more DRBs than `MAX_DRB_PER_UE` per UE would write
  behind the list; the model's requests stay within it.
* With an empty pool the clone of an ARP reply is NULL and is dereferenced
  (pfm_classifier.c:363-364); `RxArpReply` requires a free buffer.
* The classifier flushes the packets collected for one KNI port to the port of the
  next packet, since `last_kni_ptr` is never set (pfm_classifier.c:333-341), and
  forgets them if the last one of the burst has none (`classifier_ports`; `OneFate` says what is lost, `RxForget` of `Datapath`).
* `pfm_arp_process_reply` only logs the link a reply came from, so that every packet
  leaves on link 0 (pfm_arp.c:171-231, pfm_worker_loop.c:235).
* A link whose port id is not its place in the list cannot be opened
  (pfm_link.c:464; `OpenLink`), and `main` does not look.
* The addresses of the KNI ports are set once, at the first change of any link, and
  only on those that are up by then; for all others `ip addr del` is run
  (pfm_kni.c:295-316).  Nothing in the program depends on it; `Ports` leaves it out.
* Both loops call `rte_kni_handle_request` for one port without a lock
  (pfm_kni.c:538 and 570).  If both take one request, a late stop of the link can follow the start
  that a later request has brought about: the link is stopped with a port up (`LinkFollowsPorts`
  without its premise).
* Whether a link starts is not looked at (pfm_link.c:658); the call-back tells the kernel
  that all is well (`unstarted` of `Ports`).
* `pfm_data_req` called by a timer on the receive lcore computes a negative worker
  number (pfm_worker_loop.c:319); only timers of `gtp.c` do so.
* A KNI port brought up after its link was seen up has no carrier until the next
  change of the link, for `kni_set_state` fails on a port that is down and is not
  repeated (pfm_kni.c:253-264; `MonitorTells`).

Abstractions that hold throughout: contents of packets, requests and rows are
members of small sets; the choice of a tunnel's local address from routes and ARP is
the address itself; logging, printing and formatting are left out; DPDK's hash,
timers, rings and distributor behave as documented and are marked external.

## 6. Not modelled

* **GTP path supervision** (`gtp.c` but `pfm_data_ind`).  Nobody calls the functions that would
  put a path into its table, so no state but the empty one is ever reached; its timers would
  besides be refused by the second `rte_timer_subsystem_init`, and `gtp_table_up_g` is never
  set.  A model would have to invent the callers.
* **SDAP, PDCP, E1AP error indication**: stubs without state.
* **Logging, utilities, printing**: output and formatting.
* **Headers**: the structures are the records of the modules; constants are CONSTANTS.
* **Component tests** under `criterion_tests/` and `unittests/`: copies of the files modelled above, some of an
  earlier date, each compiled with the test of one component.  They make up about two
  thirds of the repository's C code, which is why the definitions here stand for about a fifth
  of its lines although they cover most of what the program in `src/*.c` does.  Only
  the set-up handler's own tables, which the program no longer has, are modelled (`Setup`).
* **`pfm_link_close`, `kni_close`**: without a caller.
* **DPDK and the kernel**: external, modelled by what the code relies on.
