------------------------------- MODULE Program -------------------------------
(***************************************************************************)
(* The program as a whole: main (cuup.c) from its start to its exit, the   *)
(* loops it launches on the other lcores (pfm.c), the console, signals,    *)
(* and the one thing all of them do when they first need it, making the    *)
(* ARP table (pfm_arp.c).  What the loops do with packets is the subject   *)
(* of Datapath, Classifier and Ports.                                      *)
(***************************************************************************)
EXTENDS Console, FiniteSets

CONSTANTS
  Workers           \* the lcores of the workers, after those below

RxLcore == 1
TxLcore == 2
DistLcore == 3
MainLcore == 0

ASSUME ProgramAssumption == Workers \subseteq Nat \ (0 .. 3)

Loops == {RxLcore, TxLcore, DistLcore} \union Workers
Lcores == Loops \union {MainLcore}

VARIABLES
  main,             \* where main is
  next,             \* the lcore main launches or waits for next
  status,           \* the exit status, once there is one
  force_quit_g,
  loop,             \* where each loop is, or what it has returned
  arp_made,         \* DPDK has a hash of the ARP table's name
  hash_mapper,      \* the pointer to it is not NULL
  arp_up,
  at,               \* where each lcore is in arp_init
  met               \* history: two lcores were in arp_init at once

arp == <<arp_made, hash_mapper, arp_up, at, met>>
programVars == <<main, next, status, force_quit_g, loop, arp>>

Returned == {"returned 0", "returned 1"}
NoStatus == 99

ProgramInit ==
  /\ main = "init" /\ next = TxLcore /\ status = NoStatus
  /\ force_quit_g = FALSE
  /\ loop = [l \in Loops |-> "off"]
  /\ arp_made = FALSE /\ hash_mapper = FALSE /\ arp_up = FALSE
  /\ at = [l \in Lcores |-> "outside"]
  /\ met = FALSE

Alive == main \notin {"exited", "dead"}
Outside(l) == at[l] = "outside"

Exit(s) == main' = "exited" /\ status' = s

-----------------------------------------------------------------------------
(* pfm_init, the links and the KNI ports.                                  *)
pfm_init ==
  /\ main = "init"
  /\ \/ main' = "ports" /\ UNCHANGED <<status, force_quit_g>>
     \/ Exit(1) /\ force_quit_g' = TRUE
  /\ UNCHANGED <<next, loop, arp>>

(* Only the last KNI port is looked at; Ports has the details.             *)
OpenPorts ==
  /\ main = "ports"
  /\ \/ main' = "launch" /\ UNCHANGED status
     \/ Exit(3)
  /\ UNCHANGED <<next, force_quit_g, loop, arp>>

(* pfm_start_pkt_processing: the transmit loop, the distributor, the       *)
(* workers, the receive loop, in this order.  Only workers may fail.       *)
LaunchOrder(l) ==
  CASE l = TxLcore -> DistLcore
    [] l = RxLcore -> MainLcore
    [] OTHER -> LET later == {w \in Workers : w > l}
                IN  IF later = {} THEN RxLcore
                    ELSE CHOOSE w \in later : \A v \in later : w <= v

Launch ==
  /\ main = "launch"
  /\ loop' = [loop EXCEPT ![next] = "test"]
  /\ next' = LaunchOrder(next)
  /\ main' = IF next = RxLcore THEN "console" ELSE "launch"
  /\ UNCHANGED <<status, force_quit_g, arp>>

LaunchFails ==
  /\ main = "launch"
  /\ IF next \in Workers /\ (LaunchOrder(next) # RxLcore \/ \E w \in Workers : loop[w] # "off")
     THEN next' = LaunchOrder(next) /\ UNCHANGED <<main, status, force_quit_g>>
     ELSE Exit(2) /\ force_quit_g' = TRUE /\ UNCHANGED next
  /\ UNCHANGED <<loop, arp>>

-----------------------------------------------------------------------------
(* pfm_arp_print, pfm_arp_query, pfm_arp_process_reply begin like this.    *)
InArpInit(l) == at[l] # "outside"
FirstUse(l) ==
  IF arp_up THEN UNCHANGED arp
  ELSE /\ at' = [at EXCEPT ![l] = "create"]
       /\ met' = (met \/ \E k \in Lcores : InArpInit(k))
       /\ UNCHANGED <<arp_made, hash_mapper, arp_up>>

(* A round of the console, by what its line comes to.  A line that comes   *)
(* to nothing, and the end of the input, make it ask for the next.         *)
Outcomes == {pfm_cli_exec(line) : line \in Lines}

(* Mutant: the console leaves its loop without pfm_terminate.              *)
ReadLine_NoTerminate(r) ==
  /\ main = "console" /\ Outside(MainLcore)
  /\ main' = IF r.ret \in {"EXIT", "SHUTDOWN"} THEN "wait" ELSE "console"
  /\ next' = IF main' = "wait" THEN RxLcore ELSE next
  /\ IF r.call = "arp" THEN FirstUse(MainLcore) ELSE UNCHANGED arp
  /\ UNCHANGED <<status, loop, force_quit_g>>

ReadLine(r) ==
  /\ main = "console" /\ Outside(MainLcore)
  /\ force_quit_g' = (force_quit_g \/ r.call = "pfm_terminate")
  /\ main' = IF r.ret \in {"EXIT", "SHUTDOWN"} THEN "wait" ELSE "console"
  /\ next' = IF main' = "wait" THEN RxLcore ELSE next
  /\ IF r.call = "arp" THEN FirstUse(MainLcore) ELSE UNCHANGED arp
  /\ UNCHANGED <<status, loop>>

(* SIGINT or SIGTERM: the loops end, main does not learn of it.            *)
signal_handler ==
  /\ Alive /\ ~force_quit_g
  /\ force_quit_g' = TRUE
  /\ UNCHANGED <<main, next, status, loop, arp>>

(* rte_eal_wait_lcore, lcore by lcore; one that was not launched has       *)
(* returned 0.                                                             *)
Waitable(l) == loop[l] \in Returned \union {"off"}

WaitLcore ==
  /\ main = "wait" /\ Waitable(next)
  /\ IF loop[next] = "returned 1" THEN Exit(3) /\ UNCHANGED next
     ELSE LET later == {l \in Loops : l > next}
          IN  IF later = {} THEN Exit(0) /\ UNCHANGED next
              ELSE /\ next' = CHOOSE l \in later : \A k \in later : l <= k
                   /\ UNCHANGED <<main, status>>
  /\ UNCHANGED <<force_quit_g, loop, arp>>

-----------------------------------------------------------------------------
(* The loops, as far as they look at force_quit_g.  rx_loop looks twice.   *)
Goes(l, from, to) ==
  /\ Alive /\ Outside(l) /\ loop[l] = from
  /\ loop' = [loop EXCEPT ![l] = to]
  /\ UNCHANGED <<main, next, status, force_quit_g>>

rx_loop ==
  \/ Goes(RxLcore, "test", IF force_quit_g THEN "returned 1" ELSE "again") /\ UNCHANGED arp
  \/ Goes(RxLcore, "again", IF force_quit_g THEN "returned 0" ELSE "round") /\ UNCHANGED arp
  \/ Goes(RxLcore, "round", "test") /\ UNCHANGED arp

(* A burst has an ARP reply.  With a NULL hash its row is the one before   *)
(* the table by -EINVAL: what becomes of the program is anybody's guess.   *)
RxArpReply ==
  \/ Goes(RxLcore, "round", "test") /\ (arp_up => hash_mapper) /\ FirstUse(RxLcore)
  \/ /\ Alive /\ Outside(RxLcore) /\ loop[RxLcore] = "round" /\ arp_up /\ ~hash_mapper
     /\ main' = "dead"
     /\ UNCHANGED <<next, status, force_quit_g, loop, arp>>

(* Mutant: it returns 0 like the receive loop.                             *)
tx_loop_Zero ==
  Goes(TxLcore, "test", "returned 0") /\ force_quit_g /\ UNCHANGED arp

tx_loop ==
  Goes(TxLcore, "test", "returned 1") /\ force_quit_g /\ UNCHANGED arp

dist_loop == Goes(DistLcore, "test", "returned 1") /\ force_quit_g /\ UNCHANGED arp

worker_loop(w) ==
  \/ Goes(w, "test", IF force_quit_g THEN "returned 1" ELSE "get") /\ UNCHANGED arp
  \/ Goes(w, "work", "test") /\ UNCHANGED arp
  \/ Goes(w, "work", "test") /\ FirstUse(w)

(* The distributor answers a worker in rte_distributor_get_pkt as long as  *)
(* its loop runs.                                                          *)
Answer(w) == loop[DistLcore] = "test" /\ Goes(w, "get", "work") /\ UNCHANGED arp

-----------------------------------------------------------------------------
(* arp_init.  rte_hash_create returns NULL if there is a hash of the name, *)
(* or no memory; the timers may fail, and then the next call finds the     *)
(* hash of this one.                                                       *)
In(l, pc) == Alive /\ at[l] = pc /\ UNCHANGED <<main, next, status, force_quit_g, loop>>

Create(l) ==
  /\ In(l, "create")
  /\ \E made \in {FALSE, ~arp_made} :
       /\ arp_made' = (arp_made \/ made)
       /\ at' = [at EXCEPT ![l] = IF made THEN "created" ELSE "failed"]
  /\ UNCHANGED <<hash_mapper, arp_up, met>>

(* Mutant: the pointer is not looked at.                                   *)
Assign_Unchecked(l) ==
  /\ at[l] \in {"created", "failed"} /\ In(l, at[l])
  /\ hash_mapper' = (at[l] = "created")
  /\ at' = [at EXCEPT ![l] = "timers"]
  /\ UNCHANGED <<arp_made, arp_up, met>>

Assign(l) ==
  /\ at[l] \in {"created", "failed"} /\ In(l, at[l])
  /\ hash_mapper' = (at[l] = "created")
  /\ at' = [at EXCEPT ![l] = IF at[l] = "created" THEN "timers" ELSE "outside"]
  /\ UNCHANGED <<arp_made, arp_up, met>>

SetUp(l) ==
  /\ In(l, "timers")
  /\ arp_up' \in {arp_up, TRUE}
  /\ at' = [at EXCEPT ![l] = "outside"]
  /\ UNCHANGED <<arp_made, hash_mapper, met>>

-----------------------------------------------------------------------------
MainStep == pfm_init \/ OpenPorts \/ Launch \/ LaunchFails \/ WaitLcore
arp_init(l) == Create(l) \/ Assign(l) \/ SetUp(l)

ProgramNext ==
  \/ MainStep \/ signal_handler
  \/ \E r \in Outcomes : ReadLine(r)
  \/ rx_loop \/ RxArpReply
  \/ tx_loop \/ dist_loop
  \/ \E w \in Workers : worker_loop(w) \/ Answer(w)
  \/ \E l \in Lcores : arp_init(l)

(* Main does not stop by itself outside the console, and the receive and   *)
(* transmit loops poll.  Nobody need type anything.                        *)
Fairness ==
  /\ WF_programVars(MainStep)
  /\ WF_programVars(rx_loop) /\ WF_programVars(tx_loop)
  /\ \A l \in Lcores : WF_programVars(arp_init(l))

ProgramSpec == ProgramInit /\ [][ProgramNext]_programVars /\ Fairness

-----------------------------------------------------------------------------
ProgramTypeOK ==
  /\ main \in {"init", "ports", "launch", "console", "wait", "exited", "dead"}
  /\ next \in Lcores /\ status \in 0 .. 3 \union {NoStatus}
  /\ force_quit_g \in BOOLEAN
  /\ loop \in [Loops -> {"off", "test", "again", "round", "get", "work"} \union Returned]
  /\ \A b \in {arp_made, hash_mapper, arp_up, met} : b \in BOOLEAN
  /\ at \in [Lcores -> {"outside", "create", "created", "failed", "timers"}]

(* Once the console has taken "shutdown", the program exits, although the  *)
(* distributor may have left workers behind in rte_distributor_get_pkt for *)
(* ever: main waits for the receive and the transmit loop at most, and     *)
(* these always end (cuup.c:88-116, pfm_worker_loop.c:111-117).            *)
ShutdownExits == main = "wait" ~> ~Alive

(* How the program exits.  The status 0 of an orderly end is never given,  *)
(* for the transmit loop returns 1, which main takes for a failure; 2 is   *)
(* given only with no console and a loop that did not start; and 3 either  *)
(* before anything runs or after the console, with a loop that has seen    *)
(* force_quit_g (cuup.c:49-117, pfm_rx_loop.c:42, pfm_tx_loop.c:97).      *)
ExitStatus ==
  main = "exited" =>
    /\ status # 0
    /\ status = 1 => \A l \in Loops : loop[l] = "off"
    /\ status = 2 => force_quit_g /\ loop[RxLcore] = "off"
    /\ status = 3 =>
         \/ \A l \in Loops : loop[l] = "off"
         \/ force_quit_g /\ \E l \in {RxLcore, TxLcore} : loop[l] = "returned 1"

(* An ARP table that counts as up has its hash, and no reply is written    *)
(* outside the table, unless two lcores were in arp_init at once: the      *)
(* receive loop at its first reply, a worker at its first packet, main at  *)
(* "arp list" (pfm_arp.c:46-84, 180-206).                                  *)
ArpMapperSound ==
  ~met => (arp_up => hash_mapper) /\ main # "dead"
=============================================================================
