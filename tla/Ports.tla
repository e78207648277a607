-------------------------------- MODULE Ports --------------------------------
(***************************************************************************)
(* The Ethernet links (pfm_link.c) and the KNI ports (pfm_kni.c), the      *)
(* interfaces through which the kernel's network stack uses the links.     *)
(* Four threads share their two tables: main opens the ports, a monitor    *)
(* looks at the links every half second and sets the carrier of the KNI    *)
(* ports, the receive loop reads the links, and the transmit loop reads    *)
(* the KNI ports.  The kernel asks for a KNI port to be brought up or      *)
(* down; a loop that comes across the request calls back pfm_kni.c, step   *)
(* by step and without a lock, so that two call-backs may meet.            *)
(***************************************************************************)
EXTENDS Naturals, FiniteSetsExt, SequencesExt

CONSTANTS
  LinkNames,        \* the devices main opens, in this order
  KniLinks,         \* for each KNI port main adds, in this order, its link
  Ids,              \* the port ids of DPDK
  MAX_LINK_COUNT, MAX_KNI_PORTS

ASSUME PortsAssumption ==
  /\ Ids \subseteq Nat /\ KniLinks \in Seq(Ids) \ {<<>>}
  /\ LinkNames \in Seq(Range(LinkNames)) /\ IsInjective(LinkNames)
  /\ MAX_LINK_COUNT \in Nat /\ MAX_KNI_PORTS \in Nat

VARIABLES
  mainAt,           \* the next call of main; 0 when it has exited
  link,             \* link_info_list_g up to link_count_g
  dev,              \* the state of each device in DPDK
  kni,              \* kni_info_list_g up to kni_count_g
  running,          \* the KNI ports the kernel has brought up
  carrier,          \* the KNI ports whose carrier is on in the kernel
  req,              \* the request the kernel waits for, if there is one
  queue,            \* it, as long as no loop has taken it
  call,             \* the call-back each loop is in, if any
  unstarted,        \* history: the devices whose last start has failed
  twice,            \* history: a request was taken by both loops
  mon,              \* [at, tell]: the link the monitor is at, 0 before it
                    \* runs, and the KNI ports it still has to tell
  nextLink,         \* next_read of link_read
  nextKni,          \* next_read of kni_read
  flip,             \* alternates with each burst that is read
  watched           \* a link on which one packet, any one, waits, or 0

ports == <<link, kni>>
devs == <<dev, unstarted>>
kernel == <<running, carrier, req>>
calls == <<queue, call, twice>>
reads == <<nextLink, nextKni, flip, watched>>
vars == <<mainAt, ports, devs, kernel, calls, mon, reads>>

Processing == mainAt > Len(LinkNames) + Len(KniLinks)

(* A call-back: what it does next, and on which request.                   *)
ReadLoops == {"rx", "tx"}
NoCall == [pc |-> "none", kni |-> 0, up |-> FALSE]

Init ==
  /\ mainAt = 1
  /\ link = <<>> /\ kni = <<>>
  /\ dev = [id \in Ids |-> "closed"]
  /\ running = {} /\ carrier = {} /\ req = {} /\ queue = {}
  /\ call = [t \in ReadLoops |-> NoCall]
  /\ unstarted = {} /\ twice = FALSE
  /\ mon = [at |-> 0, tell |-> {}]
  /\ nextLink = 1 /\ nextKni = 1
  /\ flip = FALSE /\ watched = 0

-----------------------------------------------------------------------------
(* pfm_link_open gives link_start the index of the new entry where it      *)
(* takes a port id, so a link opens only if the two are equal.  main does  *)
(* not look at the result.                                                 *)
OpenLink ==
  LET n == Len(link)
  IN  /\ mainAt \in DOMAIN LinkNames
      /\ \A i \in 1 .. n : link[i].name # LinkNames[mainAt]
      /\ n < MAX_LINK_COUNT
      /\ \E id \in Ids \ {link[i].id : i \in 1 .. n} :
           /\ link' = Append(link, [name |-> LinkNames[mainAt], id |-> id,
                                    ops |-> "NOTCONFIGURED"])
           /\ \E i \in DOMAIN link' : link'[i].id = n
      /\ dev' = [dev EXCEPT ![n] = "started"]
      /\ mon' \in {mon, [mon EXCEPT !.at = 1]}
      /\ mainAt' = mainAt + 1
      /\ UNCHANGED <<kni, unstarted, kernel, calls, reads>>

(* There is no such device, no room, or a call of DPDK fails.              *)
OpenLinkFails ==
  /\ mainAt \in DOMAIN LinkNames
  /\ mainAt' = mainAt + 1
  /\ UNCHANGED <<ports, devs, kernel, calls, mon, reads>>

(* pfm_ingress_classifier_add and kni_open.                                *)
OpenKni ==
  LET n == mainAt - Len(LinkNames)
  IN  /\ n \in DOMAIN KniLinks /\ Len(kni) < MAX_KNI_PORTS
      /\ kni' = Append(kni, [link |-> KniLinks[n], ops |-> "NOTCONFIGURED"])
      /\ mainAt' = mainAt + 1
      /\ UNCHANGED <<link, devs, kernel, calls, mon, reads>>

(* The kernel refuses the port, or there is no room for it.  main looks at *)
(* the result of the last one only.                                        *)
OpenKniFails ==
  LET n == mainAt - Len(LinkNames)
  IN  /\ n \in DOMAIN KniLinks
      /\ mainAt' = IF n = Len(KniLinks) THEN 0 ELSE mainAt + 1
      /\ UNCHANGED <<ports, devs, kernel, calls, mon, reads>>

-----------------------------------------------------------------------------
(* The kernel brings an interface up, without carrier, or down, and then   *)
(* waits for the answer; it has one such request at a time.  A request     *)
(* that was taken twice is answered twice, and the kernel may have the     *)
(* second answer before it to be taken for that to the next request.       *)
KernelAsks(k) ==
  /\ mainAt # 0 /\ req = {}
  /\ LET asked == {[kni |-> k, up |-> k \notin running]}
     IN  /\ queue' = queue \union asked
         /\ req' \in {asked} \union (IF twice THEN {{}} ELSE {})
  /\ running' = IF k \in running THEN running \ {k} ELSE running \union {k}
  /\ carrier' = carrier \ {k}
  /\ UNCHANGED <<mainAt, ports, devs, call, twice, mon, reads>>

(* rte_kni_handle_request: the queue is meant for one reader, and while    *)
(* one loop takes the request from it the other may do so, too.            *)
CallsBack(t) == call[t].pc # "none"

Takable(t) ==
  queue \union {r \in req : \E u \in ReadLoops \ {t} : CallsBack(u) /\ call[u].kni = r.kni}

Take(t, r) ==
  /\ call' = [call EXCEPT ![t] = [pc |-> "set", kni |-> r.kni, up |-> r.up]]
  /\ twice' = (twice \/ r \notin queue)
  /\ queue' = queue \ {r}

KnisOf(id) == {k \in DOMAIN kni : kni[k].link = id}
LinkOf(t) == kni[call[t].kni].link

(* callback_func_kni_if_config notes the new state of the KNI port ...     *)
SetState(t) ==
  /\ call[t].pc = "set"
  /\ kni' = [kni EXCEPT ![call[t].kni].ops = IF call[t].up THEN "ENABLED" ELSE "DISABLED"]
  /\ call' = [call EXCEPT ![t].pc = "decide"]
  /\ UNCHANGED <<mainAt, link, devs, kernel, queue, twice, mon, reads>>

(* Mutant: the link goes down with any of its KNI ports.                   *)
Decide_Any(t) ==
  /\ call[t].pc = "decide"
  /\ call' = [call EXCEPT ![t].pc = "stop"]
  /\ UNCHANGED <<mainAt, ports, devs, kernel, queue, twice, mon, reads>>

(* ... and looks whether the link has to change.  It is started when one   *)
(* of its KNI ports comes up, and stopped when all of them are down.       *)
Decide(t) ==
  LET changes == call[t].up \/ \A k \in KnisOf(LinkOf(t)) : kni[k].ops = "DISABLED"
  IN  /\ call[t].pc = "decide"
      /\ call' = [call EXCEPT ![t].pc = IF changes THEN "stop" ELSE "answer"]
      /\ UNCHANGED <<mainAt, ports, devs, kernel, queue, twice, mon, reads>>

(* link_state_change stops the device in any case, and then starts it      *)
(* again or not; whether it starts nobody looks at.  A device that was     *)
(* never configured can be neither started nor stopped.                    *)
DevBecomes(id, state) == dev' = [dev EXCEPT ![id] = IF @ = "closed" THEN @ ELSE state]

DevStop(t) ==
  /\ call[t].pc = "stop"
  /\ DevBecomes(LinkOf(t), "stopped") /\ unstarted' = unstarted \ {LinkOf(t)}
  /\ call' = [call EXCEPT ![t].pc = IF call[t].up THEN "start" ELSE "answer"]
  /\ UNCHANGED <<mainAt, ports, kernel, queue, twice, mon, reads>>

DevStart(t) ==
  /\ call[t].pc = "start"
  /\ \/ DevBecomes(LinkOf(t), "started") /\ unstarted' = unstarted \ {LinkOf(t)}
     \/ UNCHANGED dev /\ unstarted' = unstarted \union {LinkOf(t)}
  /\ call' = [call EXCEPT ![t].pc = "answer"]
  /\ UNCHANGED <<mainAt, ports, kernel, queue, twice, mon, reads>>

-----------------------------------------------------------------------------
(* link_statemonitor_pthread_func.  Its first look comes 1.5 seconds after *)
(* the first link was opened; by then main has opened them all.  What the  *)
(* device says of itself may be anything.                                  *)
Past(at) == [at |-> (at % Len(link)) + 1, tell |-> {}]

MonitorLooks ==
  /\ Processing /\ mon.at # 0 /\ mon.tell = {}
  /\ \E state \in {"ENABLED", "DISABLED"} :
       LET told == IF state = link[mon.at].ops THEN {} ELSE KnisOf(link[mon.at].id)
       IN  /\ link' = [link EXCEPT ![mon.at].ops = state]
           /\ mon' = IF told = {} THEN Past(mon.at) ELSE [mon EXCEPT !.tell = told]
  /\ UNCHANGED <<mainAt, kni, devs, kernel, calls, reads>>

(* Mutant: the loop ends at the first KNI port that cannot be told.        *)
kni_state_change_Stops(k) ==
  mon' = IF mon.tell = {k} \/ k \notin running THEN Past(mon.at) ELSE [mon EXCEPT !.tell = @ \ {k}]

kni_state_change(k) ==
  mon' = IF mon.tell = {k} THEN Past(mon.at) ELSE [mon EXCEPT !.tell = @ \ {k}]

(* kni_set_state fails on an interface that is down.                       *)
MonitorTells ==
  LET k == Min(mon.tell)
  IN  /\ mon.tell # {}
      /\ carrier' = IF k \notin running THEN carrier
                    ELSE IF link[mon.at].ops = "ENABLED" THEN carrier \union {k}
                    ELSE carrier \ {k}
      /\ kni_state_change(k)
      /\ UNCHANGED <<mainAt, ports, devs, running, req, calls, reads>>

-----------------------------------------------------------------------------
(* The places of a table of n entries as they come round from place i.     *)
Round(i, n) == [j \in 1 .. n |-> ((i + j - 2) % n) + 1]

PacketComes ==
  /\ Processing /\ watched = 0
  /\ watched' \in DOMAIN link
  /\ UNCHANGED <<mainAt, ports, devs, kernel, calls, mon, nextLink, nextKni, flip>>

(* Mutant: the link that was read is the first to be read again.           *)
link_read_next_Stays(i) == i

link_read_next(i) == (i % Len(link)) + 1

(* link_read takes a burst from the first link in the round that is up and *)
(* has one; the others may have packets or not.  ingress_classify follows: *)
(* kni_write looks for a request of each KNI port it writes to.            *)
RxPoll ==
  /\ Processing /\ ~CallsBack("rx")
  /\ \E j \in DOMAIN link :
       LET place == Round(nextLink, Len(link))
           i == place[j]
       IN  /\ link[i].ops = "ENABLED"
           /\ \A m \in 1 .. j - 1 : place[m] = watched => link[watched].ops # "ENABLED"
           /\ nextLink' = link_read_next(i)
           /\ watched' = IF watched = i THEN 0 ELSE watched
           /\ \/ UNCHANGED calls
              \/ \E r \in Takable("rx") : kni[r.kni].link = link[i].id /\ Take("rx", r)
  /\ flip' = ~flip
  /\ UNCHANGED <<mainAt, ports, devs, kernel, mon, nextKni>>

(* Mutant: the KNI port that was read is the first to be read again.       *)
kni_read_next_Stays(i) == i

kni_read_next(i) == (i % Len(kni)) + 1

(* kni_read looks for a request of one KNI port after the other, and then  *)
(* for packets if the port is up; tx_loop sends them.                      *)
ReadKni ==
  \/ /\ kni[nextKni].ops = "ENABLED"
     /\ nextKni' = kni_read_next(nextKni) /\ flip' = ~flip
  \/ nextKni' = (nextKni % Len(kni)) + 1 /\ UNCHANGED flip

TxPoll ==
  /\ Processing /\ ~CallsBack("tx") /\ kni # <<>>
  /\ \/ /\ \E r \in Takable("tx") : r.kni = nextKni /\ Take("tx", r)
        /\ UNCHANGED <<nextKni, flip>>
     \/ /\ \A r \in queue : r.kni # nextKni
        /\ ReadKni
        /\ UNCHANGED calls
  /\ UNCHANGED <<mainAt, ports, devs, kernel, mon, nextLink, watched>>

(* The call-back returns, and DPDK answers the kernel.                     *)
Return(t) ==
  /\ call[t].pc = "answer"
  /\ req' = {}
  /\ call' = [call EXCEPT ![t] = NoCall]
  /\ IF t = "tx" THEN ReadKni ELSE UNCHANGED <<nextKni, flip>>
  /\ UNCHANGED <<mainAt, ports, devs, running, carrier, queue, twice, mon, nextLink, watched>>

callback_func_kni_if_config(t) ==
  SetState(t) \/ Decide(t) \/ DevStop(t) \/ DevStart(t) \/ Return(t)

RxLoop == RxPoll \/ callback_func_kni_if_config("rx")
TxLoop == TxPoll \/ callback_func_kni_if_config("tx")
Main == OpenLink \/ OpenLinkFails \/ OpenKni \/ OpenKniFails
Monitor == MonitorLooks \/ MonitorTells

Next ==
  \/ Main \/ Monitor \/ RxLoop \/ TxLoop
  \/ PacketComes \/ \E k \in DOMAIN kni : KernelAsks(k)

(***************************************************************************)
(* The two loops have an lcore each and never sleep.  The kernel, the      *)
(* network and the monitor may do nothing more at any time.                *)
(***************************************************************************)
Spec == Init /\ [][Next]_vars /\ WF_vars(RxLoop) /\ WF_vars(TxLoop)

(* TLC's runs end where both loops take one request.                       *)
TakenOnce == ~twice

-----------------------------------------------------------------------------
TypeOK ==
  /\ mainAt \in 0 .. Len(LinkNames) + Len(KniLinks) + 1
  /\ link \in Seq([name : Range(LinkNames), id : Ids,
                   ops : {"NOTCONFIGURED", "ENABLED", "DISABLED"}])
  /\ Len(link) <= MAX_LINK_COUNT /\ Len(kni) <= MAX_KNI_PORTS
  /\ dev \in [Ids -> {"closed", "started", "stopped"}]
  /\ kni \in Seq([link : Ids, ops : {"NOTCONFIGURED", "ENABLED", "DISABLED"}])
  /\ running \subseteq DOMAIN kni /\ carrier \subseteq DOMAIN kni
  /\ mon.tell \subseteq DOMAIN kni
  /\ req \subseteq [kni : DOMAIN kni, up : BOOLEAN]
  /\ queue \subseteq [kni : DOMAIN kni, up : BOOLEAN]
  /\ call \in [ReadLoops -> [pc : {"none", "set", "decide", "stop", "start", "answer"},
                             kni : DOMAIN kni \union {0}, up : BOOLEAN]]
  /\ unstarted \subseteq Ids /\ twice \in BOOLEAN
  /\ mon.at \in {0} \union DOMAIN link
  /\ nextLink \in {1} \union DOMAIN link /\ nextKni \in {1} \union DOMAIN kni
  /\ watched \in {0} \union DOMAIN link /\ flip \in BOOLEAN

(* "if any of the kni associated with link is enabled then the link needs  *)
(* to be enabled" (pfm_kni.c:193-194): in whatever order the kernel asks   *)
(* and whichever loop answers, once it is answered the program knows which *)
(* interfaces are up, and an open link is stopped when all its KNI ports   *)
(* are down and at no other time.  A link that has failed to start is an   *)
(* exception, for nobody looks (pfm_link.c:658); and nothing is said any   *)
(* more once both loops have taken a request, which nothing prevents.      *)
Follows(id) ==
  dev[id] = "stopped" <=> KnisOf(id) # {} /\ \A k \in KnisOf(id) : kni[k].ops = "DISABLED"

LinkFollowsPorts ==
  ~twice /\ req = {} =>
    /\ \A k \in DOMAIN kni : kni[k].ops = "ENABLED" <=> k \in running
    /\ \A i \in DOMAIN link : link[i].id \notin unstarted => Follows(link[i].id)

(* The kernel sees a carrier on an interface that is up only if the        *)
(* monitor last saw its link up, although it does not hear of changes      *)
(* while it is down, and the monitor may be telling it just now.           *)
CarrierHonest ==
  \A k \in carrier \intersect running :
    \/ k \in mon.tell
    \/ \E i \in DOMAIN link : link[i].id = kni[k].link /\ link[i].ops = "ENABLED"

(* The kernel, which stands still until it is answered, is answered, even  *)
(* if the other KNI ports have packets all the time.                       *)
RequestsAnswered == Processing /\ req # {} ~> req = {}

(* A packet on a link that is up is read, even if the others have packets  *)
(* all the time.                                                           *)
PacketsRead ==
  \A i \in DOMAIN LinkNames :
    watched = i ~> watched # i \/ link[i].ops # "ENABLED"
=============================================================================
