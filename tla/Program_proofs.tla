--------------------------- MODULE Program_proofs ---------------------------
(***************************************************************************)
(* Theorems about the program from its start to its exit and about the     *)
(* ports it opens on the way.                                              *)
(***************************************************************************)
EXTENDS Program, Ports, WellFoundedInduction, TLAPS

-----------------------------------------------------------------------------
(***************************************************************************)
(* The ports.  For any number of links and KNI ports, however many of them *)
(* main manages to open: as long as no request is taken twice, a link is   *)
(* stopped exactly when all its KNI ports are down; and a carrier the      *)
(* kernel sees is one the monitor has seen.                                *)
(***************************************************************************)

(* The fields of the type invariant the argument needs.                    *)
OpsState == {"NOTCONFIGURED", "ENABLED", "DISABLED"}
LinkEntry == [name : Range(LinkNames), id : Ids, ops : OpsState]
KniEntry == [link : Ids, ops : OpsState]
CallSteps == {"none", "set", "decide", "stop", "start", "answer"}
Fields ==
  /\ mainAt \in Nat
  /\ link \in Seq(LinkEntry)
  /\ kni \in Seq(KniEntry)
  /\ dev \in [Ids -> {"closed", "started", "stopped"}]
  /\ running \subseteq DOMAIN kni
  /\ req \subseteq [kni : DOMAIN kni, up : BOOLEAN]
  /\ queue \subseteq [kni : DOMAIN kni, up : BOOLEAN]
  /\ call \in [ReadLoops -> [pc : CallSteps, kni : Nat, up : BOOLEAN]]
  /\ \A t \in ReadLoops : CallsBack(t) => call[t].kni \in DOMAIN kni

(* link_start's mistake makes every link's port id its place in the list.  *)
Indexed ==
  \A i \in DOMAIN link : link[i].id = i - 1 /\ dev[link[i].id] # "closed"

(* KNI ports come after the links, and nothing answers the kernel before   *)
(* the loops run.                                                          *)
Quiet ==
  /\ mainAt \in DOMAIN LinkNames => kni = <<>>
  /\ ~Processing => /\ \A k \in DOMAIN kni : kni[k].ops = "NOTCONFIGURED"
                    /\ \A id \in Ids : dev[id] # "stopped"
                    /\ \A t \in ReadLoops : ~CallsBack(t)

(* The kernel has one request at a time, one loop at most is at it, and    *)
(* the kernel's view of the port is ahead of the program's.                *)
Asks(t) == [kni |-> call[t].kni, up |-> call[t].up]
Taken ==
  /\ \A r, s \in req : r = s
  /\ queue \subseteq req
  /\ \A t \in ReadLoops : CallsBack(t) => Asks(t) \in req /\ queue = {}
  /\ \A t, u \in ReadLoops : CallsBack(t) /\ CallsBack(u) => t = u
  /\ \A r \in req : r.up <=> r.kni \in running

(* Of the ports the kernel has not asked about, or has been heard about,   *)
(* the program knows whether they are up.                                  *)
Heard(k) ==
  (\E r \in req : r.kni = k) => \E t \in ReadLoops : CallsBack(t) /\ call[t].pc # "set"
Known == \A k \in DOMAIN kni : Heard(k) => (kni[k].ops = "ENABLED" <=> k \in running)

(* What a call-back has found out on its way ...                           *)
Open == {link[i].id : i \in DOMAIN link}
AllDown(id) == \A k \in KnisOf(id) : kni[k].ops = "DISABLED"
AtLink(t) == call[t].pc \in {"decide", "stop", "start"}
OnTheWay ==
  \A t \in ReadLoops : AtLink(t) =>
    /\ kni[call[t].kni].ops = IF call[t].up THEN "ENABLED" ELSE "DISABLED"
    /\ call[t].pc = "decide" /\ ~call[t].up /\ LinkOf(t) \in Open \ unstarted
         => AllDown(LinkOf(t)) \/ dev[LinkOf(t)] # "stopped"
    /\ call[t].pc = "stop" /\ ~call[t].up => AllDown(LinkOf(t))
    /\ call[t].pc = "start" => call[t].up

(* ... and every link no call-back is at is as its ports want it.          *)
Settled ==
  \A id \in Open \ unstarted :
    (\A t \in ReadLoops : AtLink(t) => LinkOf(t) # id) => Follows(id)

Once == ~twice => Taken /\ Known /\ OnTheWay /\ Settled

PortsInv == Fields /\ Indexed /\ Quiet /\ Once

LEMMA Counts ==
  /\ Len(LinkNames) \in Nat /\ DOMAIN LinkNames = 1 .. Len(LinkNames)
  /\ Len(KniLinks) \in Nat /\ DOMAIN KniLinks = 1 .. Len(KniLinks)
  /\ \A n \in DOMAIN KniLinks : KniLinks[n] \in Ids
BY PortsAssumption

LEMMA Elements ==
  ASSUME NEW S, NEW s \in Seq(S)
  PROVE  /\ Len(s) \in Nat /\ DOMAIN s = 1 .. Len(s)
         /\ \A i \in DOMAIN s : s[i] \in S
OBVIOUS

LEMMA Replaced ==
  ASSUME NEW S, NEW s \in Seq(S), NEW e \in S, NEW i \in DOMAIN s
  PROVE  /\ [s EXCEPT ![i] = e] \in Seq(S)
         /\ DOMAIN [s EXCEPT ![i] = e] = DOMAIN s
         /\ [s EXCEPT ![i] = e][i] = e
         /\ \A j \in DOMAIN s \ {i} : [s EXCEPT ![i] = e][j] = s[j]
OBVIOUS

LEMMA Types ==
  ASSUME Fields
  PROVE  /\ Len(link) \in Nat /\ DOMAIN link = 1 .. Len(link)
         /\ \A i \in DOMAIN link : link[i].id \in Ids
         /\ Len(kni) \in Nat /\ DOMAIN kni = 1 .. Len(kni)
         /\ \A k \in DOMAIN kni : kni[k].link \in Ids /\ kni[k].ops \in OpsState
<1>1. /\ Len(link) \in Nat /\ DOMAIN link = 1 .. Len(link)
      /\ \A i \in DOMAIN link : link[i] \in LinkEntry
  BY Elements, Zenon DEF Fields
<1>2. /\ Len(kni) \in Nat /\ DOMAIN kni = 1 .. Len(kni)
      /\ \A k \in DOMAIN kni : kni[k] \in KniEntry
  BY Elements, Zenon DEF Fields
<1>3. QED BY <1>1, <1>2 DEF LinkEntry, KniEntry

LEMMA InitPorts == Init => PortsInv
<1> SUFFICES ASSUME Init PROVE PortsInv
  OBVIOUS
<1>1. DOMAIN link = {} /\ DOMAIN kni = {} /\ req = {} /\ queue = {}
  BY DEF Init
<1>2. NoCall \in [pc : CallSteps, kni : Nat, up : BOOLEAN] /\ NoCall.pc = "none"
  BY DEF NoCall, CallSteps
<1>3. \A t \in ReadLoops : ~CallsBack(t) /\ ~AtLink(t)
  BY <1>2 DEF Init, CallsBack, AtLink
<1>4. Fields
  <2>1. call \in [ReadLoops -> [pc : CallSteps, kni : Nat, up : BOOLEAN]]
    BY <1>2 DEF Init
  <2>2. QED BY <2>1, <1>1, <1>3 DEF Init, Fields
<1>5. Once
  BY <1>1, <1>3 DEF Once, Taken, Known, OnTheWay, Settled, Open
<1>6. Indexed /\ Quiet
  BY <1>1, <1>3, Counts DEF Init, Indexed, Quiet
<1>7. QED BY <1>4, <1>5, <1>6 DEF PortsInv

(* A step that changes neither the devices, nor the KNI ports, nor which   *)
(* links are open, nor where main and the call-backs are.                  *)
LEMMA SamePorts ==
  ASSUME PortsInv, link' \in Seq(LinkEntry),
         mainAt' = mainAt, devs' = devs, kni' = kni, calls' = calls,
         running' = running, req' = req,
         DOMAIN link' = DOMAIN link,
         \A i \in DOMAIN link : link'[i].id = link[i].id
  PROVE  PortsInv'
<1>1. /\ dev' = dev /\ unstarted' = unstarted /\ queue' = queue /\ call' = call
      /\ twice' = twice
  BY DEF devs, calls
<1>2. Fields'
  BY <1>1 DEF PortsInv, Fields, CallsBack
<1>3. Indexed'
  BY <1>1 DEF PortsInv, Indexed
<1>4. Quiet'
  BY <1>1 DEF PortsInv, Quiet, Processing, CallsBack
<1>5. Open' = Open
  BY DEF Open
<1>6. Once'
  <2> SUFFICES ASSUME ~twice PROVE (Taken /\ Known /\ OnTheWay /\ Settled)'
    BY <1>1 DEF Once
  <2>1. Taken /\ Known /\ OnTheWay /\ Settled
    BY DEF PortsInv, Once
  <2>2. Taken' /\ Known'
    BY <2>1, <1>1 DEF Taken, Known, Heard, Asks, CallsBack
  <2>3. \A t : AtLink(t)' = AtLink(t) /\ LinkOf(t)' = LinkOf(t)
    BY <1>1 DEF AtLink, LinkOf
  <2>4. \A id : KnisOf(id)' = KnisOf(id) /\ AllDown(id)' = AllDown(id)
    BY <1>1 DEF KnisOf, AllDown
  <2>5. \A id : Follows(id)' = Follows(id)
    BY <1>1, <2>4 DEF Follows
  <2>6. OnTheWay'
    BY <2>1, <2>3, <2>4, <1>1, <1>5 DEF OnTheWay
  <2>7. Settled'
    BY <2>1, <2>3, <2>5, <1>1, <1>5 DEF Settled
  <2>8. QED BY <2>2, <2>6, <2>7
<1>7. QED BY <1>2, <1>3, <1>4, <1>6 DEF PortsInv

(* Before the loops run there is little to keep.                           *)
LEMMA BeforeLoops ==
  ASSUME Fields', (~twice => Taken /\ Known)',
         \A k \in DOMAIN kni' : kni'[k].ops = "NOTCONFIGURED",
         \A id \in Ids : dev'[id] # "stopped",
         \A t \in ReadLoops : ~CallsBack(t)'
  PROVE  Once'
<1>1. \A t \in ReadLoops : ~AtLink(t)'
  BY DEF CallsBack, AtLink
<1>2. \A id \in Ids : Follows(id)'
  <2> SUFFICES ASSUME NEW id \in Ids PROVE Follows(id)'
    OBVIOUS
  <2>1. KnisOf(id)' # {} => \E k \in KnisOf(id)' : kni'[k].ops # "DISABLED"
    BY DEF KnisOf
  <2>2. QED BY <2>1 DEF Follows
<1>3. Open' \subseteq Ids
  <2>1. link' \in Seq(LinkEntry)
    BY DEF Fields
  <2>2. \A i \in DOMAIN link' : link'[i] \in LinkEntry
    BY <2>1, Elements, Zenon
  <2>3. QED BY <2>2 DEF Open, LinkEntry
<1>4. QED BY <1>1, <1>2, <1>3 DEF Once, OnTheWay, Settled

LEMMA OpenLinkStep ==
  ASSUME PortsInv, OpenLink
  PROVE  PortsInv'
<1> DEFINE n == Len(link)
<1>1. /\ mainAt \in DOMAIN LinkNames /\ mainAt' = mainAt + 1
      /\ dev' = [dev EXCEPT ![n] = "started"]
      /\ UNCHANGED <<kni, running, req, queue, call, twice>>
  BY DEF OpenLink, kernel, calls
<1>2. PICK id \in Ids \ {link[i].id : i \in 1 .. n} :
        /\ link' = Append(link, [name |-> LinkNames[mainAt], id |-> id, ops |-> "NOTCONFIGURED"])
        /\ \E i \in DOMAIN link' : link'[i].id = n
  BY DEF OpenLink
<1>3. /\ n \in Nat /\ DOMAIN link = 1 .. n /\ DOMAIN link' = 1 .. n + 1
      /\ \A i \in 1 .. n : link'[i] = link[i]
      /\ link'[n + 1].id = id
  <2>1. link \in Seq(LinkEntry)
    BY DEF PortsInv, Fields
  <2>2. QED BY <1>2, <2>1
<1>4. id = n
  <2>1. PICK i \in 1 .. n + 1 : link'[i].id = n
    BY <1>2, <1>3
  <2>2. i \notin 1 .. n
    BY <2>1, <1>3 DEF PortsInv, Indexed
  <2>3. QED BY <2>1, <2>2, <1>3
<1>5. kni = <<>> /\ ~Processing /\ DOMAIN kni = {}
  BY <1>1, Counts DEF PortsInv, Quiet, Processing
<1>6. /\ dev' \in [Ids -> {"closed", "started", "stopped"}]
      /\ dev'[n] = "started" /\ \A j \in Ids : dev'[j] # "stopped"
  BY <1>1, <1>2, <1>4, <1>5 DEF PortsInv, Fields, Quiet
<1>7. Fields'
  <2>1. LinkNames[mainAt] \in Range(LinkNames)
    BY <1>1, PortsAssumption
  <2>2. [name |-> LinkNames[mainAt], id |-> id, ops |-> "NOTCONFIGURED"] \in LinkEntry
    BY <2>1, <1>2 DEF LinkEntry, OpsState
  <2>3. link' \in Seq(LinkEntry)
    BY <1>2, <2>2 DEF PortsInv, Fields
  <2>4. QED BY <2>3, <1>1, <1>6 DEF PortsInv, Fields, CallsBack
<1>8. Indexed'
  <2> SUFFICES ASSUME NEW i \in 1 .. n + 1
               PROVE  link'[i].id = i - 1 /\ dev'[link'[i].id] # "closed"
    BY <1>3 DEF Indexed
  <2>1. CASE i = n + 1
    BY <2>1, <1>3, <1>4, <1>6
  <2>2. CASE i \in 1 .. n
    <3>1. link[i].id = i - 1 /\ dev[i - 1] # "closed" /\ i - 1 \in Ids /\ i - 1 # n
      BY <2>2, <1>3, Types DEF PortsInv, Indexed
    <3>2. dev'[i - 1] = dev[i - 1]
      BY <3>1, <1>1 DEF PortsInv, Fields
    <3>3. QED BY <3>1, <3>2, <2>2, <1>3
  <2>3. QED BY <2>1, <2>2, <1>3
<1>9. Quiet' /\ \A t \in ReadLoops : ~CallsBack(t)'
  <2>1. \A t \in ReadLoops : ~CallsBack(t)'
    BY <1>1, <1>5 DEF PortsInv, Quiet, CallsBack
  <2>2. QED BY <2>1, <1>1, <1>5, <1>6 DEF Quiet
<1>10. (~twice => Taken /\ Known)'
  BY <1>1 DEF PortsInv, Once, Taken, Known, Heard, Asks, CallsBack
<1>11. Once'
  BY <1>1, <1>5, <1>6, <1>7, <1>9, <1>10, BeforeLoops
<1>12. QED BY <1>7, <1>8, <1>9, <1>11 DEF PortsInv

LEMMA OpenKniStep ==
  ASSUME PortsInv, OpenKni
  PROVE  PortsInv'
<1> DEFINE n == mainAt - Len(LinkNames)
           new == [link |-> KniLinks[n], ops |-> "NOTCONFIGURED"]
<1>1. /\ n \in DOMAIN KniLinks /\ kni' = Append(kni, new) /\ mainAt' = mainAt + 1
      /\ UNCHANGED <<link, dev, running, req, queue, call, twice>>
  BY DEF OpenKni, devs, kernel, calls
<1>2. /\ Len(kni) \in Nat /\ DOMAIN kni = 1 .. Len(kni) /\ DOMAIN kni' = 1 .. Len(kni) + 1
      /\ \A k \in DOMAIN kni : kni'[k] = kni[k]
      /\ kni'[Len(kni) + 1] = new
  BY <1>1 DEF PortsInv, Fields
<1>3. ~Processing /\ mainAt \notin DOMAIN LinkNames /\ mainAt' \notin DOMAIN LinkNames
  BY <1>1, Counts DEF Processing, PortsInv, Fields
<1>4. \A t \in ReadLoops : ~CallsBack(t) /\ ~CallsBack(t)'
  BY <1>1, <1>3 DEF PortsInv, Quiet, CallsBack
<1>5. Fields'
  <2>1. new \in KniEntry
    BY <1>1, Counts DEF OpsState, KniEntry
  <2>2. kni' \in Seq(KniEntry)
    BY <1>1, <2>1 DEF PortsInv, Fields
  <2>3. /\ req' \subseteq [kni : DOMAIN kni', up : BOOLEAN]
        /\ queue' \subseteq [kni : DOMAIN kni', up : BOOLEAN]
        /\ running' \subseteq DOMAIN kni'
    BY <1>1, <1>2 DEF PortsInv, Fields
  <2>4. QED BY <1>1, <1>4, <2>2, <2>3 DEF PortsInv, Fields
<1>6. Indexed'
  BY <1>1 DEF PortsInv, Indexed
<1>7. \A k \in DOMAIN kni' : kni'[k].ops = "NOTCONFIGURED"
  BY <1>2, <1>3 DEF PortsInv, Quiet
<1>8. Quiet'
  <2>1. \A id \in Ids : dev[id] # "stopped"
    BY <1>3 DEF PortsInv, Quiet
  <2>2. QED BY <2>1, <1>1, <1>3, <1>4, <1>7 DEF Quiet
<1>9. (~twice => Taken /\ Known)'
  <2> SUFFICES ASSUME ~twice PROVE Taken' /\ Known'
    BY <1>1
  <2>1. Taken /\ Known
    BY <1>1 DEF PortsInv, Once
  <2>2. Taken'
    BY <2>1, <1>1, <1>4 DEF Taken
  <2>3. ASSUME NEW k \in DOMAIN kni', Heard(k)' PROVE k \notin running
    <3>1. CASE k \in DOMAIN kni
      <4>1. Heard(k) /\ kni[k].ops # "ENABLED"
        BY <2>3, <3>1, <1>1, <1>2, <1>7 DEF Heard, CallsBack
      <4>2. QED BY <4>1, <3>1, <2>1 DEF Known
    <3>2. CASE k \notin DOMAIN kni
      BY <3>2 DEF PortsInv, Fields
    <3>3. QED BY <3>1, <3>2
  <2>4. QED BY <2>2, <2>3, <1>1, <1>7 DEF Known
<1>10. Once'
  <2>1. \A id \in Ids : dev'[id] # "stopped"
    BY <1>1, <1>3 DEF PortsInv, Quiet
  <2>2. QED BY <1>4, <1>5, <1>7, <1>9, <2>1, BeforeLoops
<1>11. QED BY <1>5, <1>6, <1>8, <1>10 DEF PortsInv

(* A loop takes a request: the one there is, which no loop is at.          *)
LEMMA TakeStep ==
  ASSUME PortsInv, Processing, NEW t \in ReadLoops, ~CallsBack(t),
         NEW r \in Takable(t), Take(t, r),
         mainAt' = mainAt, devs' = devs, kni' = kni, link' = link,
         running' = running, req' = req
  PROVE  PortsInv'
<1>1. /\ dev' = dev /\ unstarted' = unstarted /\ queue' = queue \ {r}
      /\ call' = [call EXCEPT ![t] = [pc |-> "set", kni |-> r.kni, up |-> r.up]]
      /\ twice' = (twice \/ r \notin queue)
  BY DEF devs, Take
<1>2. r \in [kni : DOMAIN kni, up : BOOLEAN] /\ DOMAIN kni \subseteq Nat
  BY Types DEF PortsInv, Fields, Takable
<1>3. /\ call' \in [ReadLoops -> [pc : CallSteps, kni : Nat, up : BOOLEAN]]
      /\ call'[t] = [pc |-> "set", kni |-> r.kni, up |-> r.up]
      /\ \A u \in ReadLoops \ {t} : call'[u] = call[u]
  <2>1. [pc |-> "set", kni |-> r.kni, up |-> r.up] \in [pc : CallSteps, kni : Nat, up : BOOLEAN]
    BY <1>2 DEF CallSteps
  <2>2. QED BY <1>1, <2>1 DEF PortsInv, Fields
<1>4. CallsBack(t)' /\ \A u \in ReadLoops \ {t} : CallsBack(u)' <=> CallsBack(u)
  BY <1>3 DEF CallsBack
<1>5. Fields'
  BY <1>1, <1>2, <1>3, <1>4 DEF PortsInv, Fields
<1>6. Indexed'
  BY <1>1 DEF PortsInv, Indexed
<1>7. Quiet'
  BY <1>1 DEF PortsInv, Quiet, Processing
<1>8. Once'
  <2> SUFFICES ASSUME ~twice' PROVE (Taken /\ Known /\ OnTheWay /\ Settled)'
    BY DEF Once
  <2>1. Taken /\ Known /\ OnTheWay /\ Settled /\ r \in queue
    BY <1>1 DEF PortsInv, Once
  <2>2. \A u \in ReadLoops : ~CallsBack(u)
    BY <2>1 DEF Taken
  <2>3. Asks(t)' = r
    BY <1>2, <1>3 DEF Asks
  <2>4. Taken'
    BY <2>1, <2>2, <2>3, <1>1, <1>4 DEF Taken
  <2>5. Known'
    <3>1. \A k : Heard(k)' => Heard(k)
      BY <2>2, <1>3, <1>4 DEF Heard
    <3>2. QED BY <2>1, <3>1 DEF Known
  <2>6. \A u \in ReadLoops : ~AtLink(u) /\ ~AtLink(u)'
    BY <2>2, <1>3 DEF AtLink, CallsBack
  <2>7. OnTheWay'
    BY <2>6 DEF OnTheWay
  <2>8. Settled'
    <3>1. \A id : Follows(id)' = Follows(id)
      BY <1>1 DEF Follows, KnisOf
    <3>2. QED BY <2>1, <2>6, <3>1, <1>1 DEF Settled, Open
  <2>9. QED BY <2>1, <2>4, <2>5, <2>7, <2>8
<1>9. QED BY <1>5, <1>6, <1>7, <1>8 DEF PortsInv

(* A call-back that goes on, alone if no request was taken twice.          *)
LEMMA GoesOn ==
  ASSUME PortsInv, NEW t \in ReadLoops, CallsBack(t), NEW pc \in CallSteps,
         call' = [call EXCEPT ![t].pc = pc], DOMAIN kni' = DOMAIN kni,
         UNCHANGED <<running, req, queue, twice>>
  PROVE  /\ call' \in [ReadLoops -> [pc : CallSteps, kni : Nat, up : BOOLEAN]]
         /\ call'[t].pc = pc /\ call'[t].kni = call[t].kni /\ call'[t].up = call[t].up
         /\ \A u \in ReadLoops \ {t} : call'[u] = call[u]
         /\ call[t].kni \in DOMAIN kni /\ call[t].up \in BOOLEAN
         /\ \A u \in ReadLoops : CallsBack(u)' => call'[u].kni \in DOMAIN kni'
         /\ pc # "none" /\ ~twice => Taken'
         /\ ~twice => \A u \in ReadLoops \ {t} : ~AtLink(u) /\ ~AtLink(u)'
<1>1. /\ call \in [ReadLoops -> [pc : CallSteps, kni : Nat, up : BOOLEAN]]
      /\ \A u \in ReadLoops : CallsBack(u) => call[u].kni \in DOMAIN kni
  BY DEF PortsInv, Fields
<1>2. /\ call' \in [ReadLoops -> [pc : CallSteps, kni : Nat, up : BOOLEAN]]
      /\ call'[t].pc = pc /\ call'[t].kni = call[t].kni /\ call'[t].up = call[t].up
      /\ \A u \in ReadLoops \ {t} : call'[u] = call[u]
  BY <1>1
<1>3. /\ call[t].kni \in DOMAIN kni /\ call[t].up \in BOOLEAN
      /\ \A u \in ReadLoops : CallsBack(u)' => call'[u].kni \in DOMAIN kni'
  BY <1>1, <1>2 DEF CallsBack
<1>4. ASSUME ~twice
      PROVE  /\ pc # "none" => Taken'
             /\ \A u \in ReadLoops \ {t} : ~AtLink(u) /\ ~AtLink(u)'
  <2>1. Taken
    BY <1>4 DEF PortsInv, Once
  <2>2. \A u \in ReadLoops \ {t} : ~CallsBack(u) /\ ~CallsBack(u)'
    BY <2>1, <1>2 DEF Taken, CallsBack
  <2>3. Asks(t)' = Asks(t)
    BY <1>2 DEF Asks
  <2>4. Taken'
    BY <2>1, <2>2, <2>3 DEF Taken
  <2>5. QED BY <2>2, <2>4 DEF CallsBack, AtLink
<1>5. QED BY <1>2, <1>3, <1>4

LEMMA SetStateLinks ==
  ASSUME Fields, NEW t \in ReadLoops, SetState(t)
  PROVE  /\ kni' \in Seq(KniEntry) /\ DOMAIN kni' = DOMAIN kni
         /\ \A j \in DOMAIN kni : kni'[j].link = kni[j].link
         /\ kni'[call[t].kni].ops = IF call[t].up THEN "ENABLED" ELSE "DISABLED"
         /\ \A j \in DOMAIN kni \ {call[t].kni} : kni'[j].ops = kni[j].ops
<1> DEFINE k == call[t].kni
           ops == IF call[t].up THEN "ENABLED" ELSE "DISABLED"
           new == [kni[k] EXCEPT !.ops = ops]
<1>1. k \in DOMAIN kni /\ kni' = [kni EXCEPT ![k] = new]
  BY DEF SetState, CallsBack, Fields
<1>2. kni \in Seq(KniEntry) /\ kni[k] \in KniEntry
  BY <1>1, Elements, Zenon DEF Fields
<1>3. new \in KniEntry /\ new.link = kni[k].link /\ new.ops = ops
  BY <1>2 DEF KniEntry, OpsState
<1> HIDE DEF new
<1>4. /\ kni' \in Seq(KniEntry) /\ DOMAIN kni' = DOMAIN kni
      /\ kni'[k] = new /\ \A j \in DOMAIN kni \ {k} : kni'[j] = kni[j]
  BY <1>1, <1>2, <1>3, Replaced, Zenon
<1>5. QED BY <1>1, <1>3, <1>4

LEMMA SetStateStep ==
  ASSUME PortsInv, NEW t \in ReadLoops, SetState(t)
  PROVE  PortsInv'
<1> DEFINE k == call[t].kni
           ops == IF call[t].up THEN "ENABLED" ELSE "DISABLED"
<1>1. /\ call[t].pc = "set" /\ kni' = [kni EXCEPT ![k].ops = ops]
      /\ call' = [call EXCEPT ![t].pc = "decide"]
      /\ UNCHANGED <<mainAt, link, dev, unstarted, running, req, queue, twice>>
  BY DEF SetState, devs, kernel
<1>2. CallsBack(t) /\ Processing /\ k \in DOMAIN kni
  BY <1>1 DEF CallsBack, PortsInv, Quiet, Fields
<1>3. /\ kni' \in Seq(KniEntry) /\ DOMAIN kni' = DOMAIN kni
      /\ \A j \in DOMAIN kni : kni'[j].link = kni[j].link
      /\ kni'[k].ops = ops
      /\ \A j \in DOMAIN kni \ {k} : kni'[j].ops = kni[j].ops
  BY SetStateLinks DEF PortsInv
<1>4. /\ call' \in [ReadLoops -> [pc : CallSteps, kni : Nat, up : BOOLEAN]]
      /\ call'[t].pc = "decide" /\ call'[t].kni = k /\ call'[t].up = call[t].up
      /\ \A u \in ReadLoops \ {t} : call'[u] = call[u]
      /\ \A u \in ReadLoops : CallsBack(u)' => call'[u].kni \in DOMAIN kni'
      /\ ~twice => Taken' /\ \A u \in ReadLoops \ {t} : ~AtLink(u) /\ ~AtLink(u)'
  BY <1>1, <1>2, <1>3, GoesOn DEF CallSteps
<1>5. Fields'
  BY <1>1, <1>3, <1>4 DEF PortsInv, Fields
<1>6. Indexed' /\ Quiet'
  BY <1>1, <1>2 DEF PortsInv, Indexed, Quiet, Processing
<1>7. Once'
  <2> SUFFICES ASSUME ~twice PROVE (Taken /\ Known /\ OnTheWay /\ Settled)'
    BY <1>1 DEF Once
  <2>1. Taken /\ Known /\ OnTheWay /\ Settled
    BY DEF PortsInv, Once
  <2>2. Known'
    <3> SUFFICES ASSUME NEW j \in DOMAIN kni, Heard(j)'
                 PROVE  kni'[j].ops = "ENABLED" <=> j \in running
      BY <1>1, <1>3 DEF Known
    <3>1. CASE j = k
      <4>1. Asks(t) \in req /\ (call[t].up <=> k \in running)
        BY <2>1, <1>2 DEF Taken, Asks
      <4>2. QED BY <4>1, <3>1, <1>3
    <3>2. CASE j # k
      <4>1. \A r \in req : r.kni = k
        <5>1. Asks(t) \in req /\ \A r \in req : r = Asks(t)
          BY <2>1, <1>2 DEF Taken
        <5>2. QED BY <5>1 DEF Asks
      <4>2. Heard(j)
        BY <4>1, <3>2 DEF Heard
      <4>3. QED BY <4>2, <3>2, <2>1, <1>3 DEF Known
    <3>3. QED BY <3>1, <3>2
  <2>3. \A id : KnisOf(id)' = KnisOf(id)
    BY <1>3 DEF KnisOf
  <2>4. LinkOf(t)' = LinkOf(t) /\ k \in KnisOf(LinkOf(t)) /\ ~AtLink(t) /\ AtLink(t)'
    BY <1>1, <1>2, <1>3, <1>4 DEF LinkOf, KnisOf, AtLink
  <2>5. \A id \in Open \ unstarted : Follows(id)
    BY <2>1, <2>4, <1>4 DEF Settled
  <2>6. OnTheWay'
    <3>1. LinkOf(t) \in Open \ unstarted /\ ~call[t].up =>
            AllDown(LinkOf(t))' \/ dev[LinkOf(t)] # "stopped"
      <4> SUFFICES ASSUME LinkOf(t) \in Open \ unstarted, ~call[t].up,
                          dev[LinkOf(t)] = "stopped"
                   PROVE  AllDown(LinkOf(t))'
        OBVIOUS
      <4>1. \A j \in KnisOf(LinkOf(t)) : kni[j].ops = "DISABLED"
        BY <2>5 DEF Follows
      <4>2. \A j \in KnisOf(LinkOf(t)) : kni'[j].ops = "DISABLED"
        <5> SUFFICES ASSUME NEW j \in KnisOf(LinkOf(t)) PROVE kni'[j].ops = "DISABLED"
          OBVIOUS
        <5>1. j \in DOMAIN kni
          BY DEF KnisOf
        <5>2. CASE j = k
          BY <5>2, <1>3
        <5>3. CASE j # k
          BY <5>1, <5>3, <4>1, <1>3
        <5>4. QED BY <5>2, <5>3
      <4>3. QED BY <4>2, <2>3, <2>4 DEF AllDown
    <3>2. QED BY <3>1, <2>4, <1>1, <1>3, <1>4 DEF OnTheWay, Open
  <2>7. Settled'
    <3> SUFFICES ASSUME NEW id \in Open \ unstarted, id # LinkOf(t) PROVE Follows(id)'
      BY <2>4, <1>1 DEF Settled, Open
    <3>1. \A j \in KnisOf(id) : kni'[j].ops = kni[j].ops
      BY <1>2, <1>3 DEF KnisOf, LinkOf
    <3>2. QED BY <2>3, <2>5, <3>1, <1>1 DEF Follows
  <2>8. QED BY <2>2, <2>6, <2>7, <1>4
<1>8. QED BY <1>5, <1>6, <1>7 DEF PortsInv

LEMMA DecideStep ==
  ASSUME PortsInv, NEW t \in ReadLoops, Decide(t)
  PROVE  PortsInv'
<1> DEFINE L == LinkOf(t)
           changes == call[t].up \/ AllDown(L)
           pc == IF changes THEN "stop" ELSE "answer"
<1>1. /\ call[t].pc = "decide" /\ call' = [call EXCEPT ![t].pc = pc]
      /\ UNCHANGED <<mainAt, link, kni, dev, unstarted, running, req, queue, twice>>
  BY DEF Decide, AllDown, devs, ports, kernel
<1>2. CallsBack(t) /\ Processing /\ call[t].kni \in DOMAIN kni /\ pc \in CallSteps /\ pc # "none"
  BY <1>1 DEF CallsBack, PortsInv, Quiet, Fields, CallSteps
<1> HIDE DEF pc
<1>4. /\ call' \in [ReadLoops -> [pc : CallSteps, kni : Nat, up : BOOLEAN]]
      /\ call'[t].pc = pc /\ call'[t].kni = call[t].kni /\ call'[t].up = call[t].up
      /\ \A u \in ReadLoops \ {t} : call'[u] = call[u]
      /\ \A u \in ReadLoops : CallsBack(u)' => call'[u].kni \in DOMAIN kni'
      /\ ~twice => Taken' /\ \A u \in ReadLoops \ {t} : ~AtLink(u) /\ ~AtLink(u)'
  BY <1>1, <1>2, GoesOn
<1>5. Fields'
  BY <1>1, <1>4 DEF PortsInv, Fields
<1>6. Indexed' /\ Quiet'
  BY <1>1, <1>2 DEF PortsInv, Indexed, Quiet, Processing
<1>7. Once'
  <2> SUFFICES ASSUME ~twice PROVE (Taken /\ Known /\ OnTheWay /\ Settled)'
    BY <1>1 DEF Once
  <2>1. Taken /\ Known /\ OnTheWay /\ Settled
    BY DEF PortsInv, Once
  <2>2. Known'
    <3>1. \A k : Heard(k)' => Heard(k)
      BY <1>1, <1>4 DEF Heard, CallsBack
    <3>2. QED BY <2>1, <3>1, <1>1 DEF Known
  <2>3. \A id : KnisOf(id)' = KnisOf(id) /\ AllDown(id)' = AllDown(id) /\ Follows(id)' = Follows(id)
    BY <1>1 DEF KnisOf, AllDown, Follows
  <2>4. LinkOf(t)' = L /\ AtLink(t) /\ (AtLink(t)' <=> changes)
    BY <1>1, <1>4 DEF LinkOf, AtLink, pc
  <2>5. OnTheWay'
    BY <2>1, <2>3, <2>4, <1>1, <1>4 DEF OnTheWay, Open, pc
  <2>6. Settled'
    <3> SUFFICES ASSUME NEW id \in Open \ unstarted, ~changes \/ id # L PROVE Follows(id)
      BY <2>3, <2>4, <1>1, Zenon DEF Settled, Open
    <3>1. CASE id # L
      BY <2>1, <3>1, <1>4 DEF Settled
    <3>2. CASE id = L /\ ~changes
      <4>1. call[t].kni \in KnisOf(L) /\ ~AllDown(L) /\ dev[L] # "stopped"
        BY <2>1, <2>4, <3>2, <1>1, <1>2 DEF OnTheWay, KnisOf, LinkOf
      <4>2. QED BY <4>1, <3>2 DEF Follows, AllDown
    <3>3. QED BY <3>1, <3>2
  <2>7. QED BY <2>2, <2>5, <2>6, <1>4
<1>8. QED BY <1>5, <1>6, <1>7 DEF PortsInv

(* The device of the call-back's link, and no other, changes; a device     *)
(* that is closed stays so.                                                *)
LEMMA DeviceStep ==
  ASSUME PortsInv, NEW t \in ReadLoops, CallsBack(t),
         NEW state \in {"started", "stopped"}, DevBecomes(LinkOf(t), state)
  PROVE  /\ LinkOf(t) \in Ids
         /\ dev' \in [Ids -> {"closed", "started", "stopped"}]
         /\ dev'[LinkOf(t)] = IF dev[LinkOf(t)] = "closed" THEN "closed" ELSE state
         /\ \A id \in Ids \ {LinkOf(t)} : dev'[id] = dev[id]
<1>1. LinkOf(t) \in Ids /\ dev \in [Ids -> {"closed", "started", "stopped"}]
  BY Types DEF PortsInv, Fields, LinkOf
<1>2. QED BY <1>1 DEF DevBecomes

(* A step of a call-back that changes its own link's device at most, and   *)
(* after which that link is as its ports want it, or has failed to start,  *)
(* or is to be started.                                                    *)
LEMMA LinkStep ==
  ASSUME PortsInv, NEW t \in ReadLoops, AtLink(t),
         NEW pc \in CallSteps, pc \notin {"none", "set", "decide", "stop"},
         call' = [call EXCEPT ![t].pc = pc],
         UNCHANGED <<mainAt, link, kni, running, req, queue, twice>>,
         dev' \in [Ids -> {"closed", "started", "stopped"}],
         \A id \in Ids : dev[id] # "closed" => dev'[id] # "closed",
         \A id \in Ids \ {LinkOf(t)} : dev'[id] = dev[id] /\ (id \in unstarted' <=> id \in unstarted),
         pc = "start" => call[t].up,
         \A id \in Open \ unstarted' : ~twice /\ pc = "answer" /\ id = LinkOf(t) => Follows(id)'
  PROVE  PortsInv'
<1>2. CallsBack(t) /\ Processing /\ call[t].kni \in DOMAIN kni /\ Open \subseteq Ids
  BY Types DEF CallsBack, AtLink, PortsInv, Quiet, Fields, Open
<1>4. /\ call' \in [ReadLoops -> [pc : CallSteps, kni : Nat, up : BOOLEAN]]
      /\ call'[t].pc = pc /\ call'[t].kni = call[t].kni /\ call'[t].up = call[t].up
      /\ \A u \in ReadLoops \ {t} : call'[u] = call[u]
      /\ \A u \in ReadLoops : CallsBack(u)' => call'[u].kni \in DOMAIN kni'
      /\ ~twice => Taken' /\ \A u \in ReadLoops \ {t} : ~AtLink(u) /\ ~AtLink(u)'
  <2>1. DOMAIN kni' = DOMAIN kni /\ UNCHANGED <<running, req, queue, twice>>
    OBVIOUS
  <2>2. pc # "none"
    OBVIOUS
  <2>3. /\ call' \in [ReadLoops -> [pc : CallSteps, kni : Nat, up : BOOLEAN]]
        /\ call'[t].pc = pc /\ call'[t].kni = call[t].kni /\ call'[t].up = call[t].up
        /\ \A u \in ReadLoops \ {t} : call'[u] = call[u]
    BY <1>2, <2>1, GoesOn, Zenon
  <2>4. \A u \in ReadLoops : CallsBack(u)' => call'[u].kni \in DOMAIN kni'
    BY <1>2, <2>1, GoesOn, Zenon
  <2>5. ~twice => Taken' /\ \A u \in ReadLoops \ {t} : ~AtLink(u) /\ ~AtLink(u)'
    BY <1>2, <2>1, <2>2, GoesOn, Zenon
  <2>6. QED BY <2>3, <2>4, <2>5, Zenon
<1>5. Fields'
  BY <1>4 DEF PortsInv, Fields
<1>6. Indexed' /\ Quiet'
  <2>1. Indexed'
    BY Types DEF PortsInv, Indexed
  <2>2. Quiet'
    BY <1>2 DEF PortsInv, Quiet, Processing
  <2>3. QED BY <2>1, <2>2
<1>7. Once'
  <2> SUFFICES ASSUME ~twice PROVE (Taken /\ Known /\ OnTheWay /\ Settled)'
    BY DEF Once
  <2>1. Taken /\ Known /\ OnTheWay /\ Settled
    BY DEF PortsInv, Once
  <2>2. Known'
    <3>1. \A k : Heard(k)' => Heard(k)
      BY <1>4 DEF Heard, CallsBack, AtLink
    <3>2. QED BY <2>1, <3>1 DEF Known
  <2>3. LinkOf(t)' = LinkOf(t) /\ (AtLink(t)' <=> pc = "start")
    BY <1>4 DEF LinkOf, AtLink
  <2>4. OnTheWay'
    BY <2>1, <2>3, <1>4 DEF OnTheWay
  <2>5. Settled'
    <3> SUFFICES ASSUME NEW id \in Open \ unstarted', pc = "answer" \/ id # LinkOf(t)
                 PROVE  Follows(id)'
      BY <2>3, <1>4 DEF Settled, Open, CallSteps
    <3>1. CASE id # LinkOf(t)
      <4>1. Follows(id)
        BY <2>1, <3>1, <1>2, <1>4 DEF Settled
      <4>2. dev'[id] = dev[id]
        BY <3>1, <1>2
      <4>3. QED BY <4>1, <4>2 DEF Follows, KnisOf
    <3>2. CASE id = LinkOf(t) /\ pc = "answer"
      BY <3>2
    <3>3. QED BY <3>1, <3>2
  <2>6. QED BY <2>2, <2>4, <2>5, <1>4
<1>8. QED BY <1>5, <1>6, <1>7 DEF PortsInv

LEMMA DevStopStep ==
  ASSUME PortsInv, NEW t \in ReadLoops, DevStop(t)
  PROVE  PortsInv'
<1> DEFINE L == LinkOf(t)
           pc == IF call[t].up THEN "start" ELSE "answer"
<1>1. /\ call[t].pc = "stop" /\ call' = [call EXCEPT ![t].pc = pc]
      /\ DevBecomes(L, "stopped") /\ unstarted' = unstarted \ {L}
      /\ UNCHANGED <<mainAt, link, kni, running, req, queue, twice>>
  BY DEF DevStop, ports, kernel
<1>2. CallsBack(t) /\ AtLink(t) /\ call[t].kni \in KnisOf(L)
  BY <1>1 DEF CallsBack, AtLink, PortsInv, Fields, KnisOf, LinkOf
<1>3. /\ L \in Ids
      /\ dev' \in [Ids -> {"closed", "started", "stopped"}]
      /\ dev'[L] = IF dev[L] = "closed" THEN "closed" ELSE "stopped"
      /\ \A id \in Ids \ {L} : dev'[id] = dev[id]
  BY <1>1, <1>2, DeviceStep
<1>4. ASSUME ~twice, pc = "answer", NEW id \in Open, id = L PROVE Follows(id)'
  <2>1. AllDown(id)
    BY <1>1, <1>2, <1>4 DEF PortsInv, Once, OnTheWay
  <2>2. dev[id] # "closed"
    BY <1>4 DEF PortsInv, Indexed, Open
  <2>3. QED BY <2>1, <2>2, <1>1, <1>2, <1>3, <1>4 DEF Follows, AllDown, KnisOf
<1>5. pc \in CallSteps /\ pc \notin {"none", "set", "decide", "stop"} /\ (pc = "start" => call[t].up)
  BY DEF CallSteps
<1>6. \A id \in Ids : dev[id] # "closed" => dev'[id] # "closed"
  BY <1>3
<1> HIDE DEF pc
<1>7. QED BY <1>1, <1>2, <1>3, <1>4, <1>5, <1>6, LinkStep

LEMMA DevStartStep ==
  ASSUME PortsInv, NEW t \in ReadLoops, DevStart(t)
  PROVE  PortsInv'
<1> DEFINE L == LinkOf(t)
<1>1. /\ call[t].pc = "start" /\ call' = [call EXCEPT ![t].pc = "answer"]
      /\ \/ DevBecomes(L, "started") /\ unstarted' = unstarted \ {L}
         \/ dev' = dev /\ unstarted' = unstarted \union {L}
      /\ UNCHANGED <<mainAt, link, kni, running, req, queue, twice>>
  BY DEF DevStart, ports, kernel
<1>2. CallsBack(t) /\ AtLink(t) /\ call[t].kni \in KnisOf(L)
  BY <1>1 DEF CallsBack, AtLink, PortsInv, Fields, KnisOf, LinkOf
<1>3. "answer" \in CallSteps
  BY DEF CallSteps
<1>4. CASE DevBecomes(L, "started") /\ unstarted' = unstarted \ {L}
  <2>1. /\ L \in Ids
        /\ dev' \in [Ids -> {"closed", "started", "stopped"}]
        /\ dev'[L] = IF dev[L] = "closed" THEN "closed" ELSE "started"
        /\ \A id \in Ids \ {L} : dev'[id] = dev[id]
    BY <1>2, <1>4, DeviceStep
  <2>2. ASSUME ~twice, NEW id, id = L PROVE Follows(id)'
    <3>1. kni[call[t].kni].ops # "DISABLED"
      BY <2>2, <1>1, <1>2 DEF PortsInv, Once, OnTheWay
    <3>2. QED BY <3>1, <2>1, <2>2, <1>1, <1>2 DEF Follows, KnisOf
  <2>3. \A id \in Ids : dev[id] # "closed" => dev'[id] # "closed"
    BY <2>1
  <2>4. QED BY <1>1, <1>2, <1>3, <1>4, <2>1, <2>2, <2>3, LinkStep
<1>5. CASE dev' = dev /\ unstarted' = unstarted \union {L}
  BY <1>1, <1>2, <1>3, <1>5, LinkStep DEF PortsInv, Fields
<1>6. QED BY <1>1, <1>4, <1>5

(* The kernel is answered, and there is nothing left of the request.       *)
LEMMA ReturnStep ==
  ASSUME PortsInv, NEW t \in ReadLoops, Return(t)
  PROVE  PortsInv'
<1>1. /\ call[t].pc = "answer" /\ req' = {}
      /\ call' = [call EXCEPT ![t] = NoCall]
      /\ UNCHANGED <<mainAt, link, kni, dev, unstarted, running, queue, twice>>
  BY DEF Return, ports, devs
<1>2. CallsBack(t) /\ Processing
  BY <1>1 DEF CallsBack, PortsInv, Quiet
<1>3. /\ call' \in [ReadLoops -> [pc : CallSteps, kni : Nat, up : BOOLEAN]]
      /\ ~CallsBack(t)' /\ \A u \in ReadLoops \ {t} : call'[u] = call[u]
  BY <1>1 DEF PortsInv, Fields, NoCall, CallSteps, CallsBack
<1>4. Fields'
  BY <1>1, <1>3 DEF PortsInv, Fields, CallsBack
<1>5. Indexed' /\ Quiet'
  BY <1>1, <1>2 DEF PortsInv, Indexed, Quiet, Processing
<1>6. Once'
  <2> SUFFICES ASSUME ~twice PROVE (Taken /\ Known /\ OnTheWay /\ Settled)'
    BY <1>1 DEF Once
  <2>1. Taken /\ Known /\ OnTheWay /\ Settled
    BY DEF PortsInv, Once
  <2>2. \A u \in ReadLoops : ~CallsBack(u)' /\ ~AtLink(u)' /\ ~AtLink(u)
    BY <2>1, <1>1, <1>2, <1>3 DEF Taken, CallsBack, AtLink
  <2>3. Taken'
    <3>1. queue = {}
      BY <2>1, <1>2 DEF Taken
    <3>2. QED BY <3>1, <2>2, <1>1 DEF Taken
  <2>4. Known'
    <3>1. \A k : Heard(k)
      BY <1>1, <1>2 DEF Heard
    <3>2. QED BY <3>1, <2>1, <1>1 DEF Known
  <2>5. OnTheWay'
    BY <2>2 DEF OnTheWay
  <2>6. Settled'
    <3>1. \A id : Follows(id)' = Follows(id)
      BY <1>1 DEF Follows, KnisOf
    <3>2. QED BY <2>1, <2>2, <3>1, <1>1 DEF Settled, Open
  <2>7. QED BY <2>3, <2>4, <2>5, <2>6
<1>7. QED BY <1>4, <1>5, <1>6 DEF PortsInv

LEMMA CallbackStep ==
  ASSUME PortsInv, NEW t \in ReadLoops, callback_func_kni_if_config(t)
  PROVE  PortsInv'
BY SetStateStep, DecideStep, DevStopStep, DevStartStep, ReturnStep
   DEF callback_func_kni_if_config

(* The kernel is ahead of the program in what it asks about only.          *)
LEMMA KernelAsksStep ==
  ASSUME PortsInv, NEW k \in DOMAIN kni, KernelAsks(k)
  PROVE  PortsInv'
<1> DEFINE r == [kni |-> k, up |-> k \notin running]
<1>1. /\ req = {} /\ queue' = queue \union {r}
      /\ req' \in {{r}} \union (IF twice THEN {{}} ELSE {})
      /\ running' = IF k \in running THEN running \ {k} ELSE running \union {k}
      /\ UNCHANGED <<mainAt, link, kni, dev, unstarted, call, twice>>
  BY DEF KernelAsks, ports, devs
<1>2. r \in [kni : DOMAIN kni, up : BOOLEAN] /\ r.kni = k /\ (r.up <=> k \notin running)
  <2>1. (k \notin running) \in BOOLEAN
    BY Zenon
  <2>2. r \in [kni : DOMAIN kni, up : BOOLEAN]
    BY <2>1, Zenon
  <2>3. QED BY <2>2, Zenon
<1> HIDE DEF r
<1>3. Fields'
  <2>1. req' \subseteq {r}
    BY <1>1
  <2>2. QED BY <1>1, <1>2, <2>1 DEF PortsInv, Fields, CallsBack
<1>4. Indexed' /\ Quiet'
  BY <1>1 DEF PortsInv, Indexed, Quiet, Processing, CallsBack
<1>5. Once'
  <2> SUFFICES ASSUME ~twice PROVE (Taken /\ Known /\ OnTheWay /\ Settled)'
    BY <1>1 DEF Once
  <2>1. Taken /\ Known /\ OnTheWay /\ Settled /\ req' = {r}
    BY <1>1 DEF PortsInv, Once
  <2>2. \A t \in ReadLoops : ~CallsBack(t) /\ ~CallsBack(t)' /\ ~AtLink(t) /\ ~AtLink(t)'
    BY <2>1, <1>1 DEF Taken, CallsBack, AtLink
  <2>3. Taken'
    <3>1. queue' = {r}
      BY <2>1, <1>1 DEF Taken
    <3>2. r.up <=> r.kni \in running'
      BY <1>1, <1>2
    <3>3. QED BY <2>1, <2>2, <3>1, <3>2 DEF Taken
  <2>4. Known'
    <3> SUFFICES ASSUME NEW j \in DOMAIN kni, Heard(j)' PROVE kni[j].ops = "ENABLED" <=> j \in running'
      BY <1>1 DEF Known
    <3>1. j # k
      BY <2>1, <2>2, <1>2 DEF Heard
    <3>2. Heard(j)
      BY <1>1 DEF Heard
    <3>3. QED BY <3>1, <3>2, <2>1, <1>1 DEF Known
  <2>5. OnTheWay'
    BY <2>2 DEF OnTheWay
  <2>6. Settled'
    <3>1. \A id : Follows(id)' = Follows(id)
      BY <1>1 DEF Follows, KnisOf
    <3>2. QED BY <2>1, <2>2, <3>1, <1>1 DEF Settled, Open
  <2>7. QED BY <2>3, <2>4, <2>5, <2>6
<1>6. QED BY <1>3, <1>4, <1>5 DEF PortsInv

(* What the monitor sees of a link is no part of this.                     *)
LEMMA LooksKeepsIds ==
  ASSUME Fields, MonitorLooks
  PROVE  /\ link' \in Seq(LinkEntry) /\ DOMAIN link' = DOMAIN link
         /\ \A i \in DOMAIN link : link'[i].id = link[i].id
<1>1. PICK state \in {"ENABLED", "DISABLED"} : link' = [link EXCEPT ![mon.at].ops = state]
  BY DEF MonitorLooks
<1> DEFINE new == [link[mon.at] EXCEPT !.ops = state]
<1>2. link \in Seq(LinkEntry) /\ \A i \in DOMAIN link : link[i] \in LinkEntry
  BY Elements, Zenon DEF Fields
<1>3. link' = [link EXCEPT ![mon.at] = new]
  BY <1>1
<1>4. mon.at \in DOMAIN link => new \in LinkEntry /\ new.id = link[mon.at].id
  BY <1>2 DEF LinkEntry, OpsState
<1> HIDE DEF new
<1>5. CASE mon.at \in DOMAIN link
  <2>1. /\ link' \in Seq(LinkEntry) /\ DOMAIN link' = DOMAIN link
        /\ link'[mon.at] = new /\ \A i \in DOMAIN link \ {mon.at} : link'[i] = link[i]
    BY <1>2, <1>3, <1>4, <1>5, Replaced, Zenon
  <2>2. QED BY <1>4, <1>5, <2>1
<1>6. CASE mon.at \notin DOMAIN link
  <2>1. link' = link
    BY <1>2, <1>3, <1>6
  <2>2. QED BY <1>2, <2>1
<1>7. QED BY <1>5, <1>6

(* A loop that reads: it takes a request on the way, or does not.          *)
LEMMA PollStep ==
  ASSUME PortsInv, RxPoll \/ TxPoll
  PROVE  PortsInv'
<1>1. /\ Processing /\ UNCHANGED <<mainAt, link, kni, devs, running, req>>
      /\ mainAt' = mainAt /\ devs' = devs /\ kni' = kni /\ link' = link
      /\ running' = running /\ req' = req
  BY DEF RxPoll, TxPoll, ports, kernel
<1>2. CASE UNCHANGED calls
  BY <1>1, <1>2, SamePorts DEF PortsInv, Fields
<1>3. CASE \E t \in ReadLoops : ~CallsBack(t) /\ \E r \in Takable(t) : Take(t, r)
  BY <1>1, <1>3, TakeStep
<1>4. CASE RxPoll
  BY <1>2, <1>3, <1>4 DEF RxPoll, ReadLoops
<1>5. CASE TxPoll
  BY <1>2, <1>3, <1>5 DEF TxPoll, ReadLoops
<1>6. QED BY <1>4, <1>5

LEMMA PortsStep ==
  ASSUME PortsInv, [Next]_vars
  PROVE  PortsInv'
<1>1. CASE OpenLink \/ OpenKni
  BY <1>1, OpenLinkStep, OpenKniStep
<1>2. CASE OpenLinkFails \/ OpenKniFails
  <2>1. /\ mainAt' = 0 \/ mainAt' = mainAt + 1
        /\ mainAt \in DOMAIN LinkNames => mainAt' = mainAt + 1
        /\ mainAt \in DOMAIN LinkNames \/ mainAt - Len(LinkNames) \in DOMAIN KniLinks
        /\ UNCHANGED <<link, kni, dev, unstarted, running, req, queue, call, twice>>
    BY <1>2, Counts DEF OpenLinkFails, OpenKniFails, ports, devs, kernel, calls, PortsInv, Fields
  <2>2. ~Processing /\ mainAt' \in Nat
    BY <2>1, Counts DEF Processing, PortsInv, Fields
  <2>3. mainAt' \in DOMAIN LinkNames => mainAt \in DOMAIN LinkNames
    BY <2>1, Counts DEF PortsInv, Fields
  <2>4. Fields'
    BY <2>1, <2>2 DEF PortsInv, Fields, CallsBack
  <2>5. Indexed'
    BY <2>1 DEF PortsInv, Indexed
  <2>6. Quiet'
    BY <2>1, <2>2, <2>3 DEF PortsInv, Quiet, CallsBack
  <2>7. (~twice => Taken /\ Known)'
    BY <2>1 DEF PortsInv, Once, Taken, Known, Heard, Asks, CallsBack
  <2>8. /\ \A k \in DOMAIN kni' : kni'[k].ops = "NOTCONFIGURED"
        /\ \A id \in Ids : dev'[id] # "stopped"
        /\ \A t \in ReadLoops : ~CallsBack(t)'
    BY <2>1, <2>2 DEF PortsInv, Quiet, CallsBack
  <2>9. QED BY <2>4, <2>5, <2>6, <2>7, <2>8, BeforeLoops DEF PortsInv
<1>3. CASE \E k \in DOMAIN kni : KernelAsks(k)
  BY <1>3, KernelAsksStep
<1>4. CASE MonitorLooks
  <2>1. /\ link' \in Seq(LinkEntry) /\ DOMAIN link' = DOMAIN link
        /\ \A i \in DOMAIN link : link'[i].id = link[i].id
    BY <1>4, LooksKeepsIds DEF PortsInv
  <2>2. /\ mainAt' = mainAt /\ devs' = devs /\ kni' = kni /\ calls' = calls
        /\ running' = running /\ req' = req
    BY <1>4 DEF MonitorLooks, kernel
  <2>3. QED BY <2>1, <2>2, SamePorts
<1>5. CASE MonitorTells \/ PacketComes \/ UNCHANGED vars
  <2>1. /\ mainAt' = mainAt /\ devs' = devs /\ kni' = kni /\ calls' = calls
        /\ running' = running /\ req' = req /\ link' = link
    BY <1>5 DEF MonitorTells, PacketComes, vars, ports, kernel
  <2>2. QED BY <2>1, SamePorts DEF PortsInv, Fields
<1>6. CASE RxLoop \/ TxLoop
  <2>1. CASE RxPoll \/ TxPoll
    BY <2>1, PollStep
  <2>2. CASE \E t \in ReadLoops : callback_func_kni_if_config(t)
    BY <2>2, CallbackStep
  <2>3. QED BY <1>6, <2>1, <2>2 DEF RxLoop, TxLoop, ReadLoops
<1>7. QED BY <1>1, <1>2, <1>3, <1>4, <1>5, <1>6 DEF Next, Main, Monitor

(* As long as no request is taken twice, one call-back is at work at most, *)
(* what it has found out holds until it acts on it, and all other links    *)
(* are as their ports want them (pfm_kni.c).                               *)
THEOREM PortsSafe == Spec => []PortsInv
<1>1. PortsInv /\ [Next]_vars => PortsInv'
  BY PortsStep
<1>2. QED BY <1>1, InitPorts, PTL DEF Spec

(* Once the kernel is answered, and unless a request has been taken twice, *)
(* the program knows which of its interfaces are up, and an open link that *)
(* has not failed to start is stopped when all its KNI ports are down and  *)
(* at no other time (callback_func_kni_if_config).                         *)
THEOREM LinksFollowPorts == Spec => []LinkFollowsPorts
<1>1. PortsInv => LinkFollowsPorts
  <2> SUFFICES ASSUME PortsInv, ~twice, req = {}
               PROVE  /\ \A k \in DOMAIN kni : kni[k].ops = "ENABLED" <=> k \in running
                      /\ \A i \in DOMAIN link : link[i].id \notin unstarted => Follows(link[i].id)
    BY DEF LinkFollowsPorts
  <2>1. Taken /\ Known /\ Settled
    BY DEF PortsInv, Once
  <2>2. \A t \in ReadLoops : ~AtLink(t)
    BY <2>1 DEF Taken, CallsBack, AtLink
  <2>3. \A k \in DOMAIN kni : Heard(k)
    BY DEF Heard
  <2>4. QED BY <2>1, <2>2, <2>3 DEF Known, Settled, Open
<1>2. QED BY <1>1, PortsSafe, PTL

-----------------------------------------------------------------------------
(* What the monitor is at: it tells KNI ports of the link it last looked   *)
(* at, and begins when the loops do.                                       *)
Watching ==
  /\ mon \in [at : {0} \union DOMAIN link, tell : SUBSET (DOMAIN kni)]
  /\ mon.tell # {} => mon.at # 0 /\ mon.tell \subseteq KnisOf(link[mon.at].id)
  /\ ~Processing => mon.tell = {}
  /\ carrier \subseteq DOMAIN kni

CarrierInv == Watching /\ CarrierHonest

LEMMA MinIn ==
  ASSUME NEW S \in SUBSET Nat, S # {}
  PROVE  Min(S) \in S
<1> DEFINE less == {ss \in Nat \X Nat : ss[1] < ss[2]}
<1>1. IsWellFoundedOn(less, Nat)
  BY NatLessThanWellFounded, Zenon DEF OpToRel
<1>2. PICK m \in S : \A k \in S : ~(<<k, m>> \in less)
  <2> HIDE DEF less
  <2> QED BY <1>1, WFMin
<1>3. ASSUME NEW k \in Nat, NEW n \in Nat, ~(<<k, n>> \in less) PROVE n <= k
  BY <1>3
<1>4. QED BY <1>2, <1>3 DEF Min

LEMMA InitCarrier == Init => CarrierInv
BY DEF Init, CarrierInv, Watching, CarrierHonest

(* A step that leaves the monitor's view of the ports alone, and the ports *)
(* there are as they were, and brings none up that has a carrier.          *)
LEMMA SameView ==
  ASSUME CarrierInv, mon' = mon, carrier' \subseteq carrier,
         DOMAIN link \subseteq DOMAIN link', DOMAIN kni \subseteq DOMAIN kni',
         \A i \in DOMAIN link : link'[i] = link[i],
         \A k \in DOMAIN kni : kni'[k].link = kni[k].link,
         \A k \in carrier' : k \in running' => k \in running,
         ~Processing' => mon.tell = {}
  PROVE  CarrierInv'
<1>1. Watching'
  <2>1. mon' \in [at : {0} \union DOMAIN link', tell : SUBSET (DOMAIN kni')]
    BY DEF CarrierInv, Watching
  <2>2. mon.tell # {} => mon.at \in DOMAIN link /\ mon.tell \subseteq KnisOf(link[mon.at].id)
    BY DEF CarrierInv, Watching
  <2>3. mon.tell # {} => mon.tell \subseteq KnisOf(link[mon.at].id)'
    BY <2>2 DEF KnisOf
  <2>4. QED BY <2>1, <2>2, <2>3 DEF CarrierInv, Watching
<1>2. CarrierHonest'
  BY DEF CarrierInv, Watching, CarrierHonest
<1>3. QED BY <1>1, <1>2 DEF CarrierInv

LEMMA CarrierOpenStep ==
  ASSUME PortsInv, CarrierInv,
         OpenLink \/ OpenLinkFails \/ OpenKni \/ OpenKniFails
  PROVE  CarrierInv'
<1>1. mainAt \in Nat /\ link \in Seq(LinkEntry) /\ kni \in Seq(KniEntry)
  BY DEF PortsInv, Fields
<1>2. ~Processing
  BY <1>1, Counts DEF OpenLink, OpenLinkFails, OpenKni, OpenKniFails, Processing
<1>3. mon.tell = {} /\ \A k \in carrier \intersect running : \E i \in DOMAIN link :
        link[i].id = kni[k].link /\ link[i].ops = "ENABLED"
  BY <1>2 DEF CarrierInv, Watching, CarrierHonest
<1>4. /\ DOMAIN link \subseteq DOMAIN link' /\ \A i \in DOMAIN link : link'[i] = link[i]
      /\ DOMAIN kni \subseteq DOMAIN kni' /\ \A k \in DOMAIN kni : kni'[k] = kni[k]
      /\ running' = running /\ carrier' = carrier
  <2>1. CASE OpenLink
    <3>1. PICK e : link' = Append(link, e)
      BY <2>1 DEF OpenLink
    <3>2. QED BY <3>1, <2>1, <1>1 DEF OpenLink, kernel
  <2>2. CASE OpenKni
    <3>1. PICK e : kni' = Append(kni, e)
      BY <2>2 DEF OpenKni
    <3>2. QED BY <3>1, <2>2, <1>1 DEF OpenKni, kernel
  <2>3. CASE OpenLinkFails \/ OpenKniFails
    BY <2>3 DEF OpenLinkFails, OpenKniFails, ports, kernel
  <2>4. QED BY <2>1, <2>2, <2>3
<1>5. CASE mon' = mon
  BY <1>3, <1>4, <1>5, SameView DEF CarrierInv, Watching
<1>6. CASE OpenLink /\ mon' = [mon EXCEPT !.at = 1]
  <2>1. 1 \in DOMAIN link'
    <3>1. PICK e : link' = Append(link, e)
      BY <1>6 DEF OpenLink
    <3>2. QED BY <3>1, <1>1
  <2>2. mon' \in [at : {0} \union DOMAIN link', tell : SUBSET (DOMAIN kni')] /\ mon'.tell = {}
    BY <1>3, <1>4, <1>6, <2>1 DEF CarrierInv, Watching
  <2>3. CarrierHonest'
    BY <1>3, <1>4 DEF CarrierHonest, CarrierInv, Watching
  <2>4. QED BY <2>2, <2>3, <1>4 DEF CarrierInv, Watching
<1>7. QED BY <1>5, <1>6
        DEF OpenLink, OpenLinkFails, OpenKni, OpenKniFails

(* The kernel takes the carrier away from the port it asks about.          *)
LEMMA AsksKeepsCarrier ==
  ASSUME CarrierInv, NEW k \in DOMAIN kni, KernelAsks(k)
  PROVE  CarrierInv'
<1>1. /\ carrier' = carrier \ {k} /\ mon' = mon
      /\ link' = link /\ kni' = kni /\ mainAt' = mainAt
      /\ running' = IF k \in running THEN running \ {k} ELSE running \union {k}
  BY DEF KernelAsks, ports
<1>2. \A j \in carrier' : j \in running' => j \in running
  BY <1>1
<1>3. QED BY <1>1, <1>2, SameView DEF CarrierInv, Watching, Processing

(* A link that has changed has all its ports told of it.                   *)
LEMMA LooksStep ==
  ASSUME PortsInv, CarrierInv, MonitorLooks
  PROVE  CarrierInv'
<1>1. /\ Processing /\ mon.at \in DOMAIN link /\ mon.tell = {}
      /\ mainAt' = mainAt /\ kni' = kni /\ running' = running /\ carrier' = carrier
  BY DEF MonitorLooks, kernel, CarrierInv, Watching
<1>2. PICK state \in {"ENABLED", "DISABLED"} :
        LET told == IF state = link[mon.at].ops THEN {} ELSE KnisOf(link[mon.at].id)
        IN  /\ link' = [link EXCEPT ![mon.at].ops = state]
            /\ mon' = IF told = {} THEN Past(mon.at) ELSE [mon EXCEPT !.tell = told]
  BY DEF MonitorLooks
<1> DEFINE told == IF state = link[mon.at].ops THEN {} ELSE KnisOf(link[mon.at].id)
<1>3. /\ DOMAIN link' = DOMAIN link
      /\ \A i \in DOMAIN link : link'[i].id = link[i].id
      /\ \A i \in DOMAIN link \ {mon.at} : link'[i] = link[i]
      /\ link'[mon.at].ops = state
  <2>1. \A i \in DOMAIN link : link[i] \in LinkEntry
    BY Elements, Zenon DEF PortsInv, Fields
  <2>2. QED BY <1>1, <1>2, <2>1 DEF LinkEntry
<1>4. /\ mon' \in [at : DOMAIN link, tell : SUBSET (DOMAIN kni)]
      /\ mon'.tell = told
      /\ told # {} => mon'.at = mon.at
  <2>1. /\ Len(link) \in Nat /\ DOMAIN link = 1 .. Len(link)
    BY Types DEF PortsInv
  <2>2. (mon.at % Len(link)) + 1 \in DOMAIN link
    BY <1>1, <2>1
  <2>3. told \subseteq DOMAIN kni
    BY DEF KnisOf
  <2>4. mon \in [at : {0} \union DOMAIN link, tell : SUBSET (DOMAIN kni)]
    BY DEF CarrierInv, Watching
  <2>5. mon' = IF told = {} THEN [at |-> (mon.at % Len(link)) + 1, tell |-> {}]
                ELSE [mon EXCEPT !.tell = told]
    BY <1>2 DEF Past
  <2> HIDE DEF told
  <2>6. QED BY <1>1, <2>2, <2>3, <2>4, <2>5
<1>5. Watching'
  <2>1. (mon.tell # {} => mon.at \in DOMAIN link /\ mon.tell \subseteq KnisOf(link[mon.at].id))'
    BY <1>1, <1>3, <1>4 DEF KnisOf
  <2>2. 0 \notin DOMAIN link
    BY Types DEF PortsInv
  <2>3. QED BY <1>1, <1>3, <1>4, <2>1, <2>2 DEF CarrierInv, Watching, Processing
<1>6. CarrierHonest'
  <2> SUFFICES ASSUME NEW k \in carrier \intersect running, k \notin mon'.tell
               PROVE  \E i \in DOMAIN link : link'[i].id = kni[k].link /\ link'[i].ops = "ENABLED"
    BY <1>1, <1>3 DEF CarrierHonest
  <2>1. PICK i \in DOMAIN link : link[i].id = kni[k].link /\ link[i].ops = "ENABLED"
    BY <1>1 DEF CarrierInv, CarrierHonest
  <2>2. CASE i = mon.at
    <3>1. k \in KnisOf(link[mon.at].id)
      BY <2>1, <2>2 DEF KnisOf, CarrierInv, Watching
    <3>2. state = "ENABLED"
      BY <3>1, <2>1, <2>2, <1>4
    <3>3. QED BY <3>2, <2>1, <2>2, <1>3
  <2>3. CASE i # mon.at
    BY <2>1, <2>3, <1>3
  <2>4. QED BY <2>2, <2>3
<1>7. QED BY <1>5, <1>6 DEF CarrierInv

(* A port that is told gets the state of its own link.                     *)
LEMMA TellsStep ==
  ASSUME PortsInv, CarrierInv, MonitorTells
  PROVE  CarrierInv'
<1> DEFINE k == Min(mon.tell)
<1>1. /\ mainAt' = mainAt /\ link' = link /\ kni' = kni /\ running' = running
      /\ mon.tell # {}
      /\ carrier' = IF k \notin running THEN carrier
                    ELSE IF link[mon.at].ops = "ENABLED" THEN carrier \union {k}
                    ELSE carrier \ {k}
      /\ mon' = IF mon.tell = {k} THEN Past(mon.at) ELSE [mon EXCEPT !.tell = @ \ {k}]
  BY DEF MonitorTells, ports, kni_state_change
<1>2. /\ mon \in [at : {0} \union DOMAIN link, tell : SUBSET (DOMAIN kni)]
      /\ mon.at \in DOMAIN link /\ mon.tell \subseteq KnisOf(link[mon.at].id)
      /\ Processing
  BY <1>1 DEF CarrierInv, Watching
<1>3. k \in mon.tell /\ k \in DOMAIN kni /\ kni[k].link = link[mon.at].id
  <2>1. mon.tell \in SUBSET Nat
    BY <1>2, Types DEF PortsInv
  <2>2. k \in mon.tell
    BY <1>1, <2>1, MinIn
  <2>3. QED BY <2>2, <1>2 DEF KnisOf
<1> HIDE DEF k
<1>4. /\ mon' \in [at : DOMAIN link, tell : SUBSET (DOMAIN kni)]
      /\ mon'.tell = mon.tell \ {k}
      /\ mon'.tell # {} => mon'.at = mon.at
  <2>1. /\ Len(link) \in Nat /\ DOMAIN link = 1 .. Len(link)
    BY Types DEF PortsInv
  <2>2. (mon.at % Len(link)) + 1 \in DOMAIN link
    BY <1>2, <2>1
  <2>3. CASE mon.tell = {k}
    BY <2>2, <2>3, <1>1 DEF Past
  <2>4. CASE mon.tell # {k}
    BY <2>4, <1>1, <1>2
  <2>5. QED BY <2>3, <2>4
<1>5. Watching'
  <2>1. 0 \notin DOMAIN link
    BY Types DEF PortsInv
  <2>2. carrier' \subseteq DOMAIN kni
    BY <1>1, <1>3 DEF CarrierInv, Watching
  <2>3. mon'.tell # {} => mon'.tell \subseteq KnisOf(link[mon'.at].id)
    BY <1>2, <1>4
  <2>4. QED BY <1>1, <1>2, <1>4, <2>1, <2>2, <2>3
       DEF CarrierInv, Watching, Processing, KnisOf
<1>6. CarrierHonest'
  <2> SUFFICES ASSUME NEW j \in carrier' \intersect running, j \notin mon'.tell
               PROVE  \E i \in DOMAIN link : link[i].id = kni[j].link /\ link[i].ops = "ENABLED"
    BY <1>1 DEF CarrierHonest
  <2>1. CASE j = k
    BY <2>1, <1>1, <1>2, <1>3
  <2>2. CASE j # k
    BY <2>2, <1>1, <1>4 DEF CarrierInv, CarrierHonest
  <2>3. QED BY <2>1, <2>2
<1>7. QED BY <1>5, <1>6 DEF CarrierInv

LEMMA CarrierStep ==
  ASSUME PortsInv, CarrierInv, [Next]_vars
  PROVE  CarrierInv'
<1>1. CASE Main
  BY <1>1, CarrierOpenStep DEF Main
<1>2. CASE \E k \in DOMAIN kni : KernelAsks(k)
  BY <1>2, AsksKeepsCarrier
<1>3. CASE Monitor
  BY <1>3, LooksStep, TellsStep DEF Monitor
<1>4. CASE RxLoop \/ TxLoop \/ PacketComes \/ UNCHANGED vars
  <2>1. /\ mainAt' = mainAt /\ link' = link /\ mon' = mon
        /\ carrier' = carrier /\ running' = running
    <3>1. CASE RxPoll \/ TxPoll \/ PacketComes \/ UNCHANGED vars
      BY <3>1 DEF RxPoll, TxPoll, PacketComes, vars, ports, kernel
    <3>2. CASE \E t \in ReadLoops : callback_func_kni_if_config(t)
      BY <3>2 DEF callback_func_kni_if_config, SetState, Decide, DevStop, DevStart,
                  Return, ports, kernel
    <3>3. QED BY <1>4, <3>1, <3>2 DEF RxLoop, TxLoop, ReadLoops
  <2>2. DOMAIN kni' = DOMAIN kni /\ \A k \in DOMAIN kni : kni'[k].link = kni[k].link
    <3>1. CASE RxPoll \/ TxPoll \/ PacketComes \/ UNCHANGED vars
      BY <3>1 DEF RxPoll, TxPoll, PacketComes, vars, ports
    <3>2. CASE \E t \in ReadLoops : SetState(t)
      BY <3>2, SetStateLinks DEF PortsInv
    <3>3. CASE \E t \in ReadLoops : Decide(t) \/ DevStop(t) \/ DevStart(t) \/ Return(t)
      BY <3>3 DEF Decide, DevStop, DevStart, Return, ports
    <3>4. QED BY <1>4, <3>1, <3>2, <3>3
            DEF RxLoop, TxLoop, ReadLoops, callback_func_kni_if_config
  <2>3. QED BY <2>1, <2>2, SameView DEF CarrierInv, Watching, Processing
<1>5. QED BY <1>1, <1>2, <1>3, <1>4 DEF Next

(* An interface that is up has a carrier only if the monitor last saw its  *)
(* link up, or is about to tell it otherwise (kni_state_change); requests  *)
(* that are taken twice do no harm to that.                                *)
THEOREM CarrierStaysHonest == Spec => []CarrierHonest
<1>1. PortsInv /\ CarrierInv /\ [Next]_vars => CarrierInv'
  BY CarrierStep
<1>2. CarrierInv => CarrierHonest
  BY DEF CarrierInv
<1>3. QED BY <1>1, <1>2, InitCarrier, PortsSafe, PTL DEF Spec

-----------------------------------------------------------------------------
(***************************************************************************)
(* The program.  For any set of workers: how it exits and when its ARP     *)
(* table is whole.  That it exits is left to TLC.                          *)
(***************************************************************************)

LoopStates == {"off", "test", "again", "round", "get", "work"} \union Returned
ArpStates == {"outside", "create", "created", "failed", "timers"}

ProgramTypes == loop \in [Loops -> LoopStates] /\ at \in [Lcores -> ArpStates]

(* The transmit loop is launched first and the receive loop last; main     *)
(* waits for these two first.                                              *)
MainSound ==
  /\ main \in {"init", "ports"} => next = TxLcore /\ \A l \in Loops : loop[l] = "off"
  /\ main = "launch" =>
       /\ next \in Loops /\ loop[RxLcore] = "off"
       /\ next # TxLcore => loop[TxLcore] # "off"
  /\ main \in {"console", "wait"} => loop[TxLcore] # "off" /\ loop[RxLcore] # "off"
  /\ main = "wait" => next \in {RxLcore, TxLcore}

(* A loop returns only when it sees force_quit_g, the transmit loop always *)
(* with 1.                                                                 *)
LoopsSound ==
  /\ \A l \in Loops : loop[l] \in Returned => force_quit_g
  /\ loop[TxLcore] # "returned 0"

(* As long as no two lcores have met in arp_init there is at most one,     *)
(* none when the table is up, and one that is at the timers has its hash.  *)
OneMaker ==
  /\ \A k, l \in Lcores : InArpInit(k) /\ InArpInit(l) => k = l
  /\ \A l \in Lcores : arp_up => ~InArpInit(l)
  /\ \A l \in Lcores : at[l] = "timers" => hash_mapper
  /\ arp_up => hash_mapper
  /\ main # "dead"

ProgramInv ==
  ProgramTypes /\ MainSound /\ LoopsSound /\ ExitStatus /\ (~met => OneMaker)

-----------------------------------------------------------------------------
LEMMA LcoreFacts ==
  /\ Loops = {1, 2, 3} \union Workers /\ Workers \subseteq Nat
  /\ RxLcore = 1 /\ TxLcore = 2 /\ DistLcore = 3 /\ MainLcore = 0
  /\ \A w \in Workers : w > 3
  /\ Loops \subseteq Lcores /\ Loops \subseteq Nat
BY ProgramAssumption DEF Loops, Lcores, RxLcore, TxLcore, DistLcore, MainLcore

LEMMA Least ==
  ASSUME NEW S \in SUBSET Nat, S # {}
  PROVE  \E m \in S : \A k \in S : m <= k
<1> DEFINE less == {ss \in Nat \X Nat : ss[1] < ss[2]}
<1>1. IsWellFoundedOn(less, Nat)
  BY NatLessThanWellFounded, Zenon DEF OpToRel
<1>2. PICK m \in S : \A k \in S : ~(<<k, m>> \in less)
  <2> HIDE DEF less
  <2> QED BY <1>1, WFMin
<1>3. ASSUME NEW k \in Nat, NEW n \in Nat, ~(<<k, n>> \in less) PROVE n <= k
  BY <1>3
<1>4. QED BY <1>2, <1>3

LEMMA NextLaunched ==
  ASSUME NEW l \in Loops, l # RxLcore
  PROVE  LaunchOrder(l) \in Loops \ {TxLcore}
<1>1. CASE l = TxLcore
  BY <1>1, LcoreFacts DEF LaunchOrder
<1>2. CASE l # TxLcore
  <2> DEFINE later == {w \in Workers : w > l}
  <2>1. LaunchOrder(l) = IF later = {} THEN RxLcore
                         ELSE CHOOSE w \in later : \A v \in later : w <= v
    BY <1>2 DEF LaunchOrder
  <2>2. CASE later = {}
    BY <2>1, <2>2, LcoreFacts
  <2>3. CASE later # {}
    <3>1. later \in SUBSET Nat
      BY LcoreFacts
    <3>2. \E w \in later : \A v \in later : w <= v
      BY <2>3, <3>1, Least
    <3>3. LaunchOrder(l) \in later
      BY <2>1, <2>3, <3>2
    <3>4. QED BY <3>3, LcoreFacts
  <2>4. QED BY <2>2, <2>3
<1>3. QED BY <1>1, <1>2

LEMMA InitProgram == ProgramInit => ProgramInv
<1> SUFFICES ASSUME ProgramInit PROVE ProgramInv
  OBVIOUS
<1>1. ProgramTypes
  BY DEF ProgramInit, ProgramTypes, LoopStates, ArpStates
<1>2. (\A l \in Loops : loop[l] = "off") /\ (\A l \in Lcores : at[l] = "outside")
  BY DEF ProgramInit
<1>3. MainSound /\ LoopsSound
  BY <1>2, LcoreFacts DEF ProgramInit, MainSound, LoopsSound, Returned
<1>4. OneMaker
  BY <1>2 DEF ProgramInit, OneMaker, InArpInit
<1>5. ExitStatus
  BY DEF ProgramInit, ExitStatus
<1>6. QED BY <1>1, <1>3, <1>4, <1>5 DEF ProgramInv

-----------------------------------------------------------------------------
(***************************************************************************)
(* main, up to the exit.                                                   *)
(***************************************************************************)
LEMMA MainSteps ==
  ASSUME ProgramInv, MainStep
  PROVE  ProgramTypes' /\ MainSound' /\ LoopsSound' /\ ExitStatus'
<1>0. ProgramTypes /\ MainSound /\ LoopsSound /\ ExitStatus
  BY DEF ProgramInv
<1>a. UNCHANGED arp => at' = at
  BY DEF arp
<1>1. CASE pfm_init
  <2>1. /\ main = "init" /\ UNCHANGED <<next, loop, at>> /\ \A l \in Loops : loop[l] = "off"
        /\ (main' = "ports" \/ (main' = "exited" /\ status' = 1))
    BY <1>0, <1>1, <1>a DEF pfm_init, Exit, MainSound
  <2>2. ProgramTypes'
    BY <1>0, <2>1 DEF ProgramTypes
  <2>3. MainSound'
    BY <1>0, <2>1 DEF MainSound
  <2>4. LoopsSound'
    BY <2>1, LcoreFacts DEF LoopsSound, Returned
  <2>5. ExitStatus'
    BY <2>1 DEF ExitStatus
  <2>6. QED BY <2>2, <2>3, <2>4, <2>5
<1>2. CASE OpenPorts
  <2>1. /\ main = "ports" /\ UNCHANGED <<next, loop, at>> /\ \A l \in Loops : loop[l] = "off"
        /\ (main' = "launch" \/ (main' = "exited" /\ status' = 3))
        /\ next = TxLcore
    BY <1>0, <1>2, <1>a DEF OpenPorts, Exit, MainSound
  <2>2. ProgramTypes'
    BY <1>0, <2>1 DEF ProgramTypes
  <2>3. MainSound'
    BY <1>0, <2>1, LcoreFacts DEF MainSound
  <2>4. LoopsSound'
    BY <2>1, LcoreFacts DEF LoopsSound, Returned
  <2>5. ExitStatus'
    <3>1. CASE main' = "launch"
      BY <3>1 DEF ExitStatus
    <3>2. CASE main' = "exited" /\ status' = 3
      <4>1. \A l \in Loops : loop'[l] = "off"
        BY <2>1
      <4>2. status' # 0 /\ status' # 1 /\ status' # 2
        BY <3>2
      <4>3. QED BY <3>2, <4>1, <4>2, Zenon DEF ExitStatus
    <3>3. QED BY <2>1, <3>1, <3>2
  <2>6. QED BY <2>2, <2>3, <2>4, <2>5
<1>3. CASE Launch
  <2>1. /\ main = "launch" /\ loop' = [loop EXCEPT ![next] = "test"]
        /\ next' = LaunchOrder(next)
        /\ main' = IF next = RxLcore THEN "console" ELSE "launch"
        /\ UNCHANGED <<status, force_quit_g, at>>
    BY <1>3, <1>a DEF Launch
  <2>2. next \in Loops /\ loop[RxLcore] = "off" /\ (next # TxLcore => loop[TxLcore] # "off")
    BY <1>0, <2>1 DEF MainSound
  <2>3. loop'[next] = "test" /\ \A l \in Loops \ {next} : loop'[l] = loop[l]
    BY <1>0, <2>1, <2>2 DEF ProgramTypes
  <2>4. ProgramTypes'
    BY <1>0, <2>1 DEF ProgramTypes, LoopStates
  <2>5. MainSound'
    <3>1. CASE next = RxLcore
      BY <2>1, <2>2, <2>3, <3>1, LcoreFacts DEF MainSound
    <3>2. CASE next # RxLcore
      <4>1. LaunchOrder(next) \in Loops \ {TxLcore}
        BY <2>2, <3>2, NextLaunched
      <4>2. loop'[TxLcore] # "off" /\ loop'[RxLcore] = "off"
        BY <2>2, <2>3, <3>2, LcoreFacts
      <4>3. QED BY <2>1, <3>2, <4>1, <4>2 DEF MainSound
    <3>3. QED BY <3>1, <3>2
  <2>6. LoopsSound'
    BY <1>0, <2>1, <2>3, LcoreFacts DEF LoopsSound, Returned
  <2>7. ExitStatus'
    BY <2>1 DEF ExitStatus
  <2>8. QED BY <2>4, <2>5, <2>6, <2>7
<1>4. CASE LaunchFails
  <2>1. main = "launch" /\ UNCHANGED <<loop, at>>
    BY <1>4, <1>a DEF LaunchFails
  <2>2. next \in Loops /\ loop[RxLcore] = "off" /\ (next # TxLcore => loop[TxLcore] # "off")
    BY <1>0, <2>1 DEF MainSound
  <2>3. ProgramTypes'
    BY <1>0, <2>1 DEF ProgramTypes
  <2>4. CASE /\ next \in Workers /\ next' = LaunchOrder(next)
             /\ UNCHANGED <<main, status, force_quit_g>>
    <3>1. LaunchOrder(next) \in Loops \ {TxLcore} /\ loop[TxLcore] # "off"
      BY <2>2, <2>4, NextLaunched, LcoreFacts
    <3>2. MainSound'
      BY <2>1, <2>2, <2>4, <3>1 DEF MainSound
    <3>3. LoopsSound' /\ ExitStatus'
      BY <1>0, <2>1, <2>4 DEF LoopsSound, ExitStatus
    <3>4. QED BY <2>3, <3>2, <3>3
  <2>5. CASE main' = "exited" /\ status' = 2 /\ force_quit_g' = TRUE
    <3>1. MainSound'
      BY <2>5 DEF MainSound
    <3>2. LoopsSound'
      BY <1>0, <2>1, <2>5 DEF LoopsSound
    <3>3. ExitStatus'
      BY <2>1, <2>2, <2>5 DEF ExitStatus
    <3>4. QED BY <2>3, <3>1, <3>2, <3>3
  <2>6. QED BY <1>4, <2>4, <2>5 DEF LaunchFails, Exit
<1>5. CASE WaitLcore
  <2>1. /\ main = "wait" /\ Waitable(next) /\ UNCHANGED <<force_quit_g, loop, at>>
    BY <1>5, <1>a DEF WaitLcore
  <2>2. /\ next \in {RxLcore, TxLcore} /\ loop[TxLcore] # "off" /\ loop[RxLcore] # "off"
        /\ RxLcore \in Loops /\ TxLcore \in Loops
    BY <1>0, <2>1, LcoreFacts DEF MainSound
  <2>3. ProgramTypes' /\ LoopsSound'
    BY <1>0, <2>1 DEF ProgramTypes, LoopsSound
  <2>4. CASE loop[next] = "returned 1"
    <3>1. main' = "exited" /\ status' = 3
      BY <1>5, <2>4 DEF WaitLcore, Exit
    <3>2. force_quit_g
      BY <1>0, <2>2, <2>4 DEF LoopsSound, Returned
    <3>3. MainSound'
      BY <3>1 DEF MainSound
    <3>4. ExitStatus'
      <4>1. force_quit_g' /\ \E l \in {RxLcore, TxLcore} : loop'[l] = "returned 1"
        BY <2>1, <2>2, <2>4, <3>2, Zenon
      <4>2. status' # 0 /\ status' # 1 /\ status' # 2
        BY <3>1
      <4>3. QED BY <3>1, <4>1, <4>2, Zenon DEF ExitStatus
    <3>5. QED BY <2>3, <3>3, <3>4
  <2>5. CASE loop[next] # "returned 1"
    <3> DEFINE later == {l \in Loops : l > next}
    <3>1. next = RxLcore
      BY <1>0, <2>1, <2>2, <2>5 DEF Waitable, Returned, LoopsSound
    <3>2. TxLcore \in later /\ \A l \in later : TxLcore <= l
      BY <3>1, LcoreFacts
    <3>3. \A m \in later : (\A l \in later : m <= l) => m = TxLcore
      BY <3>2, LcoreFacts
    <3>4. /\ next' = CHOOSE l \in later : \A k \in later : l <= k
          /\ UNCHANGED <<main, status>>
      BY <1>5, <2>5, <3>2 DEF WaitLcore
    <3>5. next' = TxLcore
      BY <3>2, <3>3, <3>4
    <3>6. QED BY <1>0, <2>1, <2>2, <2>3, <3>4, <3>5 DEF MainSound, ExitStatus
  <2>6. QED BY <2>4, <2>5
<1>6. QED BY <1>1, <1>2, <1>3, <1>4, <1>5 DEF MainStep

(***************************************************************************)
(* Everything else leaves the exit alone.                                  *)
(***************************************************************************)
LEMMA LoopStep ==
  ASSUME ProgramInv, NEW l \in Loops, NEW from, NEW to \in LoopStates \ {"off"},
         from # "off", at' \in [Lcores -> ArpStates], Goes(l, from, to),
         to \in Returned => force_quit_g,
         l = TxLcore => to # "returned 0"
  PROVE  ProgramTypes' /\ MainSound' /\ LoopsSound' /\ ExitStatus'
<1>0. ProgramTypes /\ MainSound /\ LoopsSound
  BY DEF ProgramInv
<1>1. /\ main \notin {"exited", "dead"} /\ loop[l] = from /\ loop' = [loop EXCEPT ![l] = to]
      /\ UNCHANGED <<main, next, status, force_quit_g>>
  BY DEF Goes, Alive
<1>2. loop'[l] = to /\ \A k \in Loops \ {l} : loop'[k] = loop[k]
  BY <1>0, <1>1 DEF ProgramTypes
<1>3. \A k \in Loops : loop'[k] = "off" <=> loop[k] = "off"
  BY <1>1, <1>2
<1>4. ProgramTypes'
  BY <1>0, <1>1 DEF ProgramTypes
<1>5. MainSound'
  BY <1>0, <1>1, <1>3, LcoreFacts DEF MainSound
<1>6. LoopsSound'
  <2>1. \A k \in Loops : loop'[k] \in Returned => force_quit_g'
    BY <1>0, <1>1, <1>2, Zenon DEF LoopsSound
  <2>2. loop'[TxLcore] # "returned 0"
    BY <1>0, <1>2, LcoreFacts DEF LoopsSound
  <2>3. QED BY <2>1, <2>2 DEF LoopsSound
<1>7. ExitStatus'
  BY <1>1 DEF ExitStatus
<1>8. QED BY <1>4, <1>5, <1>6, <1>7

LEMMA FirstUseStep ==
  ASSUME ProgramTypes, NEW l \in Lcores, FirstUse(l)
  PROVE  at' \in [Lcores -> ArpStates]
BY DEF FirstUse, ProgramTypes, ArpStates, arp

LEMMA ExitStep ==
  ASSUME ProgramInv, [ProgramNext]_programVars
  PROVE  ProgramTypes' /\ MainSound' /\ LoopsSound' /\ ExitStatus'
<1>0. ProgramTypes /\ MainSound /\ LoopsSound /\ ExitStatus
  BY DEF ProgramInv
<1>a. (UNCHANGED arp => at' = at) /\ at \in [Lcores -> ArpStates]
  BY <1>0 DEF arp, ProgramTypes
<1>b. /\ {"test", "again", "round", "get", "work", "returned 0", "returned 1"}
           \subseteq LoopStates \ {"off"}
      /\ {"test", "again", "round", "get", "work"} \intersect Returned = {}
  BY DEF LoopStates, Returned
<1>1. CASE signal_handler
  <2>1. /\ UNCHANGED <<main, next, status, loop, at>> /\ force_quit_g' = TRUE
        /\ main # "exited"
    BY <1>1, <1>a DEF signal_handler, Alive
  <2>2. QED BY <1>0, <2>1 DEF ProgramTypes, MainSound, LoopsSound, ExitStatus
<1>2. ASSUME NEW r \in Outcomes, ReadLine(r)
      PROVE  ProgramTypes' /\ MainSound' /\ LoopsSound' /\ ExitStatus'
  <2>1. /\ main = "console" /\ main' \in {"wait", "console"} /\ UNCHANGED <<status, loop>>
        /\ main' = "wait" => next' = RxLcore
    BY <1>2 DEF ReadLine
  <2>2. force_quit_g => force_quit_g'
    BY <1>2, Zenon DEF ReadLine
  <2>3. at' \in [Lcores -> ArpStates]
    BY <1>0, <1>2, <1>a, FirstUseStep DEF ReadLine, Lcores
  <2>4. ProgramTypes' /\ ExitStatus'
    BY <1>0, <2>1, <2>3 DEF ProgramTypes, ExitStatus
  <2>5. MainSound'
    BY <1>0, <2>1 DEF MainSound
  <2>6. LoopsSound'
    BY <1>0, <2>1, <2>2, Zenon DEF LoopsSound
  <2>7. QED BY <2>4, <2>5, <2>6
<1>3. CASE rx_loop
  <2>1. RxLcore \in Loops /\ RxLcore # TxLcore
    BY LcoreFacts
  <2>2. CASE Goes(RxLcore, "test", "returned 1") /\ force_quit_g /\ at' = at
    BY <1>a, <1>b, <2>1, <2>2, LoopStep
  <2>3. CASE Goes(RxLcore, "again", "returned 0") /\ force_quit_g /\ at' = at
    BY <1>a, <1>b, <2>1, <2>3, LoopStep
  <2>4. CASE /\ at' = at
             /\ \/ Goes(RxLcore, "test", "again") \/ Goes(RxLcore, "again", "round")
                \/ Goes(RxLcore, "round", "test")
    BY <1>a, <1>b, <2>1, <2>4, LoopStep
  <2>5. QED BY <1>3, <1>a, <2>2, <2>3, <2>4 DEF rx_loop
<1>4. CASE RxArpReply
  <2>1. RxLcore \in Loops /\ RxLcore # TxLcore /\ RxLcore \in Lcores
    BY LcoreFacts
  <2>2. CASE Goes(RxLcore, "round", "test") /\ FirstUse(RxLcore)
    <3>1. at' \in [Lcores -> ArpStates]
      BY <1>0, <2>1, <2>2, FirstUseStep
    <3>2. QED BY <1>b, <2>1, <2>2, <3>1, LoopStep
  <2>3. CASE main' = "dead" /\ UNCHANGED <<next, status, force_quit_g, loop, arp>>
    BY <1>0, <1>a, <2>3 DEF ProgramTypes, MainSound, LoopsSound, ExitStatus
  <2>4. QED BY <1>4, <2>2, <2>3 DEF RxArpReply
<1>5. CASE tx_loop
  <2>1. TxLcore \in Loops
    BY LcoreFacts
  <2>2. QED BY <1>5, <1>a, <1>b, <2>1, LoopStep DEF tx_loop
<1>6. CASE dist_loop
  <2>1. DistLcore \in Loops /\ DistLcore # TxLcore
    BY LcoreFacts
  <2>2. QED BY <1>6, <1>a, <1>b, <2>1, LoopStep DEF dist_loop
<1>7. ASSUME NEW w \in Workers, worker_loop(w) \/ Answer(w)
      PROVE  ProgramTypes' /\ MainSound' /\ LoopsSound' /\ ExitStatus'
  <2>1. w \in Loops /\ w # TxLcore /\ w \in Lcores
    BY LcoreFacts
  <2>2. CASE Goes(w, "test", "returned 1") /\ force_quit_g /\ at' = at
    BY <1>a, <1>b, <2>1, <2>2, LoopStep
  <2>3. CASE /\ at' = at
             /\ \/ Goes(w, "test", "get") \/ Goes(w, "work", "test") \/ Goes(w, "get", "work")
    BY <1>a, <1>b, <2>1, <2>3, LoopStep
  <2>4. CASE Goes(w, "work", "test") /\ FirstUse(w)
    <3>1. at' \in [Lcores -> ArpStates]
      BY <1>0, <2>1, <2>4, FirstUseStep
    <3>2. QED BY <1>b, <2>1, <2>4, <3>1, LoopStep
  <2>5. QED BY <1>7, <1>a, <2>2, <2>3, <2>4 DEF worker_loop, Answer
<1>8. ASSUME NEW l \in Lcores, arp_init(l)
      PROVE  ProgramTypes' /\ MainSound' /\ LoopsSound' /\ ExitStatus'
  <2>1. UNCHANGED <<main, next, status, force_quit_g, loop>>
    BY <1>8 DEF arp_init, Create, Assign, SetUp, In
  <2>2. at' \in [Lcores -> ArpStates]
    <3>1. CASE Create(l)
      BY <1>0, <3>1 DEF Create, ProgramTypes, ArpStates
    <3>2. CASE Assign(l)
      BY <1>0, <3>2 DEF Assign, ProgramTypes, ArpStates
    <3>3. CASE SetUp(l)
      BY <1>0, <3>3 DEF SetUp, ProgramTypes, ArpStates
    <3>4. QED BY <1>8, <3>1, <3>2, <3>3 DEF arp_init
  <2>3. QED BY <1>0, <2>1, <2>2 DEF ProgramTypes, MainSound, LoopsSound, ExitStatus
<1>9. CASE UNCHANGED programVars
  BY <1>0, <1>9 DEF programVars, arp, ProgramTypes, MainSound, LoopsSound, ExitStatus
<1>10. QED
  BY <1>1, <1>2, <1>3, <1>4, <1>5, <1>6, <1>7, <1>8, <1>9, MainSteps DEF ProgramNext

-----------------------------------------------------------------------------
(***************************************************************************)
(* The maker of the ARP table.                                             *)
(***************************************************************************)
LEMMA FirstUseMaker ==
  ASSUME ProgramTypes, ~met => OneMaker, NEW l \in Lcores, Outside(l), FirstUse(l), ~met',
         main' # "dead"
  PROVE  OneMaker'
<1>1. CASE arp_up
  <2>1. UNCHANGED <<arp_made, hash_mapper, arp_up, at, met>>
    BY <1>1 DEF FirstUse, arp
  <2>2. QED BY <2>1 DEF OneMaker, InArpInit
<1>2. CASE ~arp_up
  <2>1. /\ at' = [at EXCEPT ![l] = "create"] /\ UNCHANGED <<hash_mapper, arp_up>>
        /\ ~met /\ \A k \in Lcores : ~InArpInit(k)
    BY <1>2 DEF FirstUse
  <2>2. at'[l] = "create" /\ \A k \in Lcores \ {l} : at'[k] = "outside"
    BY <2>1 DEF ProgramTypes, InArpInit
  <2>3. QED BY <1>2, <2>1, <2>2 DEF OneMaker, InArpInit
<1>3. QED BY <1>1, <1>2

LEMMA MakerStep ==
  ASSUME ProgramTypes, ~met => OneMaker, [ProgramNext]_programVars, ~met'
  PROVE  OneMaker'
<1>1. ASSUME UNCHANGED arp, main' # "dead" PROVE OneMaker'
  BY <1>1 DEF arp, OneMaker, InArpInit
<1>2. CASE MainStep \/ signal_handler \/ UNCHANGED programVars
  <2>1. UNCHANGED arp
    BY <1>2 DEF MainStep, pfm_init, OpenPorts, Launch, LaunchFails, WaitLcore, signal_handler, programVars
  <2>2. main # "dead"
    BY <2>1 DEF arp, OneMaker
  <2>3. main' # "dead"
    BY <1>2, <2>2
    DEF MainStep, pfm_init, OpenPorts, Launch, LaunchFails, WaitLcore, signal_handler, programVars, Exit
  <2>4. QED BY <1>1, <2>1, <2>3
<1>3. ASSUME NEW r \in Outcomes, ReadLine(r) PROVE OneMaker'
  <2>1. main' # "dead" /\ Outside(MainLcore) /\ MainLcore \in Lcores
        /\ (FirstUse(MainLcore) \/ UNCHANGED arp)
    BY <1>3 DEF ReadLine, Lcores
  <2>2. QED BY <1>1, <2>1, FirstUseMaker
<1>4. ASSUME NEW l \in Loops, NEW from, NEW to, Goes(l, from, to), UNCHANGED arp \/ FirstUse(l)
      PROVE  OneMaker'
  <2>1. main' # "dead" /\ Outside(l) /\ l \in Lcores
    BY <1>4, LcoreFacts DEF Goes, Alive
  <2>2. QED BY <1>1, <1>4, <2>1, FirstUseMaker
<1>5. CASE rx_loop \/ tx_loop \/ dist_loop
  BY <1>4, <1>5, LcoreFacts DEF rx_loop, tx_loop, dist_loop
<1>6. CASE RxArpReply
  <2>1. CASE Goes(RxLcore, "round", "test") /\ FirstUse(RxLcore)
    BY <1>4, <2>1, LcoreFacts
  <2>2. CASE arp_up /\ ~hash_mapper /\ UNCHANGED arp
    BY <2>2 DEF OneMaker, arp
  <2>3. QED BY <1>6, <2>1, <2>2 DEF RxArpReply
<1>7. ASSUME NEW w \in Workers, worker_loop(w) \/ Answer(w) PROVE OneMaker'
  BY <1>4, <1>7, LcoreFacts DEF worker_loop, Answer
<1>8. ASSUME NEW l \in Lcores, arp_init(l) PROVE OneMaker'
  <2>0. met' = met /\ main' = main
    BY <1>8 DEF arp_init, Create, Assign, SetUp, In
  <2>1. ~met /\ OneMaker /\ main' = main
    BY <2>0, Zenon
  <2>2. InArpInit(l) /\ ~arp_up /\ main' # "dead"
    BY <1>8, <2>1 DEF arp_init, Create, Assign, SetUp, In, InArpInit, OneMaker
  <2>3. \A k \in Lcores \ {l} : at[k] = "outside"
    BY <2>1, <2>2 DEF OneMaker, InArpInit
  <2>4. ASSUME at' \in [Lcores -> ArpStates], \A k \in Lcores \ {l} : at'[k] = at[k],
               at'[l] = "timers" => hash_mapper',
               arp_up' => at'[l] = "outside" /\ hash_mapper'
        PROVE  OneMaker'
    BY <2>2, <2>3, <2>4 DEF OneMaker, InArpInit
  <2>5. CASE Create(l)
    BY <2>2, <2>4, <2>5 DEF Create, ProgramTypes, ArpStates
  <2>6. CASE Assign(l)
    BY <2>2, <2>4, <2>6 DEF Assign, ProgramTypes, ArpStates
  <2>7. CASE SetUp(l)
    <3>1. hash_mapper
      BY <2>1, <2>7 DEF OneMaker, SetUp, In
    <3>2. QED BY <2>4, <2>7, <3>1 DEF SetUp, ProgramTypes, ArpStates
  <2>8. QED BY <1>8, <2>5, <2>6, <2>7 DEF arp_init
<1>9. QED
  BY <1>2, <1>3, <1>5, <1>6, <1>7, <1>8 DEF ProgramNext

-----------------------------------------------------------------------------
(* Where main is, what each loop has returned and who makes the ARP table  *)
(* fit together from start-up to exit (cuup.c, pfm.c, pfm_arp.c).          *)
THEOREM ProgramSafe == ProgramSpec => []ProgramInv
<1>1. ProgramInv /\ [ProgramNext]_programVars => ProgramInv'
  BY ExitStep, MakerStep DEF ProgramInv
<1>2. QED BY <1>1, InitProgram, PTL DEF ProgramSpec

(* The program never exits with 0, and with 1, 2 or 3 only for the reasons *)
(* the code gives them for, however many workers there are (cuup.c).       *)
THEOREM ExitsWithReason == ProgramSpec => []ExitStatus
<1>1. ProgramInv => ExitStatus
  BY DEF ProgramInv
<1>2. QED BY <1>1, ProgramSafe, PTL

(* An ARP table that counts as up has its hash unless two lcores met in    *)
(* arp_init.                                                               *)
THEOREM ArpMapperSafe == ProgramSpec => []ArpMapperSound
<1>1. ProgramInv => ArpMapperSound
  BY DEF ProgramInv, OneMaker, ArpMapperSound
<1>2. QED BY <1>1, ProgramSafe, PTL

-----------------------------------------------------------------------------
(* The fields the argument above does not need.                            *)
LEMMA TypesNext ==
  ASSUME ProgramInv, ProgramTypeOK, [ProgramNext]_programVars
  PROVE  ProgramTypeOK'
<1>1. ProgramTypes' /\ MainSound
  BY ExitStep DEF ProgramInv
<1>2. TxLcore \in Lcores /\ RxLcore \in Lcores /\ MainLcore \in Lcores /\ Loops \subseteq Lcores
  BY LcoreFacts DEF Lcores
<1> DEFINE States == {"init", "ports", "launch", "console", "wait", "exited", "dead"}
           Statuses == 0 .. 3 \union {NoStatus}
<1>3. main \in States /\ next \in Lcores /\ status \in Statuses
  BY DEF ProgramTypeOK
<1>4. {0, 1, 2, 3} \subseteq Statuses
  OBVIOUS
<1> HIDE DEF Statuses
<1>5. ASSUME MainStep \/ signal_handler
      PROVE  main' \in States /\ next' \in Lcores /\ status' \in Statuses
  <2>1. CASE pfm_init \/ OpenPorts \/ signal_handler
    BY <1>3, <1>4, <2>1 DEF pfm_init, OpenPorts, signal_handler, Exit
  <2>2. CASE Launch \/ LaunchFails
    <3>1. next \in Loops
      BY <1>1, <2>2 DEF Launch, LaunchFails, MainSound
    <3>2. LaunchOrder(next) \in Lcores
      <4>1. CASE next = RxLcore
        BY <1>2, <4>1, LcoreFacts DEF LaunchOrder
      <4>2. CASE next # RxLcore
        BY <1>2, <3>1, <4>2, NextLaunched
      <4>3. QED BY <4>1, <4>2
    <3>3. QED BY <1>3, <1>4, <2>2, <3>2 DEF Launch, LaunchFails, Exit
  <2>3. CASE WaitLcore
    <3> DEFINE later == {l \in Loops : l > next}
    <3>1. CASE later = {} \/ loop[next] = "returned 1"
      BY <1>3, <1>4, <2>3, <3>1 DEF WaitLcore, Exit
    <3>2. CASE later # {} /\ loop[next] # "returned 1"
      <4>1. later \in SUBSET Nat /\ later \subseteq Lcores
        BY <1>2, LcoreFacts
      <4>2. /\ next' = CHOOSE l \in later : \A k \in later : l <= k
            /\ UNCHANGED <<main, status>>
        BY <2>3, <3>2 DEF WaitLcore
      <4>3. \E m \in later : \A k \in later : m <= k
        BY <3>2, <4>1, Least
      <4>4. next' \in later
        BY <4>2, <4>3
      <4>5. QED BY <1>3, <4>1, <4>2, <4>4
    <3>3. QED BY <3>1, <3>2
  <2>4. QED BY <1>5, <2>1, <2>2, <2>3 DEF MainStep
<1>6. ASSUME \/ \E r \in Outcomes : ReadLine(r)
             \/ rx_loop \/ RxArpReply \/ tx_loop \/ dist_loop
             \/ \E w \in Workers : worker_loop(w) \/ Answer(w)
             \/ \E l \in Lcores : arp_init(l)
             \/ UNCHANGED programVars
      PROVE  main' \in States /\ next' \in Lcores /\ status' \in Statuses
  <2>1. ASSUME NEW r \in Outcomes, ReadLine(r)
        PROVE  main' \in States /\ next' \in Lcores /\ status' \in Statuses
    BY <1>2, <1>3, <2>1 DEF ReadLine
  <2>2. CASE \/ rx_loop \/ RxArpReply \/ tx_loop \/ dist_loop
             \/ \E w \in Workers : worker_loop(w) \/ Answer(w)
    BY <1>3, <2>2 DEF rx_loop, RxArpReply, tx_loop, dist_loop, worker_loop, Answer, Goes
  <2>3. CASE (\E l \in Lcores : arp_init(l)) \/ UNCHANGED programVars
    BY <1>3, <2>3 DEF arp_init, Create, Assign, SetUp, In, programVars
  <2>4. QED BY <1>6, <2>1, <2>2, <2>3
<1>7. main' \in States /\ next' \in Lcores /\ status' \in Statuses
  BY <1>5, <1>6 DEF ProgramNext
<1>8. /\ force_quit_g \in BOOLEAN /\ arp_made \in BOOLEAN /\ hash_mapper \in BOOLEAN
      /\ arp_up \in BOOLEAN /\ met \in BOOLEAN
  BY DEF ProgramTypeOK
<1>9. force_quit_g' \in BOOLEAN
  <2>1. CASE force_quit_g' = force_quit_g \/ force_quit_g' = TRUE
    BY <1>8, <2>1
  <2>2. ASSUME NEW r, ReadLine(r) PROVE force_quit_g' \in BOOLEAN
    BY <2>2, Zenon DEF ReadLine
  <2>3. CASE MainStep \/ signal_handler
    BY <2>1, <2>3 DEF MainStep, pfm_init, OpenPorts, Launch, LaunchFails, WaitLcore,
                      signal_handler
  <2>4. CASE \/ rx_loop \/ RxArpReply \/ tx_loop \/ dist_loop
             \/ \E w \in Workers : worker_loop(w) \/ Answer(w)
    BY <2>1, <2>4 DEF rx_loop, RxArpReply, tx_loop, dist_loop, worker_loop, Answer, Goes
  <2>5. CASE (\E l \in Lcores : arp_init(l)) \/ UNCHANGED programVars
    BY <2>1, <2>5 DEF arp_init, Create, Assign, SetUp, In, programVars
  <2>6. QED BY <2>2, <2>3, <2>4, <2>5 DEF ProgramNext
<1> DEFINE Bools == /\ arp_made' \in BOOLEAN /\ hash_mapper' \in BOOLEAN
                    /\ arp_up' \in BOOLEAN /\ met' \in BOOLEAN
<1>10. Bools
  <2>1. ASSUME UNCHANGED arp PROVE Bools
    BY <1>8, <2>1 DEF arp
  <2>2. ASSUME NEW l, FirstUse(l) PROVE Bools
    <3>1. CASE arp_up
      BY <2>1, <2>2, <3>1 DEF FirstUse
    <3>2. CASE ~arp_up
      <4>1. /\ UNCHANGED <<arp_made, hash_mapper, arp_up>>
            /\ met' = (met \/ \E k \in Lcores : InArpInit(k))
        BY <2>2, <3>2 DEF FirstUse
      <4>2. met' \in BOOLEAN
        BY <4>1, Zenon
      <4>3. QED BY <1>8, <4>1, <4>2
    <3>3. QED BY <3>1, <3>2
  <2>3. ASSUME NEW l \in Lcores, arp_init(l) PROVE Bools
    <3>1. CASE Create(l)
      <4>1. /\ UNCHANGED <<hash_mapper, arp_up, met>>
            /\ \E made \in {FALSE, ~arp_made} : arp_made' = (arp_made \/ made)
        BY <3>1 DEF Create
      <4>2. arp_made' \in BOOLEAN
        BY <4>1, Zenon
      <4>3. QED BY <1>8, <4>1, <4>2
    <3>2. CASE Assign(l)
      <4>1. UNCHANGED <<arp_made, arp_up, met>> /\ hash_mapper' = (at[l] = "created")
        BY <3>2 DEF Assign
      <4>2. hash_mapper' \in BOOLEAN
        BY <4>1, Zenon
      <4>3. QED BY <1>8, <4>1, <4>2
    <3>3. CASE SetUp(l)
      BY <1>8, <3>3 DEF SetUp
    <3>4. QED BY <2>3, <3>1, <3>2, <3>3 DEF arp_init
  <2> HIDE DEF Bools
  <2>4. ASSUME NEW r, ReadLine(r) PROVE Bools
    BY <2>1, <2>2, <2>4 DEF ReadLine
  <2>5. CASE MainStep \/ signal_handler
    BY <2>1, <2>5 DEF MainStep, pfm_init, OpenPorts, Launch, LaunchFails, WaitLcore,
                      signal_handler
  <2>6. CASE rx_loop \/ RxArpReply \/ tx_loop \/ dist_loop
    BY <2>1, <2>2, <2>6 DEF rx_loop, RxArpReply, tx_loop, dist_loop
  <2>7. ASSUME NEW w \in Workers, worker_loop(w) \/ Answer(w) PROVE Bools
    BY <2>1, <2>2, <2>7 DEF worker_loop, Answer
  <2>8. CASE UNCHANGED programVars
    BY <2>1, <2>8 DEF programVars
  <2>9. QED BY <2>3, <2>4, <2>5, <2>6, <2>7, <2>8 DEF ProgramNext
<1>11. QED
  BY <1>1, <1>7, <1>9, <1>10
     DEF ProgramTypes, ProgramTypeOK, LoopStates, ArpStates, Statuses

(* From its start to its exit main, the loops and arp_init are only ever   *)
(* at the places of the code, and the exit status is one main gives.       *)
THEOREM ProgramTyped == ProgramSpec => []ProgramTypeOK
<1>1. ProgramInit => ProgramTypeOK
  BY LcoreFacts DEF ProgramInit, ProgramTypeOK, Lcores
<1>2. ProgramInv /\ ProgramTypeOK /\ [ProgramNext]_programVars => ProgramTypeOK'
  BY TypesNext
<1>3. QED BY <1>1, <1>2, ProgramSafe, PTL DEF ProgramSpec

=============================================================================
