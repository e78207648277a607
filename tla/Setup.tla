------------------------------- MODULE Setup -------------------------------
(***************************************************************************)
(* The first E1AP bearer context set-up, kept with its tests under         *)
(* criterion_tests/e1ap/e1ap_bearer_setup: unlike the program's own tables *)
(* (TunnelOps, BearerOps) these reserve every id in a hash of its own, and *)
(* take a hit of a look-up for a hit at position 0 only, or for one at any *)
(* position but 0.  Set-ups are the only requests this program serves, so  *)
(* nothing it commits is ever removed.                                     *)
(***************************************************************************)
EXTENDS CyclicScan, FiniteSets, Sequences

CONSTANTS
  MAX_UE_COUNT, MAX_TUNNEL_COUNT,
  Requests,   \* what a request asks for: the number of DRBs of each session
  LastUeId,   \* bound: the last UE id tried
  NoRow, NoKey

VARIABLES
  tunnels,   \* tunnel_table_g with its hash, and the tunnel ids reserved
  ues,       \* ue_ctx_table_g with its hash, and the UE ids reserved
  run,       \* the handler: where it is and its local variables
  answers    \* history: what the successful answers announced

vars == <<tunnels, ues, run, answers>>

Rows == 0 .. MAX_TUNNEL_COUNT - 1
UeRows == 0 .. MAX_UE_COUNT - 1
UeIds == 0 .. LastUeId
Types == {"pdus", "drb"}
TunnelKey == [ttype : Types, te_id : Rows]   \* a local address for each type

ASSUME SetupAssumption ==
  /\ MAX_UE_COUNT \in Nat \ {0} /\ MAX_TUNNEL_COUNT \in Nat \ {0, 1}
  /\ Requests \subseteq Seq(Nat) /\ LastUeId \in Nat
  /\ NoRow \notin Nat /\ NoKey \notin Nat \union TunnelKey

NoRequest == [pc |-> "idle", req |-> <<>>, todo |-> <<>>, ctx |-> NoRow, sessions |-> 0,
              session |-> NoRow, left |-> 0, drbs |-> 0]

(* "zero" is the key at position 0 of a hash: the first one stored, since  *)
(* none at position 0 is ever deleted.                                     *)
Init ==
  /\ tunnels = [ids |-> {}, last_id |-> 0, used |-> {}, last_slot |-> 0, zero |-> NoKey,
                key |-> [r \in Rows |-> NoKey], hash |-> [k \in TunnelKey |-> NoRow]]
  /\ ues = [ids |-> {}, last_id |-> 0, zero_id |-> NoKey, used |-> {}, last_slot |-> 0,
            zero |-> NoKey, hash |-> [i \in UeIds |-> NoRow],
            ctx |-> [r \in UeRows |-> [cuup |-> 0, pdus |-> <<>>, drbs |-> <<>>]]]
  /\ run = NoRequest
  /\ answers = {}

-----------------------------------------------------------------------------
(* The search of tunnel_alloc and ue_ctx_alloc: the slot it starts from is *)
(* tested only if it is slot 0, and if that one is used too it never ends. *)
Endless(n, last, used) == last = 0 /\ used = 0 .. n - 1

NextSlot(n, last, used) ==
  LET free == 0 .. n - 1 \ used
  IN  IF Candidates(last, free) # {} THEN NextInScan(n, last, free)
      ELSE IF last = 0 /\ free # {} THEN 0 ELSE NoRow

(* The cursor moves also when every id is reserved, and is back then.      *)
id_alloc(t) ==
  LET free == Candidates(t.last_id, Rows \ t.ids)
      id   == NextInScan(MAX_TUNNEL_COUNT, t.last_id, free)
  IN  IF free = {} THEN [tunnels |-> t, id |-> NoRow]
      ELSE [tunnels |-> [t EXCEPT !.ids = @ \union {id}, !.last_id = id], id |-> id]

tunnel_key_free(t, k) == [t EXCEPT !.ids = @ \ {k.te_id}]

tunnel_alloc(t, k) ==
  LET r == NextSlot(MAX_TUNNEL_COUNT, t.last_slot, t.used)
  IN  IF r = NoRow THEN [tunnels |-> t, row |-> NoRow]
      ELSE [tunnels |-> [t EXCEPT !.used = @ \union {r}, !.key[r] = k, !.last_slot = r],
            row |-> r]

tunnel_add(t, k) ==
  IF t.zero = k THEN [tunnels |-> t, row |-> NoRow] ELSE tunnel_alloc(t, k)

tunnel_remove(t, k) ==
  IF t.hash[k] = NoRow THEN t ELSE [t EXCEPT !.used = @ \ {t.hash[k]}]

Store(t, k, r) == [t EXCEPT !.hash[k] = r, !.zero = IF @ = NoKey THEN k ELSE @]

tunnel_commit(t, nt) ==
  LET k == t.key[nt]
  IN  IF t.hash[k] = NoRow THEN Store(t, k, nt)
      ELSE IF t.hash[k] # nt THEN Store([t EXCEPT !.used = @ \ {t.hash[k]}], k, nt)
      ELSE IF nt \in t.used THEN t
      ELSE tunnel_key_free([t EXCEPT !.hash[k] = NoRow], k)

(* tunnel_key_alloc and tunnel_add, as pdus_setup and drb_setup call them. *)
(* They do not return if the search for a row has no end.                  *)
Returns(t, ttype) ==
  LET i == id_alloc(t)
  IN  \/ i.id = NoRow \/ t.zero = [ttype |-> ttype, te_id |-> i.id]
      \/ ~Endless(MAX_TUNNEL_COUNT, t.last_slot, t.used)

(* Only a session that finds no row gives its id back.                     *)
TunnelSetUp(t, ttype) ==
  LET i == id_alloc(t)
      k == [ttype |-> ttype, te_id |-> i.id]
      a == tunnel_add(i.tunnels, k)
  IN  IF i.id = NoRow THEN [tunnels |-> t, row |-> NoRow]
      ELSE IF a.row # NoRow \/ ttype = "drb" THEN a
      ELSE [a EXCEPT !.tunnels = tunnel_key_free(@, k)]

-----------------------------------------------------------------------------
(* An id counts as reserved unless rte_hash stores it at position 0.       *)
Reserved(u, i) == i \in u.ids /\ i # u.zero_id

NextUeId(u) ==
  IF ~Reserved(u, u.last_id + 1) THEN u.last_id + 1
  ELSE NextInScan(MAX_TUNNEL_COUNT, (u.last_id + 1) % MAX_TUNNEL_COUNT,
                  {u.last_id} \union {i \in Rows : ~Reserved(u, i)})

Reserve(u, i) ==
  IF i = u.last_id \/ (i \notin u.ids /\ Cardinality(u.ids) = MAX_UE_COUNT)
  THEN [ues |-> [u EXCEPT !.last_id = i], id |-> NoRow]
  ELSE [ues |-> [u EXCEPT !.ids = @ \union {i}, !.last_id = i,
                          !.zero_id = IF @ = NoKey THEN i ELSE @], id |-> i]

(* Mutant: the search begins at the id allocated last.                     *)
ue_ctx_id_alloc_NoStep(u) ==
  Reserve(u, IF Reserved(u, u.last_id) THEN NextUeId(u) ELSE u.last_id)

ue_ctx_id_alloc(u) == Reserve(u, NextUeId(u))

ue_ctx_id_free(u, i) == IF Reserved(u, i) THEN [u EXCEPT !.ids = @ \ {i}] ELSE u

ue_ctx_add(u, i) ==
  LET r == IF u.zero = i THEN NoRow ELSE NextSlot(MAX_UE_COUNT, u.last_slot, u.used)
  IN  IF r = NoRow THEN [ues |-> u, row |-> NoRow]
      ELSE [ues |-> [u EXCEPT !.used = @ \union {r}, !.last_slot = r, !.ctx[r].cuup = i],
            row |-> r]

(* Mutant: the last DRB of the list is not committed.                      *)
CommitDrbs_AllButLast(t, list) ==
  LET f[n \in 0 .. Len(list)] ==
        IF n = 0 THEN t ELSE tunnel_commit(f[n - 1], list[n])
  IN  IF list = <<>> THEN t ELSE f[Len(list) - 1]

CommitDrbs(t, list) ==
  LET f[n \in 0 .. Len(list)] == IF n = 0 THEN t ELSE tunnel_commit(f[n - 1], list[n])
  IN  f[Len(list)]

(* The sessions are committed the same way.  Then both lists are packed:   *)
(* the DRBs' down to the NULLs in it, and the sessions' to the first DRBs. *)
ue_ctx_commit(r) ==
  LET c      == ues.ctx[r]
      after  == CommitDrbs(CommitDrbs(tunnels, c.drbs), c.pdus)
      packed == [i \in 1 .. Len(c.pdus) |-> IF i <= Len(c.drbs) THEN c.drbs[i] ELSE c.pdus[i]]
  IN  /\ tunnels' = after
      /\ ues' = [ues EXCEPT !.ctx[r].drbs = <<>>, !.ctx[r].pdus = packed,
                            !.hash[c.cuup] = r,
                            !.zero = IF @ = NoKey THEN c.cuup ELSE @]

-----------------------------------------------------------------------------
(* e1ap_bearer_ctx_setup: a UE id and a context, or a failure.             *)
Receive(req) ==
  LET i == ue_ctx_id_alloc(ues)
      a == ue_ctx_add(i.ues, i.id)
      refused == [NoRequest EXCEPT !.pc = "refused", !.req = req]
  IN  /\ run.pc \in {"idle", "refused"}
      /\ ues.last_id < LastUeId
      /\ \/ i.id = NoRow \/ ues.zero = i.id
         \/ ~Endless(MAX_UE_COUNT, ues.last_slot, ues.used)
      /\ IF i.id = NoRow THEN ues' = i.ues /\ run' = refused
         ELSE IF a.row = NoRow THEN ues' = ue_ctx_id_free(a.ues, i.id) /\ run' = refused
         ELSE /\ ues' = a.ues
              /\ run' = [NoRequest EXCEPT !.pc = "session", !.req = req, !.todo = req,
                                          !.ctx = a.row]
      /\ UNCHANGED <<tunnels, answers>>

(* The beginning of pdus_setup: a tunnel for the session.                  *)
SessionSetUp ==
  LET a == TunnelSetUp(tunnels, "pdus")
  IN  /\ run.pc = "session" /\ run.todo # <<>>
      /\ Returns(tunnels, "pdus")
      /\ tunnels' = a.tunnels
      /\ run' = IF a.row = NoRow THEN [run EXCEPT !.todo = Tail(@)]
                ELSE [run EXCEPT !.pc = "drb", !.session = a.row, !.left = Head(run.todo),
                                 !.drbs = 0]
      /\ UNCHANGED <<ues, answers>>

drb_setup ==
  LET a == TunnelSetUp(tunnels, "drb")
  IN  /\ run.pc = "drb" /\ run.left > 0
      /\ Returns(tunnels, "drb")
      /\ tunnels' = a.tunnels
      /\ IF a.row = NoRow
         THEN run' = [run EXCEPT !.left = @ - 1] /\ UNCHANGED ues
         ELSE /\ run' = [run EXCEPT !.left = @ - 1, !.drbs = @ + 1]
              /\ ues' = [ues EXCEPT !.ctx[run.ctx].drbs = Append(@, a.row)]
      /\ UNCHANGED answers

(* Mutant: a session given up gives its id back at once.                   *)
GiveUp_FreesKey(t, r) == tunnel_key_free(t, t.key[r])

(* The session is not in the hash yet, so that tunnel_remove does not find *)
(* it and tunnel_commit stores it.                                         *)
GiveUp(t, r) == tunnel_commit(tunnel_remove(t, t.key[r]), r)

(* The end of pdus_setup: a session without a DRB is given up.             *)
SessionDone ==
  /\ run.pc = "drb" /\ run.left = 0
  /\ IF run.drbs = 0
     THEN tunnels' = GiveUp(tunnels, run.session) /\ UNCHANGED ues
     ELSE /\ ues' = [ues EXCEPT !.ctx[run.ctx].pdus = Append(@, run.session)]
          /\ UNCHANGED tunnels
  /\ run' = [run EXCEPT !.pc = "session", !.todo = Tail(@), !.session = NoRow,
                        !.sessions = @ + IF run.drbs = 0 THEN 0 ELSE 1]
  /\ UNCHANGED answers

(* Before a session is given up its id is logged as if it were a string: 0 *)
(* is printed as (null), any other id is dereferenced.  Ids are not kept.  *)
SessionDies ==
  /\ run.pc = "drb" /\ run.left = 0 /\ run.drbs = 0
  /\ run' = [run EXCEPT !.pc = "dead"]
  /\ UNCHANGED <<tunnels, ues, answers>>

Announce(r) ==
  LET c == ues.ctx[r]
      rows == {c.drbs[i] : i \in DOMAIN c.drbs} \union {c.pdus[i] : i \in DOMAIN c.pdus}
  IN  [ue |-> c.cuup, ctx |-> r,
       tunnels |-> {[key |-> tunnels.key[t], row |-> t] : t \in rows}]

(* The end of e1ap_bearer_ctx_setup.  Without a session the context is     *)
(* removed, which does not find it, and committed, which stores it.        *)
Answer ==
  /\ run.pc = "session" /\ run.todo = <<>>
  /\ ue_ctx_commit(run.ctx)
  /\ IF run.sessions = 0
     THEN run' = [NoRequest EXCEPT !.pc = "refused", !.req = run.req] /\ UNCHANGED answers
     ELSE run' = NoRequest /\ answers' = answers \union {Announce(run.ctx)}

Next ==
  \/ \E req \in Requests : Receive(req)
  \/ SessionSetUp \/ drb_setup \/ SessionDone \/ SessionDies \/ Answer

Spec == Init /\ [][Next]_vars

-----------------------------------------------------------------------------
(* A search for a row is never begun that cannot end, and never fails: as  *)
(* long as an id can be reserved there is a row for it, although an id and *)
(* a row are given back on different paths, if at all (tunnel.c:163).      *)
RowForEveryId ==
  /\ id_alloc(tunnels).id # NoRow =>
       /\ NextSlot(MAX_TUNNEL_COUNT, tunnels.last_slot, tunnels.used) # NoRow
       /\ ~Endless(MAX_TUNNEL_COUNT, tunnels.last_slot, tunnels.used)
  /\ Cardinality(ues.ids) < MAX_UE_COUNT =>
       ~Endless(MAX_UE_COUNT, ues.last_slot, ues.used)

(* What a successful answer announced stays: the UE id leads to its        *)
(* context, every tunnel key to its own row, and no other set-up shares    *)
(* any of them, failed set-ups between them included.                      *)
Announced ==
  \A a \in answers :
    /\ ues.hash[a.ue] = a.ctx
    /\ \A t \in a.tunnels :
         /\ tunnels.hash[t.key] = t.row
         /\ tunnels.key[t.row] = t.key /\ t.row \in tunnels.used
    /\ \A b \in answers \ {a} : a.ue # b.ue /\ a.tunnels \intersect b.tunnels = {}

(* A request is refused only for want of UE ids or tunnel ids, or because  *)
(* it asks for no DRB: the look-ups that misread position 0 cost no set-up *)
(* (ue_ctx.c:51, tunnel.c:278).                                            *)
RefusedOnlyWhenFull ==
  run.pc = "refused" =>
    \/ Cardinality(ues.ids) = MAX_UE_COUNT
    \/ tunnels.ids = Rows
    \/ \A i \in DOMAIN run.req : run.req[i] = 0
=============================================================================
