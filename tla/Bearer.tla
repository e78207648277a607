------------------------------- MODULE Bearer -------------------------------
(***************************************************************************)
(* The E1AP bearer context handlers (e1ap_bearer_setup.c, _modify.c and    *)
(* _release.c) on the UE table and the tunnel table.  The CU-CP's requests *)
(* are answered one after the other by one thread, so a request is a step; *)
(* what a worker sees of the tunnel table in between is the subject of     *)
(* TunnelTable.  The three sets of requests are parameters, for a run may  *)
(* want to leave one kind of change out.                                   *)
(***************************************************************************)
EXTENDS BearerOps

CONSTANTS
  SetupReqs,    \* [cucp, pdus : sequence of PDU sessions to set up]
  ModifyReqs,   \* [cuup, cucp, remove, modify, setup : sequences]
  ReleaseIds,   \* the ids the CU-CP may ask to release
  RoutedIps     \* what the route look-up for a peer yields: a local address,
                \* or something else if there is no route

(* What a decoded request can hold; its lists are arrays of a fixed size.  *)
SessionReq == [id : Ids, ip : RoutedIps, drbs : Seq(DrbIds)]
SessionChange ==
  [id : Ids, remove : Seq(DrbIds), modify : Seq(DrbIds), setup : Seq(DrbIds)]

ASSUME RequestAssumption ==
  /\ SetupReqs \subseteq [cucp : CucpIds, pdus : Seq(SessionReq)]
  /\ ModifyReqs \subseteq [cuup : UeIds, cucp : CucpIds, remove : Seq(Ids),
                           modify : Seq(SessionChange), setup : Seq(SessionReq)]
  /\ \A q \in ModifyReqs : \A i \in DOMAIN q.modify :
        Len(q.modify[i].remove) <= MAX_DRB_PER_UE
  /\ ReleaseIds \subseteq UeIds

VARIABLES
  tbl,     \* the tunnel table (see TunnelOps)
  ues,     \* the UE table (see BearerOps)
  phase,   \* "down": the UE table is not initialised yet; "up"; "dead": a
           \* handler has dereferenced a pointer that is none
  rsp      \* the answer to the last request

vars == <<tbl, ues, phase, rsp>>

Causes == {"none", "success", "resource", "unspecified", "unknown_id",
           "unknown_pair", "released", "release_failed"}
AnyUeId == UeIds \union CucpIds \union {MAX_UE_COUNT}
Answer(cause, cuup, cucp, granted) ==
  [cause |-> cause, cuup |-> cuup, cucp |-> cucp, granted |-> granted]

Init ==
  /\ tbl = EmptyTable(CHOOSE k \in TunnelKey : TRUE, [kind |-> "pdus", id |-> 0])
  /\ ues = EmptyUeTable
  /\ phase = "down"
  /\ rsp = Answer("none", 0, 0, {})

Work(t, c) == [tbl |-> t, ctx |-> c, granted |-> {}, dead |-> FALSE]
Known(id) == phase = "up" /\ ues.hash[id] # NoRow

-----------------------------------------------------------------------------
(* The test of the initialisation's return value is inverted: the table is *)
(* up afterwards, but the request that brought it up is refused.           *)
FirstSetup(q) ==
  /\ phase = "down"
  /\ phase' = "up"
  /\ rsp' = Answer("resource", MAX_UE_COUNT, q.cucp, {})
  /\ UNCHANGED <<tbl, ues>>

(* Without a free id nothing happens; without a free row the id is skipped.*)
SetupRefused(q) ==
  /\ phase = "up"
  /\ ~UeIdAvailable(ues) \/ ~UeRowAvailable(ues)
  /\ ues' = IF UeIdAvailable(ues) THEN ue_ctx_id_alloc(ues).ues ELSE ues
  /\ rsp' = Answer("resource", MAX_UE_COUNT, q.cucp, {})
  /\ UNCHANGED <<tbl, phase>>

(* Mutant: the DRBs of the UE that used the row before stay on the list.   *)
Fresh_KeepsDrbs(c, cucp) == [c EXCEPT !.cucp = cucp, !.pdusCount = 0]

(* A new context, before its sessions are set up.                          *)
Fresh(c, cucp) == [c EXCEPT !.cucp = cucp, !.pdusCount = 0, !.drbCount = 0]

(* A context without any PDU session is removed, which does not find it,   *)
(* for its id is not in the hash yet, and then committed like any other;   *)
(* the answer carries the CU-CP's id in both places.                       *)
SetupBearer(q) ==
  LET a == ue_ctx_id_alloc(ues)
      b == ue_ctx_alloc(a.ues, a.id)
      c == Fresh(b.ues.ctx[b.row], q.cucp)
      w == FoldLeft(pdus_setup, Work(tbl, c), q.pdus)
      d == ue_ctx_commit(w.tbl, [b.ues EXCEPT !.ctx[b.row] = w.ctx], b.row)
  IN  /\ phase = "up"
      /\ UeIdAvailable(ues) /\ UeRowAvailable(ues)
      /\ IF w.dead
         THEN phase' = "dead" /\ UNCHANGED <<tbl, ues, rsp>>
         ELSE /\ tbl' = d.tbl
              /\ ues' = d.ues
              /\ rsp' = IF w.ctx.pdusCount = 0
                        THEN Answer("unspecified", w.ctx.cucp, q.cucp, {})
                        ELSE Answer("success", a.id, q.cucp, w.granted)
              /\ UNCHANGED phase

ModifyUnknown(q) ==
  /\ phase # "dead"
  /\ ~Known(q.cuup) \/ ~UeRowAvailable(ues)
  /\ rsp' = Answer("unknown_id", q.cuup, q.cucp, {})
  /\ UNCHANGED <<tbl, ues, phase>>

(* The CU-CP's id is compared with the one left in the newly allocated row.*)
ModifyMismatch(q) ==
  LET m == ue_ctx_modify(ues, q.cuup)
      b == ue_ctx_rollback(tbl, m.ues, m.row)
      old == m.ues.ctx[ues.hash[q.cuup]]
  IN  /\ Known(q.cuup) /\ UeRowAvailable(ues)
      /\ m.ues.ctx[m.row].cucp # q.cucp
      /\ IF old.used /\ Missing(old)
         THEN phase' = "dead" /\ UNCHANGED <<tbl, ues, rsp>>
         ELSE /\ tbl' = b.tbl
              /\ ues' = b.ues
              /\ rsp' = Answer("unknown_pair", q.cuup, q.cucp, {})
              /\ UNCHANGED phase

ModifyBearer(q) ==
  LET m == ue_ctx_modify(ues, q.cuup)
      v == PdusModifications(PdusRemovals(Work(tbl, m.ues.ctx[m.row]), q.remove), q.modify)
      w == FoldLeft(pdus_setup, v, q.setup)
      d == ue_ctx_commit(w.tbl, [m.ues EXCEPT !.ctx[m.row] = w.ctx], m.row)
  IN  /\ Known(q.cuup) /\ UeRowAvailable(ues)
      /\ m.ues.ctx[m.row].cucp = q.cucp
      /\ IF w.dead \/ Missing(w.ctx)
         THEN phase' = "dead" /\ UNCHANGED <<tbl, ues, rsp>>
         ELSE /\ tbl' = d.tbl
              /\ ues' = d.ues
              /\ rsp' = Answer("success", q.cuup, q.cucp, w.granted)
              /\ UNCHANGED phase

ReleaseUnknown(id) ==
  /\ phase # "dead"
  /\ ~Known(id)
  /\ rsp' = Answer("release_failed", id, 0, {})
  /\ UNCHANGED <<tbl, ues, phase>>

(* The context is marked free and its tunnels are removed before it is     *)
(* looked up once more in order to be committed; that look-up succeeds     *)
(* only for the id at position 0.                                          *)
ReleaseMissed(id) ==
  LET x == ue_ctx_remove(tbl, ues, id)
  IN  /\ Known(id) /\ ues.zero # id
      /\ IF Missing(ues.ctx[ues.hash[id]])
         THEN phase' = "dead" /\ UNCHANGED <<tbl, ues, rsp>>
         ELSE /\ tbl' = x.tbl
              /\ ues' = x.ues
              /\ rsp' = Answer("release_failed", id, 0, {})
              /\ UNCHANGED phase

(* Deleting a key from the hash returns its position, which counts as a    *)
(* failure unless it is 0.                                                 *)
ReleaseBearer(id) ==
  LET r == ues.hash[id]
      x == ue_ctx_remove(tbl, ues, id)
      d == ue_ctx_commit(x.tbl, x.ues, r)
      other == ues.ctx[r].cuup
  IN  /\ Known(id) /\ ues.zero = id
      /\ IF Missing(ues.ctx[r])
         THEN phase' = "dead" /\ UNCHANGED <<tbl, ues, rsp>>
         ELSE /\ tbl' = d.tbl
              /\ ues' = d.ues
              /\ rsp' = Answer(IF other # id /\ ues.hash[other] = r
                               THEN "release_failed" ELSE "released", id, 0, {})
              /\ UNCHANGED phase

Next ==
  \/ \E q \in SetupReqs : FirstSetup(q) \/ SetupRefused(q) \/ SetupBearer(q)
  \/ \E q \in ModifyReqs : ModifyUnknown(q) \/ ModifyMismatch(q) \/ ModifyBearer(q)
  \/ \E id \in ReleaseIds : ReleaseUnknown(id) \/ ReleaseMissed(id) \/ ReleaseBearer(id)

Spec == Init /\ [][Next]_vars

-----------------------------------------------------------------------------

TypeOK ==
  /\ tbl \in Table
  /\ ues \in UeTable
  /\ phase \in {"down", "up", "dead"}
  /\ rsp \in [cause : Causes, cuup : AnyUeId, cucp : CucpIds,
              granted : SUBSET [key : TunnelKey, info : Info]]

(* The rest holds between two requests.  What the hashes lead to:          *)
Context(id) == ues.ctx[ues.hash[id]]
Committed(id) == ues.hash[id] # NoRow
Live(r) == r # NoRow /\ tbl.used[r] /\ tbl.hash[tbl.key[r]] = r

(* A UE id that the CU-UP knows leads to a context in use, of that very    *)
(* UE, so that no request for one UE is carried out on another's context.  *)
UeHashSound ==
  \A id \in UeIds : Committed(id) => Context(id).used /\ Context(id).cuup = id

(* Ids from 32 on do not fit a row: the DRB ids that several of them, or   *)
(* one of them several times, may be stored as.                            *)
Doubled == {DrbId(id) : id \in {i \in DrbIds : i >= 32}}

(* The DRB list of a UE names committed DRB tunnels only, each DRB id once *)
(* unless it is what an id from 32 on is cut down to, and no tunnel is on  *)
(* the lists of two UEs: drb_setup's duplicate check, ue_ctx_modify's      *)
(* copying and ue_ctx_commit's packing together keep it so.                *)
DrbsSound ==
  \A id \in {i \in UeIds : Committed(i)} :
    LET mine == Drbs(Context(id))
    IN  /\ \A i \in DOMAIN mine : Live(mine[i]) /\ tbl.info[mine[i]].kind = "drb"
        /\ \A i, j \in DOMAIN mine :
             AsDrbs(tbl)[mine[i]] = AsDrbs(tbl)[mine[j]] =>
               i = j \/ AsDrbs(tbl)[mine[i]] \in Doubled
        /\ \A other \in {i \in UeIds : Committed(i)} \ {id} :
              ToSet(mine) \intersect ToSet(Drbs(Context(other))) = {}

(* Every row in use can be found by its key, and the CU-CP was told the    *)
(* key when the row came into use: no set-up, refusal or rollback takes a  *)
(* row that nobody could ask to give back.  The exceptions are the two the *)
(* code makes: the tunnel of a failed session, whose id can only be 0 (see *)
(* SessionSetup), and the context of a set-up that failed as a whole.      *)
Announced(r) == \E g \in rsp.granted : g.key = tbl.key[r]
LeftBehind(r) == tbl.info[r] = [kind |-> "pdus", id |-> 0]
RowsAnnounced ==
  [][/\ \A r \in Rows : tbl'.used[r] =>
          Live(r)' /\ (tbl.used[r] \/ Announced(r)' \/ LeftBehind(r)')
     /\ \A r \in UeRows : ues'.ctx[r].used =>
          /\ ues'.hash[ues'.ctx[r].cuup] = r
          /\ \/ ues.ctx[r].used
             \/ rsp'.cause = "success" /\ rsp'.cuup = ues'.ctx[r].cuup
             \/ rsp'.cause = "unspecified"]_vars

(* A positive answer is true when it leaves: the key of every tunnel it    *)
(* announces to the CU-CP leads to a committed row in use, of the kind and *)
(* with the id that the answer says.  (Whether a worker's tunnel_get takes *)
(* that for a hit is the subject of TunnelTable.)                          *)
GrantsLive ==
  \A g \in rsp.granted :
    LET r == tbl.hash[g.key] IN r # NoRow /\ Live(r) /\ Told(tbl.info[r]) = g.info

(* A context that only grows loses nothing: a tunnel once committed keeps  *)
(* its key and its contents through every later request, of any UE.        *)
TunnelsKept ==
  [][\A k \in TunnelKey : tbl.hash[k] # NoRow =>
       tbl'.hash[k] # NoRow /\ tbl'.info[tbl'.hash[k]] = tbl.info[tbl.hash[k]]]_vars

(* A request changes the context of no UE but the one it succeeds for; a   *)
(* request that is refused, or that fails, changes no committed context.   *)
OthersKept ==
  [][\A id \in UeIds :
       Committed(id) /\ ~(rsp'.cause \in {"success", "released"} /\ rsp'.cuup = id)
       => ues'.hash[id] = ues.hash[id] /\ ues'.ctx[ues.hash[id]] = Context(id)]_vars

(* Whatever came before, a set-up only adds: every key a worker can find   *)
(* leads where it led, no row in use is touched, and every key announced   *)
(* to the CU-CP is one that led nowhere.                                   *)
SetupOnlyAdds ==
  [][(\E q \in SetupReqs : SetupBearer(q)) /\ phase' = "up" =>
       /\ \A k \in TunnelKey : tbl.hash[k] # NoRow => tbl'.hash[k] = tbl.hash[k]
       /\ \A r \in Rows : tbl.used[r] =>
            tbl'.used[r] /\ tbl'.key[r] = tbl.key[r] /\ tbl'.info[r] = tbl.info[r]
       /\ \A g \in rsp'.granted : tbl.hash[g.key] = NoRow]_vars
=============================================================================
