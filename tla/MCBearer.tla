------------------------------ MODULE MCBearer ------------------------------
(***************************************************************************)
(* Requests for a CU-UP with a few tunnels and two or three UEs.  "n3" is  *)
(* the address a route to the session's peer yields, "elsewhere" a peer    *)
(* without a route, and "f1u" the address of the DRB tunnels.  The CU-CP   *)
(* names every UE 1; 0 is what a row never used holds, and a modification  *)
(* that names the UE 0 is one with the wrong pair of ids.                  *)
(***************************************************************************)
EXTENDS Bearer

MCInfo == [kind : {"pdus", "drb"}, id : Ids]
MCCucpIds == {0, 1}
MCRoutedIps == LocalIps \union {"elsewhere"}

Session(id, ip, drbs) == [id |-> id, ip |-> ip, drbs |-> drbs]
Change(id, remove, modify, setup) ==
  [id |-> id, remove |-> remove, modify |-> modify, setup |-> setup]
Setups(lists) == [cucp : {1}, pdus : lists]
Modifies(cucps, remove, modify, setup) ==
  [cuup : UeIds, cucp : cucps, remove : {remove}, modify : {modify}, setup : {setup}]

(* Contexts that only grow: sessions with one DRB, without a route, with a *)
(* DRB id that is already there or that does not fit a row, and session 0, *)
(* which can fail without taking the program with it.                      *)
GrowthSetups ==
  Setups({<<Session(1, "n3", <<1>>)>>, <<Session(0, "n3", <<1>>)>>,
          <<Session(1, "elsewhere", <<1>>)>>})
GrowthModifies == Modifies({0, 1}, <<>>, <<>>, <<Session(0, "n3", <<1, 32, 32>>)>>)

(* Every kind of request.  Session 33 and DRB 1 agree in five bits.        *)
AllSetups == Setups({<<Session(33, "n3", <<1>>)>>, <<Session(0, "n3", <<1>>)>>})
AllModifies ==
  UNION {Modifies({0}, <<>>, <<>>, <<>>),
         Modifies({1}, <<0>>, <<>>, <<>>),
         Modifies({1}, <<>>, <<Change(33, <<1>>, <<1>>, <<>>)>>, <<Session(0, "n3", <<1>>)>>)}
=============================================================================
