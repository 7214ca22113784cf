------------------------------- MODULE MCHub -------------------------------
(***************************************************************************)
(* An instance of Hub: three sockets in one room, c1 and c2 of account a1, *)
(* c3 of account a2.                                                       *)
(***************************************************************************)
EXTENDS Hub, TLC

CONSTANTS c1, c2, c3, a1, a2, r1

MCConns == {c1, c2, c3}
MCAccounts == {a1, a2}
MCRooms == {r1}
MCAccountID == (c1 :> a1) @@ (c2 :> a1) @@ (c3 :> a2)
MCRoom == (c1 :> r1) @@ (c2 :> r1) @@ (c3 :> r1)
=============================================================================
