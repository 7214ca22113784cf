----------------------------- MODULE MCBuilding -----------------------------
(***************************************************************************)
(* Model values for Building: an account behind each connection, and two   *)
(* places for three accounts.                                              *)
(***************************************************************************)
EXTENDS Building, TLC

CONSTANTS a1, a2, a3, c1, c2, c3

MCAccountOf == [c \in Conns |-> CASE c = c1 -> a1 [] c = c2 -> a2 [] c = c3 -> a3]

(* The account behind a connection, renamed as the connection is. *)
Renamed(f) == [a \in Accounts |-> MCAccountOf[f[CHOOSE c \in Conns : MCAccountOf[c] = a]]]

Symmetry == {f @@ Renamed(f) : f \in Permutations(Conns)}
=============================================================================
