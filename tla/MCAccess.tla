------------------------------ MODULE MCAccess ------------------------------
(***************************************************************************)
(* Model values for Access: two sessions of one account.                   *)
(***************************************************************************)
EXTENDS Access, TLC

CONSTANTS a, s1, s2, c1, c2

OneAccount == (s1 :> a) @@ (s2 :> a)
=============================================================================
