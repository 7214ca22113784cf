----------------------------- MODULE MCAccounts -----------------------------
(***************************************************************************)
(* Model values for Accounts: root's id and two more to hand out, two      *)
(* admin requests.  The configurations choose how many of them there are.  *)
(***************************************************************************)
EXTENDS Accounts, TLC

CONSTANTS i1, i2, p1, r1, r2

Symmetry == Permutations({i1, i2}) \cup Permutations({r1, r2})
=============================================================================
