---------------------------- MODULE MCDialogue -----------------------------
(***************************************************************************)
(* Model values for Dialogue: two of the character's themes.               *)
(***************************************************************************)
EXTENDS Dialogue

TwoThemes == <<"sahur", "alcohol">>
=============================================================================
