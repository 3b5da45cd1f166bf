--------------------------- MODULE MCUpdateHandoff ---------------------------
(* Two versions that know the journal and one that does not.                *)
EXTENDS UpdateHandoff, TLC
===============================================================================
