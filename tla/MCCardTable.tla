--------------------------- MODULE MCCardTable ---------------------------
(* The card table with hands of up to four cards. *)
EXTENDS CardTable
=============================================================================
