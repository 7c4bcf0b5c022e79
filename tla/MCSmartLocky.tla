--------------------------- MODULE MCSmartLocky ---------------------------
(* The smart lock with two retries and two sockets. *)
EXTENDS SmartLocky
=============================================================================
