--------------------------- MODULE MCRsaDebugger ---------------------------
(* Small numbers for RsaDebugger: typed integers around zero, the sentinel *)
(* -1 among them, and enough primes for keys that share no factor.         *)
EXTENDS RsaDebugger

MCNumbers == -1..11
=============================================================================
