------------------------------- MODULE MCSshRekey -------------------------------
(***************************************************************************)
(* A small instance of SshRekey.                                           *)
(***************************************************************************)
EXTENDS SshRekey, TLC

OneEach == (Client :> 1) @@ (Server :> 1)
TwoAndOne == (Client :> 2) @@ (Server :> 1)
================================================================================
