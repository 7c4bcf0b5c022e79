------------------------------ MODULE MCSshChannel ------------------------------
(***************************************************************************)
(* A small instance of SshChannel. The window is one byte and grows once;  *)
(* the client's program has more to send than that.                        *)
(***************************************************************************)
EXTENDS SshChannel, TLC

Bytes(c, s) == (Client :> c) @@ (Server :> s)

TwoConnections == <<Bytes(2, 1), Bytes(1, 0)>>
OneConnection  == <<Bytes(1, 1)>>
================================================================================
