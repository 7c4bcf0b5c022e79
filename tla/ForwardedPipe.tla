------------------------------ MODULE ForwardedPipe ------------------------------
(***************************************************************************)
(* What forwarding a port promises to the two programs it connects: a pair *)
(* of byte streams, one each way, as a TCP connection between them would   *)
(* be. Bytes arrive in order and none is skipped. The end of a stream is   *)
(* seen after all of its bytes, unless the far socket broke, or both       *)
(* programs have ended their streams: what is still unread then may be     *)
(* thrown away.                                                            *)
(* Bytes are named by their position in the stream, so that a stream is    *)
(* described by how far it got.                                            *)
(***************************************************************************)
EXTENDS Naturals

CONSTANTS Ends,       \* the two ends of the connection
          Other(_)    \* the end across from an end

VARIABLES wrote,      \* bytes the program at each end has handed in
          got,        \* bytes the program at each end has read
          ended,      \* the program at this end has ended its stream
          sawEnd,     \* the program at this end was shown the end
          broken      \* the socket at this end failed

vars == <<wrote, got, ended, sawEnd, broken>>

Zero  == [e \in Ends |-> 0]
No    == [e \in Ends |-> FALSE]

Init == /\ wrote = Zero
        /\ got = Zero
        /\ ended = No
        /\ sawEnd = No
        /\ broken = No

Write(e) ==
  /\ ~ended[e] /\ ~broken[e]
  /\ wrote'[e] > wrote[e]
  /\ wrote' = [wrote EXCEPT ![e] = wrote'[e]]
  /\ UNCHANGED <<got, ended, sawEnd, broken>>

Finish(e) ==
  /\ ~ended[e]
  /\ ended' = [ended EXCEPT ![e] = TRUE]
  /\ UNCHANGED <<wrote, got, sawEnd, broken>>

Deliver(e) ==
  /\ ~sawEnd[e]
  /\ \E n \in 1..(wrote[Other(e)] - got[e]) : got' = [got EXCEPT ![e] = @ + n]
  /\ UNCHANGED <<wrote, ended, sawEnd, broken>>

\* The end, with the bytes just before it. A program whose own stream is open is shown
\* it after the last byte.
ShowEnd(e) ==
  /\ ~sawEnd[e]
  /\ \E n \in got[e]..wrote[Other(e)] :
       /\ got' = [got EXCEPT ![e] = n]
       /\ broken[Other(e)] \/ (ended[Other(e)] /\ (ended[e] \/ n = wrote[Other(e)]))
  /\ sawEnd' = [sawEnd EXCEPT ![e] = TRUE]
  /\ UNCHANGED <<wrote, ended, broken>>

Break(e) ==
  /\ ~broken[e]
  /\ broken' = [broken EXCEPT ![e] = TRUE]
  /\ UNCHANGED <<wrote, got, ended, sawEnd>>

\* A new connection takes the place of one that is over.
Renew ==
  /\ (\E e \in Ends : broken[e]) \/ (\A e \in Ends : ended[e] /\ sawEnd[e])
  /\ wrote' = Zero /\ got' = Zero
  /\ ended' = No /\ sawEnd' = No /\ broken' = No

Next == \/ \E e \in Ends : Write(e) \/ Finish(e) \/ Deliver(e) \/ ShowEnd(e) \/ Break(e)
        \/ Renew

Spec == Init /\ [][Next]_vars
================================================================================
