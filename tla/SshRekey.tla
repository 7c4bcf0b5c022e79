-------------------------------- MODULE SshRekey --------------------------------
(***************************************************************************)
(* SSH-2 key exchange and re-exchange, at both ends: the coroutine of      *)
(* ssh2transport.c between the binary packet protocol below it             *)
(* (ssh2bpp.c) and the layers above it, whose packets it holds back while  *)
(* keys are exchanged.                                                     *)
(*                                                                         *)
(* t[e] is the struct ssh2_transport_state of end e with the keys and the  *)
(* flags of its BPP. Callbacks matter: the coroutine runs when one that    *)
(* calls it has been queued, and whoever wants something of it must have   *)
(* queued one. calls holds "in" if ic_process_queue is queued, as packets  *)
(* that arrive do, and "out" if ic_pq_out_higher is. A run of the          *)
(* coroutine is taken packet by packet: the rest might as well have        *)
(* arrived a moment later.                                                 *)
(*                                                                         *)
(* A key is the pair of KEXINITs it was made from, which is what the       *)
(* exchange hash covers. The key exchange itself is one packet each way.   *)
(***************************************************************************)
EXTENDS Integers, Sequences

CONSTANTS MaxSends,     \* bound: packets the higher layer of each end sends
          MaxRequests,  \* bound: times a timer or the user of each end asks for new keys
          MaxChanges    \* bound: times the client's user changes the settings

Client == "client"
Server == "server"
Ends == {Client, Server}
Other(e) == IF e = Client THEN Server ELSE Client

ASSUME RekeyAssumption ==
  MaxSends \in [Ends -> Nat] /\ MaxRequests \in [Ends -> Nat] /\ MaxChanges \in Nat

VARIABLES t,         \* the transport layer at each end, with its BPP and what it has on the wire
          requests,  \* requests for new keys made at each end
          changes,   \* changes of settings
          stages,    \* history: the stages in which they were made
          authed     \* whether the client's user authentication is over

vars == <<t, requests, changes, stages, authed>>

NoKey == <<0, 0>>

\* Where the coroutine waits. "start": it has not run yet.
Places == {"start", "kexinit", "askCrypto", "kex", "askKey", "newkeys", "service", "run"}

Start == [pc |-> "start", calls |-> {"in"}, kex_in_progress |-> FALSE, rekey_class |-> "NONE",
          deferred |-> FALSE, higher_ok |-> FALSE, kexno |-> 0, theirs |-> 0,
          outkey |-> NoKey, inkey |-> NoKey, pending_newkeys |-> FALSE,
          held |-> <<>>, in_pq |-> <<>>, out_pq |-> <<>>, wire |-> <<>>,
          conf |-> 0, used |-> 0, sent |-> 0, got |-> 0]

Init ==
  /\ t = [e \in Ends |-> Start]
  /\ requests = [e \in Ends |-> 0]
  /\ changes = 0 /\ stages = {} /\ authed = FALSE

-----------------------------------------------------------------------------
(* Steps of the coroutine. n tells KEXINITs, and packets of the higher       *)
(* layer, apart.                                                            *)

Push(c, type, n) == [c EXCEPT !.out_pq = Append(@, [type |-> type, n |-> n])]

\* What the exchange hash is made of: the client's KEXINIT, the server's.
Hash(e, c) == IF e = Client THEN <<c.kexno, c.theirs>> ELSE <<c.theirs, c.kexno>>

\* ssh2_bpp_handle_output(): everything on out_pq, under the key there is.
Marshalled(c) ==
  [c EXCEPT !.wire = @ \o [i \in DOMAIN c.out_pq |->
                             [type |-> c.out_pq[i].type, n |-> c.out_pq[i].n, key |-> c.outkey]],
            !.out_pq = <<>>]

\* begin_key_exchange
Begun(c) ==
  Push([c EXCEPT !.pc = "kexinit", !.kex_in_progress = TRUE, !.kexno = @ + 1, !.used = c.conf],
       "KEXINIT", c.kexno + 1)

\* As if the client's first packet of the exchange went where the higher layer's packets go.
Agreed_Held(e, c) ==
  IF e = Client
  THEN [c EXCEPT !.pc = "kex", !.held = Append(@, [type |-> "KEX_INIT", n |-> 0])]
  ELSE [c EXCEPT !.pc = "kex"]

\* The KEXINITs have been compared, and the user has agreed.
Agreed(e, c) ==
  IF e = Client THEN Push([c EXCEPT !.pc = "kex"], "KEX_INIT", 0) ELSE [c EXCEPT !.pc = "kex"]

\* As if the BPP were not made to send what is on out_pq before the key changes.
NewKeysSent_NotFlushed(e, c) ==
  [Push(c, "NEWKEYS", 0) EXCEPT !.pc = "newkeys", !.outkey = Hash(e, c),
                                !.out_pq = @ \o c.held, !.held = <<>>]

\* As if the packets held back were copied to out_pq and stayed where they are.
NewKeysSent_HeldTwice(e, c) ==
  [Marshalled(Push(c, "NEWKEYS", 0)) EXCEPT !.pc = "newkeys", !.outkey = Hash(e, c),
                                            !.out_pq = c.held]

\* The last packet under the old key is NEWKEYS; the higher layer's packets go under the new one.
NewKeysSent(e, c) ==
  [Marshalled(Push(c, "NEWKEYS", 0)) EXCEPT !.pc = "newkeys", !.outkey = Hash(e, c),
                                            !.out_pq = c.held, !.held = <<>>]

\* The higher layer may talk; whatever was asked in the meantime is forgotten.
Running(c) == [c EXCEPT !.pc = "run", !.higher_ok = TRUE, !.rekey_class = "NONE"]

NewKeysReceived(e, c) ==
  LET d == [c EXCEPT !.inkey = Hash(e, c), !.pending_newkeys = FALSE]
  IN IF d.deferred THEN Begun([d EXCEPT !.deferred = FALSE])
     ELSE IF d.higher_ok THEN Running([d EXCEPT !.kex_in_progress = FALSE])
     ELSE IF e = Client
       THEN Push([d EXCEPT !.pc = "service", !.kex_in_progress = FALSE], "SERVICE_REQUEST", 0)
     ELSE [d EXCEPT !.pc = "service", !.kex_in_progress = FALSE]

\* The packet the coroutine waits for in each place.
Awaited(e, pc) ==
  CASE pc \in {"kexinit", "run"} -> "KEXINIT"
    [] pc = "kex"     -> IF e = Client THEN "KEX_REPLY" ELSE "KEX_INIT"
    [] pc = "newkeys" -> "NEWKEYS"
    [] pc = "service" -> IF e = Client THEN "SERVICE_ACCEPT" ELSE "SERVICE_REQUEST"

\* What becomes of the coroutine, which has just popped the packet p it awaited. The user
\* may be asked about a weak algorithm, and the client's about the host key.
Continued(e, c, p) ==
  CASE c.pc = "kexinit" ->
         LET d == [c EXCEPT !.theirs = p.n]
         IN {Agreed(e, d)} \cup (IF e = Client THEN {[d EXCEPT !.pc = "askCrypto"]} ELSE {})
    [] c.pc = "kex" ->
         IF e = Server THEN {NewKeysSent(e, Push(c, "KEX_REPLY", 0))}
         ELSE {NewKeysSent(e, c)} \cup (IF c.kexno = 1 THEN {[c EXCEPT !.pc = "askKey"]} ELSE {})
    [] c.pc = "newkeys" -> {NewKeysReceived(e, c)}
    [] c.pc = "service" ->
         {Running(IF e = Client THEN c ELSE Push(c, "SERVICE_ACCEPT", 0))}

-----------------------------------------------------------------------------
(* Actions                                                                  *)

Become(e, c) == t' = [t EXCEPT ![e] = c]

\* The BPP sends what is on out_pq.
Marshal(e) ==
  /\ t[e].out_pq # <<>>
  /\ Become(e, Marshalled(t[e]))
  /\ UNCHANGED <<requests, changes, stages, authed>>

\* The BPP reads a packet, unless it waits for the key of the next one.
Decrypt(e) ==
  /\ ~t[e].pending_newkeys
  /\ t[Other(e)].wire # <<>>
  /\ LET p == Head(t[Other(e)].wire)
     IN /\ p.key = t[e].inkey
        /\ t' = [t EXCEPT ![Other(e)].wire = Tail(@),
                          ![e].in_pq = Append(@, [type |-> p.type, n |-> p.n]),
                          ![e].pending_newkeys = p.type = "NEWKEYS",
                          ![e].calls = @ \cup {"in"}]
  /\ UNCHANGED <<requests, changes, stages, authed>>

\* ssh2_transport_filter_queue(): on every entry, packets for the higher layer are passed on.
PassUp(e) ==
  /\ t[e].calls # {}
  /\ t[e].in_pq # <<>> /\ Head(t[e].in_pq).type = "HIGHER"
  /\ t[e].higher_ok
  /\ Become(e, [t[e] EXCEPT !.in_pq = Tail(@), !.got = Head(t[e].in_pq).n])
  /\ UNCHANGED <<requests, changes, stages, authed>>

\* One of the callbacks that are queued runs, and the coroutine becomes c. It goes on with
\* the packets that are left, unless it waits for the user, or returns before it looks
\* at them, as it does on the way into its loop (crReturnV).
Runs(e, c) ==
  \E call \in t[e].calls :
    Become(e, [c EXCEPT !.calls = (t[e].calls \ {call})
                 \cup (IF c.in_pq = <<>> \/ c.pc \in {"askCrypto", "askKey", "run"} THEN {} ELSE {"in"})])

\* The first entry.
Enter(e) ==
  /\ t[e].pc = "start"
  /\ Runs(e, Begun(t[e]))
  /\ UNCHANGED <<requests, changes, stages, authed>>

\* The coroutine pops the packet it waits for.
Resume(e) ==
  /\ t[e].pc \in {"kexinit", "kex", "newkeys", "service"}
  /\ t[e].in_pq # <<>> /\ Head(t[e].in_pq).type = Awaited(e, t[e].pc)
  /\ \E c \in Continued(e, [t[e] EXCEPT !.in_pq = Tail(@)], Head(t[e].in_pq)) : Runs(e, c)
  /\ UNCHANGED <<requests, changes, stages, authed>>

\* It is called for nothing it waits for.
Doze(e) ==
  /\ \/ t[e].in_pq = <<>> /\ t[e].pc \notin {"start", "run"}
     \/ t[e].in_pq # <<>> /\ Head(t[e].in_pq).type # "HIGHER" /\ t[e].pc \in {"askCrypto", "askKey"}
  /\ Runs(e, t[e])
  /\ UNCHANGED <<requests, changes, stages, authed>>

\* The loop in which it waits for a reason to exchange keys. It takes along what the higher
\* layer has to send. That the user is authenticated is no reason (without GSSAPI).
Loop(e) ==
  /\ t[e].pc = "run"
  /\ t[e].in_pq # <<>> => Head(t[e].in_pq).type = "KEXINIT"
  /\ LET c == [t[e] EXCEPT !.out_pq = @ \o t[e].held, !.held = <<>>,
                           !.rekey_class = IF @ = "POST_USERAUTH" THEN "NONE" ELSE @]
     IN Runs(e, IF c.in_pq # <<>> \/ c.rekey_class = "NORMAL" THEN Begun(c) ELSE c)
  /\ UNCHANGED <<requests, changes, stages, authed>>

\* ssh2_transport_dialog_callback(): the user agrees.
Answer(e) ==
  /\ t[e].pc \in {"askCrypto", "askKey"}
  /\ LET c == [t[e] EXCEPT !.calls = @ \cup (IF t[e].in_pq = <<>> THEN {} ELSE {"in"})]
     IN Become(e, IF c.pc = "askCrypto" THEN Agreed(e, c) ELSE NewKeysSent(e, c))
  /\ UNCHANGED <<requests, changes, stages, authed>>

\* As if the higher layer sent before it was told that it may.
HigherSend_Early(e) ==
  /\ t[e].sent < MaxSends[e]
  /\ Become(e, [t[e] EXCEPT !.held = Append(@, [type |-> "HIGHER", n |-> t[e].sent + 1]),
                            !.sent = @ + 1, !.calls = @ \cup {"out"}])
  /\ UNCHANGED <<requests, changes, stages, authed>>

\* As if its packets went straight to the BPP.
HigherSend_Straight(e) ==
  /\ t[e].higher_ok
  /\ t[e].sent < MaxSends[e]
  /\ Become(e, [Push(t[e], "HIGHER", t[e].sent + 1) EXCEPT !.sent = @ + 1])
  /\ UNCHANGED <<requests, changes, stages, authed>>

\* The higher layer sends a packet.
HigherSend(e) ==
  /\ t[e].higher_ok
  /\ t[e].sent < MaxSends[e]
  /\ Become(e, [t[e] EXCEPT !.held = Append(@, [type |-> "HIGHER", n |-> t[e].sent + 1]),
                            !.sent = @ + 1, !.calls = @ \cup {"out"}])
  /\ UNCHANGED <<requests, changes, stages, authed>>

Wanted(c) == [c EXCEPT !.rekey_class = "NORMAL", !.calls = @ \cup {"in"}]

\* ssh2_transport_timer(), and SS_REKEY in ssh2_transport_special_cmd()
Request(e) ==
  /\ requests[e] < MaxRequests[e]
  /\ t[e].pc # "start" /\ ~t[e].kex_in_progress
  /\ Become(e, Wanted(t[e]))
  /\ requests' = [requests EXCEPT ![e] = @ + 1]
  /\ UNCHANGED <<changes, stages, authed>>

\* ssh2_transport_notify_auth_done(): the client's user authentication has its answer, and
\* whatever reason for new keys there was is written over.
AuthDone ==
  /\ t[Client].sent > 0 /\ t[Client].got > 0 /\ ~authed
  /\ Become(Client, [t[Client] EXCEPT !.rekey_class = "POST_USERAUTH", !.calls = @ \cup {"in"}])
  /\ authed' = TRUE
  /\ UNCHANGED <<requests, changes, stages>>

\* ssh2_bpp_rekey_inadvisable(): an answer is awaited that may turn on compression, which
\* is so at most between the first packet of the user authentication and its end.
Inadvisable == {FALSE} \cup (IF t[Client].sent > 0 /\ ~authed THEN {TRUE} ELSE {})

\* "first": in the first exchange. "login": between exchanges, before the user is
\* authenticated. "other": at any other time.
Stage(c) == IF c.kex_in_progress /\ ~c.higher_ok THEN "first"
            ELSE IF c.pc # "start" /\ ~c.kex_in_progress /\ ~authed THEN "login"
            ELSE "other"

\* The settings change, in a way that needs new keys, and the client's end becomes c.
Changed(c) ==
  /\ changes < MaxChanges
  /\ changes' = changes + 1
  /\ stages' = stages \cup {Stage(t[Client])}
  /\ Become(Client, [c EXCEPT !.conf = changes'])
  /\ UNCHANGED <<requests, authed>>

\* As if the change were noted like any other request while keys are being exchanged.
Reconfigure_NotDeferred == Changed(Wanted(t[Client]))

\* ssh2_transport_reconfigure()
Reconfigure ==
  \E inadvisable \in Inadvisable :
    Changed(IF t[Client].kex_in_progress \/ inadvisable THEN [t[Client] EXCEPT !.deferred = TRUE]
            ELSE Wanted(t[Client]))

\* What goes on by itself: callbacks run, packets arrive, the user answers.
Proceed(e) == \/ Marshal(e) \/ Decrypt(e) \/ Enter(e) \/ PassUp(e) \/ Resume(e)
              \/ Doze(e) \/ Loop(e) \/ Answer(e)

Next == \/ \E e \in Ends : Proceed(e) \/ HigherSend(e) \/ Request(e)
        \/ AuthDone \/ Reconfigure

\* The client's user authentication makes its first request unasked (ssh2userauth.c).
Authenticate == t[Client].sent = 0 /\ HigherSend(Client)

Fairness == WF_vars(\E e \in Ends : Proceed(e)) /\ WF_vars(Authenticate)

Spec == Init /\ [][Next]_vars /\ Fairness

-----------------------------------------------------------------------------
(* Properties                                                               *)

TransportTypes == {"KEXINIT", "KEX_INIT", "KEX_REPLY", "NEWKEYS", "SERVICE_REQUEST", "SERVICE_ACCEPT"}
PacketTypes == TransportTypes \cup {"HIGHER"}
Keys == Nat \X Nat

\* Every field keeps its type (ssh2transport.h), and what is held back is the higher layer's.
TypeOK ==
  /\ t \in [Ends -> [pc : Places, calls : SUBSET {"in", "out"}, kex_in_progress : BOOLEAN,
                     rekey_class : {"NONE", "NORMAL", "POST_USERAUTH"},
                     deferred : BOOLEAN, higher_ok : BOOLEAN,
                     kexno : Nat, theirs : Nat, outkey : Keys, inkey : Keys,
                     pending_newkeys : BOOLEAN,
                     held : Seq([type : {"HIGHER"}, n : Nat]),
                     in_pq : Seq([type : PacketTypes, n : Nat]),
                     out_pq : Seq([type : PacketTypes, n : Nat]),
                     wire : Seq([type : PacketTypes, n : Nat, key : Keys]),
                     conf : Nat, used : Nat, sent : Nat, got : Nat]]
  /\ requests \in [Ends -> Nat]
  /\ changes \in 0..MaxChanges
  /\ stages \subseteq {"first", "login", "other"} /\ authed \in BOOLEAN

\* A packet that may be decrypted is decrypted with the key it was encrypted with: the
\* sender changes keys right after NEWKEYS left, the receiver before it reads on, and
\* the two made the same key ("Incorrect MAC received on packet" ends the connection).
KeysMatch ==
  \A e \in Ends :
    (~t[e].pending_newkeys /\ t[Other(e)].wire # <<>>) => Head(t[Other(e)].wire).key = t[e].inkey

\* The coroutine never finds another transport packet than the one it waits for, nor a
\* packet of the higher layer before that is running (ssh_proto_error()).
NoProtocolError ==
  \A e \in Ends : t[e].in_pq # <<>> =>
    LET type == Head(t[e].in_pq).type
    IN IF type = "HIGHER" THEN t[e].higher_ok
       ELSE t[e].pc \in {"start", "askCrypto", "askKey"} \/ type = Awaited(e, t[e].pc)

\* So much is true unless the settings are changed in the first exchange, which makes the
\* client begin another before it asks for the service the server waits to be asked for.
NoErrorUnlessEarly == "first" \notin stages => NoProtocolError

\* All that e has sent and Other(e) has not handled yet, oldest first.
Stream(e) == t[Other(e)].in_pq \o t[e].wire \o t[e].out_pq

\* Other(e) has taken e's KEXINIT and not yet e's NEWKEYS.
MidExchange(e) == t[Other(e)].pc \in {"askCrypto", "kex", "askKey", "newkeys"}

\* Between its KEXINIT and its NEWKEYS an end sends nothing of the higher layer, whoever
\* began, and also if both did at once (RFC 4253 section 7.1).
QuietDuringExchange ==
  \A e \in Ends : LET s == Stream(e) IN
    \A j \in DOMAIN s : s[j].type = "HIGHER" =>
      /\ \A i \in 1..(j - 1) : s[i].type = "KEXINIT" =>
           \E k \in (i + 1)..(j - 1) : s[k].type = "NEWKEYS"
      /\ MidExchange(e) => \E k \in 1..(j - 1) : s[k].type = "NEWKEYS"

\* The packets of type in s are numbered lo+1 to hi, each once and in that order.
InOrder(s, type, lo, hi) ==
  LET its == {i \in DOMAIN s : s[i].type = type}
  IN /\ lo <= hi
     /\ \A i \in its : s[i].n \in (lo + 1)..hi
     /\ \A n \in (lo + 1)..hi : \E i \in its : s[i].n = n
     /\ \A i, j \in its : i < j => s[i].n < s[j].n

\* The higher layer's packets arrive each once and in the order they were sent, however many
\* exchanges they met: what is under way and held back is what has not arrived.
HigherInOrder ==
  \A e \in Ends : InOrder(Stream(e) \o t[e].held, "HIGHER", t[Other(e)].got, t[e].sent)

\* Every exchange comes to its end, also one that both ends began at once; and a change of
\* settings that was made while keys were exchanged once more ("deferred_rekey_reason"),
\* or after the user authentication, is in force some time. A change in the first exchange
\* is an error, and one before the user authentication is over may be forgotten.
ExchangesSettle ==
  []<>(\/ "first" \in stages
       \/ /\ \A e \in Ends : ~t[e].kex_in_progress
          /\ "login" \in stages \/ t[Client].used = t[Client].conf)

\* "This allows you to adjust most properties of your current session": a change of
\* settings is in force some time. Not true of one made in the first exchange, of which
\* the server makes an error, nor of one made before the user authentication is over,
\* which is forgotten.
SettingsInForce == []<>(t[Client].used = t[Client].conf)

\* "Now our end of the key exchange is complete, we can send all our queued higher-layer
\* packets": what is held back is sent some time. Not true: a packet held between the two
\* NEWKEYS waits for the next exchange, and if there is none, for good.
HeldPacketsGoOut == []<>(\A e \in Ends : t[e].held = <<>>)
================================================================================
