------------------------------- MODULE SshChannel -------------------------------
(***************************************************************************)
(* An SSH-2 channel that carries a forwarded port, at both of its ends:    *)
(* ssh2connection.c over portfwd.c, as the client and the server of this   *)
(* repository run it. A program connects to the client's listening socket; *)
(* the client opens a channel; the server connects to the destination; the *)
(* two copy bytes both ways under the channel's window until both          *)
(* directions have ended or a socket fails.                                *)
(*                                                                         *)
(* ch[e] is the struct ssh2_channel of end e, with the PortForwarding and  *)
(* the socket below it and the queue of packets on their way to the far    *)
(* end (out_pq and what carries it: a connection loses and reorders        *)
(* nothing). A byte is named by its position in its stream.                *)
(*                                                                         *)
(* One channel at a time, opened up to MaxOpens times: its number is free  *)
(* again, and used again, as soon as the channel is gone, while packets of *)
(* the old one may be on their way.                                        *)
(***************************************************************************)
EXTENDS Integers, Sequences

CONSTANTS WinSize,       \* OUR_V2_WINSIZE
          GrowBelow,     \* locmaxwin grows while it is below this (0x40000000)
          MaxPkt,        \* OUR_V2_MAXPKT
          Chunk,         \* bound: the most bytes a socket yields in one read
          MaxData,       \* bound: bytes the program at each end sends in each connection
          MaxOpens,      \* bound: channels opened, one after the other
          MaxBreaks,     \* bound: sockets that fail
          MaxBackups,    \* bound: times the client's SSH socket backs up
          BackupAnytime  \* also while a channel waits for its confirmation

Client == "client"
Server == "server"
Ends == {Client, Server}
Other(e) == IF e = Client THEN Server ELSE Client

ASSUME SshAssumption ==
  /\ WinSize \in Nat \ {0} /\ MaxPkt \in Nat \ {0} /\ Chunk \in Nat \ {0}
  /\ GrowBelow \in Nat /\ MaxOpens \in Nat /\ MaxBreaks \in Nat /\ MaxBackups \in Nat
  /\ MaxData \in [1..MaxOpens -> [Ends -> Nat]]
  /\ BackupAnytime \in BOOLEAN

VARIABLES ch,        \* the channel at each end, with its socket and its outgoing packets
          prog,      \* what the program at each end did and saw in its connection
          before,    \* prog of the client's last connection, until the server hears of the new one
          opens,     \* channels the client has opened
          answered,  \* CHANNEL_OPENs the server has answered
          breaks,    \* sockets that have failed
          backups    \* how often an SSH socket has backed up

vars == <<ch, prog, before, opens, answered, breaks, backups>>

\* CLOSES_RCVD_CLOSE is left out: GotClose, which would set it, ends the channel.
Closes == {"SENT_EOF", "SENT_CLOSE", "RCVD_EOF"}

Minimum(a, b) == IF a < b THEN a ELSE b

-----------------------------------------------------------------------------
(* Packets: n is a number of bytes, or of window.                           *)

Packet(type, n) == [type |-> type, n |-> n]

Push(c, type, n) == [c EXCEPT !.tx = Append(@, Packet(type, n))]

-----------------------------------------------------------------------------
(* The channel. zombie: its PortForwarding has been replaced by a           *)
(* zombiechan. out: bytes in outbuffer. backlog: bytes in the socket's      *)
(* output_data. sent: history, the DATA bytes sent on this channel.         *)

\* ssh2_channel_init(), and the socket as sk_net_accept() makes it.
Fresh(c) ==
  [st |-> "halfopen", zombie |-> FALSE, ready |-> FALSE, frozen |-> TRUE,
   closes |-> {}, pending_eof |-> FALSE, out |-> 0, backlog |-> 0,
   sent |-> 0, remwindow |-> 0,
   locwindow |-> WinSize, locmaxwin |-> WinSize, remlocwin |-> WinSize,
   throttle_state |-> "UNTHROTTLED", throttling_conn |-> FALSE, chanreqs |-> <<>>,
   throttled |-> c.throttled, tx |-> c.tx]

\* ssh2_channel_destroy(), and what is left: the connection.
Destroyed(c) == [Fresh(c) EXCEPT !.st = "none"]

\* What a program has seen of a connection that has just begun.
Newcomer == [wrote |-> 0, got |-> 0, ended |-> FALSE, sawEnd |-> FALSE, broken |-> FALSE]

WantClose(c) == c.zombie \/ {"SENT_EOF", "RCVD_EOF"} \subseteq c.closes

ssh2_channel_check_close(c) ==
  IF c.st = "open" /\ "SENT_CLOSE" \notin c.closes /\ c.chanreqs = <<>> /\ WantClose(c)
  THEN Push([c EXCEPT !.closes = @ \cup {"SENT_EOF", "SENT_CLOSE"}], "CLOSE", 0)
  ELSE c

\* As if EOF did not wait for the bytes that are still in the buffer.
ssh2_channel_try_eof_Overtakes(c) ==
  IF c.st = "halfopen" THEN c
  ELSE ssh2_channel_check_close(
         Push([c EXCEPT !.pending_eof = FALSE, !.closes = @ \cup {"SENT_EOF"}], "EOF", 0))

\* Called when an EOF is pending.
ssh2_channel_try_eof(c) ==
  IF c.st = "halfopen" \/ c.out > 0 THEN c
  ELSE ssh2_channel_check_close(
         Push([c EXCEPT !.pending_eof = FALSE, !.closes = @ \cup {"SENT_EOF"}], "EOF", 0))

ssh2channel_write_eof(c) ==
  IF "SENT_EOF" \in c.closes THEN c ELSE ssh2_channel_try_eof([c EXCEPT !.pending_eof = TRUE])

\* As if the window were not looked at.
SendBuffered_NoWindow(c) ==
  LET count == (c.out + MaxPkt - 1) \div MaxPkt
      Data(i) == Packet("DATA", Minimum(MaxPkt, c.out - (i - 1) * MaxPkt))
  IN [c EXCEPT !.tx = @ \o [i \in 1..count |-> Data(i)], !.out = 0,
               !.sent = @ + c.out, !.remwindow = @ - c.out]

\* The loop of ssh2_try_send(): as much of outbuffer as the window takes, in
\* packets of at most MaxPkt.
SendBuffered(c) ==
  LET total == Minimum(c.out, c.remwindow)
      count == (total + MaxPkt - 1) \div MaxPkt
      Data(i) == Packet("DATA", Minimum(MaxPkt, total - (i - 1) * MaxPkt))
  IN [c EXCEPT !.tx = @ \o [i \in 1..count |-> Data(i)], !.out = @ - total,
               !.sent = @ + total, !.remwindow = @ - total]

\* As if an EOF that had to wait were not thought of again.
ssh2_try_send_ForgetsEof(c) == IF c.st = "halfopen" THEN c ELSE SendBuffered(c)

ssh2_try_send(c) ==
  IF c.st = "halfopen" THEN c
  ELSE IF c.pending_eof /\ c.out <= c.remwindow THEN ssh2_channel_try_eof(SendBuffered(c))
  ELSE SendBuffered(c)

\* chan_set_input_wanted(), which a zombie ignores. throttled_by_backlog is left
\* out: nothing ever sets it.
ssh2_channel_check_throttle(c) ==
  IF c.zombie \/ c.st = "none" THEN c
  ELSE [c EXCEPT !.frozen = c.throttled \/ c.pending_eof \/ "SENT_EOF" \in c.closes]

ssh2_try_send_and_unthrottle(c) ==
  IF "SENT_EOF" \in c.closes THEN c
  ELSE IF c.out <= c.remwindow THEN ssh2_channel_check_throttle(ssh2_try_send(c))
  ELSE ssh2_try_send(c)

\* Gives the far end more window, once that makes enough of a difference. If it is
\* opened wide, a winadj request asks the far end to say when it has seen it; if not,
\* it is taken for seen.
ssh2_set_window(c, newwin) ==
  LET more == newwin - c.locwindow
      wide == newwin = c.locmaxwin
  IN IF {"RCVD_EOF", "SENT_CLOSE"} \cap c.closes # {} \/ newwin \div 2 < c.locwindow
     THEN c
     ELSE [c EXCEPT
             !.locwindow = newwin,
             !.tx = @ \o (IF wide THEN <<Packet("REQUEST", 0)>> ELSE <<>>)
                      \o <<Packet("WINDOW_ADJUST", more)>>,
             !.chanreqs = IF wide THEN Append(@, more) ELSE @,
             !.remlocwin = IF wide THEN @ ELSE newwin,
             !.throttle_state = IF ~wide THEN "THROTTLED"
                                ELSE IF @ = "UNTHROTTLED" THEN @ ELSE "UNTHROTTLING"]

-----------------------------------------------------------------------------
(* The packet handlers of ssh2_connection_filter_queue().                   *)

\* The server connects to the destination at once.
GotOpen(c, p) ==
  Push([Fresh(c) EXCEPT !.st = "open", !.ready = TRUE, !.frozen = FALSE, !.remwindow = p.n],
       "OPEN_CONFIRMATION", WinSize)

\* As if the socket were left as sk_net_accept() made it.
GotOpenConfirmation_StaysFrozen(c, p) ==
  LET d == ssh2_channel_check_close(
             [c EXCEPT !.st = "open", !.remwindow = p.n, !.ready = ~c.zombie])
  IN IF c.pending_eof THEN ssh2_channel_try_eof(d) ELSE d

GotOpenConfirmation(c, p) ==
  LET d == ssh2_channel_check_close(
             [c EXCEPT !.st = "open", !.remwindow = p.n, !.ready = ~c.zombie, !.frozen = c.zombie])
  IN IF c.pending_eof THEN ssh2_channel_try_eof(d) ELSE d

\* If the far end used up the window although nothing here held it up, a larger
\* one may be faster.
Grown(c, n) ==
  IF c.remlocwin <= n /\ c.throttle_state = "UNTHROTTLED" /\ c.locmaxwin < GrowBelow
  THEN c.locmaxwin + WinSize ELSE c.locmaxwin

\* As if what waits in the socket did not count against the window.
GotData_NoBacklog(c, n, left) ==
  LET maxwin == Grown(c, n)
      d == [c EXCEPT !.locwindow = @ - n, !.remlocwin = @ - n,
                     !.backlog = left, !.locmaxwin = maxwin,
                     !.throttling_conn = @ \/ left > maxwin]
  IN ssh2_set_window(d, maxwin)

\* n bytes; left: what the socket could not pass on at once (chan_send()'s result).
GotData(c, n, left) ==
  LET maxwin == Grown(c, n)
      d == [c EXCEPT !.locwindow = @ - n, !.remlocwin = @ - n,
                     !.backlog = left, !.locmaxwin = maxwin,
                     !.throttling_conn = @ \/ left > maxwin]
  IN IF left < maxwin THEN ssh2_set_window(d, maxwin - left) ELSE d

\* pfd_sent(), ssh2channel_unthrottle(): the socket has left bytes to go.
Unthrottled(c, left) ==
  LET d == [c EXCEPT !.backlog = left, !.throttling_conn = @ /\ left > c.locmaxwin]
  IN IF left < c.locmaxwin THEN ssh2_set_window(d, c.locmaxwin - left) ELSE d

GotWindowAdjust(c, p) ==
  IF "SENT_EOF" \in c.closes THEN c
  ELSE ssh2_try_send_and_unthrottle([c EXCEPT !.remwindow = @ + p.n])

\* As if requests were answered even after CLOSE.
GotRequest_AfterClose(c) == Push(c, "FAILURE", 0)

\* No channel knows "winadj@putty.projects.tartarus.org".
GotRequest(c) == IF "SENT_CLOSE" \in c.closes THEN c ELSE Push(c, "FAILURE", 0)

\* ssh2_handle_winadj_response(), then the request is done with.
GotFailure(c) ==
  ssh2_channel_check_close(
    [c EXCEPT !.remlocwin = @ + Head(c.chanreqs),
              !.chanreqs = Tail(@),
              !.throttle_state = IF @ = "UNTHROTTLING" THEN "UNTHROTTLED" ELSE @])

GotEof(c) ==
  IF "RCVD_EOF" \in c.closes THEN c
  ELSE ssh2_channel_check_close([c EXCEPT !.closes = @ \cup {"RCVD_EOF"}])

\* The far end stops listening: what was to be sent, or was asked for, is given
\* up. EOF and CLOSE are sent if they have not been, and so the channel is gone.
GotClose(c) ==
  Destroyed([c EXCEPT !.tx =
    @ \o (IF "SENT_EOF" \in c.closes THEN <<>> ELSE <<Packet("EOF", 0)>>)
      \o (IF "SENT_CLOSE" \in c.closes THEN <<>> ELSE <<Packet("CLOSE", 0)>>)])

-----------------------------------------------------------------------------
(* The sockets                                                              *)

Init ==
  /\ ch = [e \in Ends |-> Destroyed([throttled |-> FALSE, tx |-> <<>>])]
  /\ prog = [e \in Ends |-> Newcomer]
  /\ before = Newcomer
  /\ opens = 0
  /\ answered = 0
  /\ breaks = 0
  /\ backups = 0

Counters == <<opens, answered, breaks, backups>>

\* A bound: a socket passes on all it is given at once, or nothing, and drains all
\* it holds or nothing.
LeftOf(c, n) == IF c.zombie THEN {0} ELSE {0, c.backlog + n}

\* pfl_accepting(), ssh2_lportfwd_open()
Accept ==
  /\ ch[Client].st = "none"
  /\ opens < MaxOpens
  /\ opens' = opens + 1
  /\ ch' = [ch EXCEPT ![Client] = Push(Fresh(@), "CHANNEL_OPEN", WinSize)]
  /\ prog' = [prog EXCEPT ![Client] = Newcomer]
  /\ before' = prog[Client]
  /\ UNCHANGED <<answered, breaks, backups>>

Readable(e) ==
  /\ ch[e].st # "none" /\ ~ch[e].zombie
  /\ ~ch[e].frozen
  /\ ~prog[e].ended

\* Which of the connections this is, for the bound.
Number(e) == IF e = Client THEN opens ELSE answered

\* pfd_receive(), ssh2channel_write(). What is read too early is thrown away.
pfd_receive(c, n) == IF c.ready THEN ssh2_try_send([c EXCEPT !.out = @ + n]) ELSE c

SocketData(e) ==
  /\ Readable(e)
  /\ \E n \in 1..Minimum(Chunk, MaxData[Number(e)][e] - prog[e].wrote) :
       /\ prog' = [prog EXCEPT ![e].wrote = @ + n]
       /\ ch' = [ch EXCEPT ![e] = pfd_receive(@, n)]
  /\ UNCHANGED <<before, Counters>>

\* pfd_closing() without an error
SocketEof(e) ==
  /\ Readable(e)
  /\ prog' = [prog EXCEPT ![e].ended = TRUE]
  /\ ch' = [ch EXCEPT ![e] = ssh2channel_write_eof(@)]
  /\ UNCHANGED <<before, Counters>>

\* pfd_closing() with an error, ssh2channel_initiate_close(): the socket and its
\* backlog are gone, and a zombie has the channel.
SocketError(e) ==
  /\ ch[e].st # "none" /\ ~ch[e].zombie
  /\ breaks < MaxBreaks
  /\ breaks' = breaks + 1
  /\ prog' = [prog EXCEPT ![e].broken = TRUE]
  /\ ch' = [ch EXCEPT ![e] =
              ssh2_channel_check_close([@ EXCEPT !.zombie = TRUE, !.ready = FALSE, !.frozen = TRUE,
                                                 !.backlog = 0, !.pending_eof = FALSE])]
  /\ UNCHANGED <<before, opens, answered, backups>>

\* select_result() and try_send(): the program reads on, to the end that was waiting
\* behind the backlog.
SocketSent(e) ==
  /\ ch[e].backlog > 0
  /\ prog' = [prog EXCEPT ![e].got = @ + ch[e].backlog,
                          ![e].sawEnd = @ \/ "RCVD_EOF" \in ch[e].closes]
  /\ ch' = [ch EXCEPT ![e] = Unthrottled(@, 0)]
  /\ UNCHANGED <<before, Counters>>

\* ssh_throttle_all(): the output of the client's SSH socket backs up, and clears
\* again. The server has the same lines, compiled out (#ifdef FIXME).
ThrottleAll ==
  /\ ~ch[Client].throttled
  /\ backups < MaxBackups
  /\ BackupAnytime \/ ch[Client].st # "halfopen"
  /\ backups' = backups + 1
  /\ UNCHANGED <<prog, before, opens, answered, breaks>>
  /\ ch' = [ch EXCEPT ![Client] = ssh2_channel_check_throttle([@ EXCEPT !.throttled = TRUE])]

UnthrottleAll ==
  /\ ch[Client].throttled
  /\ BackupAnytime \/ ch[Client].st # "halfopen"
  /\ UNCHANGED <<prog, before, Counters>>
  /\ ch' = [ch EXCEPT ![Client] = ssh2_channel_check_throttle([@ EXCEPT !.throttled = FALSE])]

-----------------------------------------------------------------------------
(* Packets arrive                                                           *)

Waiting(e) == ch[Other(e)].tx
HeadIs(e, type) == Waiting(e) # <<>> /\ Head(Waiting(e)).type = type

\* End e takes the packet off the queue and becomes c.
Handled(e, c) == ch' = [ch EXCEPT ![e] = c, ![Other(e)].tx = Tail(@)]

ReceiveOpen ==
  /\ HeadIs(Server, "CHANNEL_OPEN")
  /\ ch[Server].st = "none"
  /\ prog' = [prog EXCEPT ![Server] = Newcomer]
  /\ before' = Newcomer
  /\ answered' = answered + 1
  /\ UNCHANGED <<opens, breaks, backups>>
  /\ \/ Handled(Server, GotOpen(ch[Server], Head(Waiting(Server))))
     \/ Handled(Server, Push(ch[Server], "OPEN_FAILURE", 0))

ReceiveOpenConfirmation ==
  /\ HeadIs(Client, "OPEN_CONFIRMATION")
  /\ ch[Client].st = "halfopen"
  /\ UNCHANGED <<prog, before, Counters>>
  /\ Handled(Client, GotOpenConfirmation(ch[Client], Head(Waiting(Client))))

ReceiveOpenFailure ==
  /\ HeadIs(Client, "OPEN_FAILURE")
  /\ ch[Client].st = "halfopen"
  /\ UNCHANGED <<prog, before, Counters>>
  /\ Handled(Client, Destroyed(ch[Client]))

ReceiveData(e) ==
  /\ HeadIs(e, "DATA")
  /\ ch[e].st = "open"
  /\ UNCHANGED <<before, Counters>>
  /\ LET n == Head(Waiting(e)).n
     IN \E left \in LeftOf(ch[e], n) :
          /\ Handled(e, GotData(ch[e], n, left))
          /\ prog' = [prog EXCEPT ![e].got =
                        IF ch[e].zombie THEN @ ELSE @ + (ch[e].backlog + n - left)]

\* The packets that tell the program nothing.
ReceiveControl(e) ==
  /\ ch[e].st = "open"
  /\ UNCHANGED <<prog, before, Counters>>
  /\ \/ HeadIs(e, "WINDOW_ADJUST") /\ Handled(e, GotWindowAdjust(ch[e], Head(Waiting(e))))
     \/ HeadIs(e, "REQUEST") /\ Handled(e, GotRequest(ch[e]))
     \/ HeadIs(e, "FAILURE") /\ ch[e].chanreqs # <<>> /\ Handled(e, GotFailure(ch[e]))

\* The program is shown the end of its stream, if its socket is still there.
ShowsEnd(e, now) == prog' = [prog EXCEPT ![e].sawEnd = @ \/ (now /\ ~ch[e].zombie)]

\* The socket keeps an EOF back until its backlog is gone (EOF_PENDING). CLOSE closes it
\* as it is, and the backlog is never sent.
ReceiveEnd(e) ==
  /\ ch[e].st = "open"
  /\ UNCHANGED <<before, Counters>>
  /\ \/ HeadIs(e, "EOF") /\ ShowsEnd(e, ch[e].backlog = 0) /\ Handled(e, GotEof(ch[e]))
     \/ HeadIs(e, "CLOSE") /\ ShowsEnd(e, TRUE) /\ Handled(e, GotClose(ch[e]))

Receive(e) == \/ e = Server /\ ReceiveOpen
              \/ e = Client /\ (ReceiveOpenConfirmation \/ ReceiveOpenFailure)
              \/ ReceiveData(e) \/ ReceiveControl(e) \/ ReceiveEnd(e)

Next ==
  \/ Accept
  \/ ThrottleAll \/ UnthrottleAll
  \/ \E e \in Ends : \/ SocketData(e) \/ SocketEof(e) \/ SocketError(e) \/ SocketSent(e)
                     \/ Receive(e)

\* What goes on by itself: packets arrive, programs read, backed-up output drains.
Proceed == UnthrottleAll \/ \E e \in Ends : Receive(e) \/ SocketSent(e)

Fairness == WF_vars(Proceed)

Spec == Init /\ [][Next]_vars /\ Fairness

-----------------------------------------------------------------------------
(* Properties                                                               *)

PacketTypes == {"CHANNEL_OPEN", "OPEN_CONFIRMATION", "OPEN_FAILURE", "DATA", "WINDOW_ADJUST",
                "REQUEST", "FAILURE", "EOF", "CLOSE"}

\* Every field keeps its type; a socket's backlog, a window and a buffer are never
\* negative (ssh2connection.h).
TypeOK ==
  /\ ch \in [Ends -> [st : {"none", "halfopen", "open"}, zombie : BOOLEAN, ready : BOOLEAN,
                      frozen : BOOLEAN, closes : SUBSET Closes, pending_eof : BOOLEAN,
                      out : Nat, backlog : Nat, sent : Nat, remwindow : Nat,
                      locwindow : Int, locmaxwin : Nat, remlocwin : Int,
                      throttle_state : {"THROTTLED", "UNTHROTTLING", "UNTHROTTLED"},
                      throttling_conn : BOOLEAN, chanreqs : Seq(Nat), throttled : BOOLEAN,
                      tx : Seq([type : PacketTypes, n : Nat])]]
  /\ prog \in [Ends -> [wrote : Nat, got : Nat, ended : BOOLEAN, sawEnd : BOOLEAN,
                        broken : BOOLEAN]]
  /\ before \in [wrote : Nat, got : Nat, ended : BOOLEAN, sawEnd : BOOLEAN, broken : BOOLEAN]
  /\ opens \in 0..MaxOpens /\ answered \in 0..opens /\ breaks \in 0..MaxBreaks /\ backups \in 0..MaxBackups

\* No packet ever meets a channel that is not there, half-open when it should be
\* open or the other way round, and no answer comes that nobody waits for:
\* ssh_proto_error() would end the whole connection. Nor does data follow an EOF, and a
\* socket that can be read never finds the sending side closed (the assertions of
\* sk_net_write() and ssh2channel_write()).
NoProtocolError ==
  \A e \in Ends :
    /\ Waiting(e) # <<>> =>
         LET type == Head(Waiting(e)).type
         IN /\ ch[e].st = CASE type = "CHANNEL_OPEN" -> "none"
                            [] type \in {"OPEN_CONFIRMATION", "OPEN_FAILURE"} -> "halfopen"
                            [] OTHER -> "open"
            /\ type = "FAILURE" => ch[e].chanreqs # <<>>
            /\ type \in {"DATA", "EOF"} => "RCVD_EOF" \notin ch[e].closes
    /\ Readable(e) => "SENT_EOF" \notin ch[e].closes

\* The far end never sends more than it was allowed to, so that what waits in the
\* socket keeps below the window and the connection is never throttled for one channel's
\* sake: nothing would give the throttle back if the channel were destroyed
\* (ssh2_channel_destroy() does not look at throttling_conn).
WindowRespected ==
  \A e \in Ends : ch[e].st = "open" =>
    /\ ch[e].locwindow >= 0
    /\ ch[e].locwindow + ch[e].backlog <= ch[e].locmaxwin
    /\ ~ch[e].throttling_conn

\* A socket that the code has no reason to hold back is being read.
NotStuckFrozen ==
  \A e \in Ends :
    LET c == ch[e]
    IN /\ c.st = "open" /\ ~c.zombie /\ ~c.throttled
       /\ ~c.pending_eof /\ "SENT_EOF" \notin c.closes
       => ~c.frozen

\* "We do not want to receive data from the new socket until we have somewhere to
\* send it" (sk_set_frozen()): every byte read from a program was sent, or waits for window.
NothingLost ==
  \A e \in Ends : (ch[e].st # "none" /\ ~ch[e].zombie) => prog[e].wrote = ch[e].sent + ch[e].out

\* The connection as the two programs see it: the client's last one until the server
\* has heard of the new one.
Seen(e) ==
  IF e = Server THEN prog[e]
  ELSE IF opens # answered THEN before
  ELSE IF ch[e].st = "halfopen" THEN Newcomer ELSE prog[e]

Pipe == INSTANCE ForwardedPipe WITH
  wrote  <- [e \in Ends |-> Seen(e).wrote],
  got    <- [e \in Ends |-> Seen(e).got],
  ended  <- [e \in Ends |-> Seen(e).ended],
  sawEnd <- [e \in Ends |-> Seen(e).sawEnd],
  broken <- [e \in Ends |-> Seen(e).broken]

\* The two programs see a pair of byte streams: what each reads is what the other wrote,
\* from the first byte on, and the end comes after the last byte, as long as the reader
\* keeps its own stream open (ssh2_channel_try_eof(), sk_net_write_eof()).
IsForwardedPipe == Pipe!Spec

\* "it answers you exactly as if it were the service running on the destination machine"
\* (doc/using.but): a program that is shown the end of a stream has read all of it,
\* unless a socket broke.
NothingCut ==
  \A e \in Ends :
    Seen(e).sawEnd /\ ~Seen(e).broken /\ ~Seen(Other(e)).broken
      => Seen(e).got = Seen(Other(e)).wrote

\* Nothing is owed: a program that ended its stream was heard out by the other, unless
\* a socket broke, and a channel that is over at an end is gone there.
HeardOut(e) ==
  Seen(e).ended => Seen(Other(e)).sawEnd \/ Seen(e).broken \/ Seen(Other(e)).broken

Freed(e) == WantClose(ch[e]) => ch[e].st = "none"

\* Whatever the programs did, the two ends get to where nothing is owed: the window never
\* stays shut with bytes waiting, a pending EOF is not forgotten, and no channel
\* lingers, half closed, for want of a packet. The programs do a bounded number
\* of things, so that this comes round after the last of them.
EverythingSettles == []<>(\A e \in Ends : HeardOut(e) /\ Freed(e))
================================================================================
