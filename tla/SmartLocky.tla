---------------------------- MODULE SmartLocky ----------------------------
(***************************************************************************)
(* The smart lock's client (smart-locky/challenge/client/main/main.c), a   *)
(* FreeRTOS program of three threads of control on two cores:              *)
(*   - the button handler, which wakes the unlock task;                    *)
(*   - remote_unlock_task, which brings the Wi-Fi up, waits on an event    *)
(*     group and talks to the lock's server;                               *)
(*   - the system event loop, which runs wifi_event_handler on the events  *)
(*     the Wi-Fi driver posts, in the order they were posted.              *)
(* They share s_retry_num, s_connect_desired and the event group without   *)
(* any lock.  The Wi-Fi driver and the network are external: they are what *)
(* main.c sees of them.                                                    *)
(***************************************************************************)
EXTENDS Integers, Sequences

CONSTANTS
  MaxRetry,    \* CONFIG_ESP_MAXIMUM_RETRY
  MaxSockets,  \* the sockets of the IP stack
  MaxClicks,   \* bound: notifications pending
  MaxQueue     \* bound: events not yet handled, for a click or a lost link

ASSUME SmartLockyAssumption ==
  /\ MaxRetry \in Nat /\ MaxSockets \in Nat /\ MaxClicks \in Nat
  /\ MaxQueue \in Nat

VARIABLES
  notify,    \* the unlock task's notification count
  task,      \* where the unlock task is
  failed,    \* the result wifi_init_sta() returns
  desired,   \* s_connect_desired
  retry,     \* s_retry_num
  bits,      \* s_wifi_event_group
  queue,     \* events posted to the system event loop
  handler,   \* where wifi_event_handler is
  loaded,    \* the value its s_retry_num++ has read
  radio,     \* external: the driver's station
  sockets,   \* external: sockets in use
  screen,    \* the last line printed by the unlock task
  leaks,     \* history: connect() calls that failed
  early      \* history: the START of this unlock's esp_wifi_start() was handled
             \* and a bit set, all before xEventGroupClearBits()

taskVars  == <<notify, task, failed, screen>>
eventVars == <<queue, handler, loaded>>
netVars   == <<sockets, leaks>>
vars == <<taskVars, desired, retry, bits, eventVars, radio, netVars, early>>

-----------------------------------------------------------------------------
(* The Wi-Fi driver, external *)

Linked == radio \in {"connecting", "up"}

Post(event) == queue' = Append(queue, event)

\* A station that loses its link, or its attempt at one, posts an event.
DropLink(to) ==
  /\ radio' = to
  /\ IF Linked THEN Post("DISCONNECTED") ELSE UNCHANGED queue

\* esp_wifi_connect(): nothing in a station that is off or already linked; its
\* error codes are not looked at.
WifiConnect ==
  radio' = IF radio = "started" THEN "connecting" ELSE radio

Connects ==
  /\ radio = "connecting"
  /\ radio' = "up"
  /\ Post("GOT_IP")
  /\ UNCHANGED <<taskVars, desired, retry, bits, handler, loaded, netVars,
                 early>>

\* The access point refuses, or is lost.
Disconnects ==
  /\ Linked
  /\ radio = "up" => Len(queue) < MaxQueue
  /\ DropLink("started")
  /\ UNCHANGED <<taskVars, desired, retry, bits, handler, loaded, netVars,
                 early>>

-----------------------------------------------------------------------------
(* wifi_event_handler, run by the system event loop *)

\* The loop takes an event; of a disconnection it also evaluates the condition.
HandleStart ==
  /\ handler = "idle"
  /\ queue # <<>>
  /\ Head(queue) = "START"
  /\ queue' = Tail(queue)
  /\ WifiConnect
  /\ UNCHANGED <<taskVars, desired, retry, bits, handler, loaded, netVars,
                 early>>

\* xEventGroupSetBits().
SetBit(bit) ==
  /\ bits' = bits \cup {bit}
  /\ early' = (early \/ (task = "clear" /\ \A i \in DOMAIN queue :
                                              queue[i] # "START"))

HandleGotIp_Silent ==
  /\ handler = "idle"
  /\ queue # <<>>
  /\ Head(queue) = "GOT_IP"
  /\ queue' = Tail(queue)
  /\ retry' = 0
  /\ UNCHANGED <<taskVars, desired, bits, handler, loaded, radio, netVars,
                 early>>

HandleGotIp ==
  /\ handler = "idle"
  /\ queue # <<>>
  /\ Head(queue) = "GOT_IP"
  /\ queue' = Tail(queue)
  /\ retry' = 0
  /\ SetBit("CONNECTED")
  /\ UNCHANGED <<taskVars, desired, handler, loaded, radio, netVars>>

Retries_OneMore == desired /\ retry <= MaxRetry

Retries == desired /\ retry < MaxRetry

HandleDisconnected ==
  /\ handler = "idle"
  /\ queue # <<>>
  /\ Head(queue) = "DISCONNECTED"
  /\ queue' = Tail(queue)
  /\ handler' = IF Retries THEN "connect" ELSE "fail"
  /\ UNCHANGED <<taskVars, desired, retry, bits, loaded, radio, netVars,
                 early>>

HandlerConnects ==
  /\ handler = "connect"
  /\ WifiConnect
  /\ handler' = "load"
  /\ UNCHANGED <<taskVars, desired, retry, bits, queue, loaded, netVars,
                 early>>

\* s_retry_num++ is a read and a write, with the unlock task's reset in between.
HandlerLoadsRetry ==
  /\ handler = "load"
  /\ loaded' = retry
  /\ handler' = "store"
  /\ UNCHANGED <<taskVars, desired, retry, bits, queue, radio, netVars, early>>

HandlerStoresRetry ==
  /\ handler = "store"
  /\ retry' = loaded + 1
  /\ loaded' = 0
  /\ handler' = "idle"
  /\ UNCHANGED <<taskVars, desired, bits, queue, radio, netVars, early>>

HandlerFails_Silent ==
  /\ handler = "fail"
  /\ handler' = "idle"
  /\ UNCHANGED <<taskVars, desired, retry, bits, queue, loaded, radio, netVars,
                 early>>

HandlerFails ==
  /\ handler = "fail"
  /\ SetBit("FAIL")
  /\ handler' = "idle"
  /\ UNCHANGED <<taskVars, desired, retry, queue, loaded, radio, netVars>>

Handler == \/ HandleStart \/ HandleGotIp \/ HandleDisconnected
           \/ HandlerConnects \/ HandlerLoadsRetry \/ HandlerStoresRetry
           \/ HandlerFails

-----------------------------------------------------------------------------
(* Button A and remote_unlock_task *)

Click ==
  /\ notify < MaxClicks
  /\ Len(queue) < MaxQueue
  /\ notify' = notify + 1
  /\ UNCHANGED <<task, failed, screen, desired, retry, bits, eventVars, radio,
                 netVars, early>>

\* ulTaskNotifyTake(pdTRUE): all the clicks so far are one unlock.
TakeNotification ==
  /\ task = "idle"
  /\ notify > 0
  /\ notify' = 0
  /\ task' = "undesire"
  /\ screen' = "Starting unlock"
  /\ UNCHANGED <<failed, desired, retry, bits, eventVars, radio, sockets,
                 leaks, early>>

\* wifi_init_sta(), line by line.
Undesire ==
  /\ task = "undesire"
  /\ desired' = FALSE
  /\ task' = "disconnect"
  /\ UNCHANGED <<notify, failed, screen, retry, bits, eventVars, radio,
                 netVars, early>>

WifiDisconnect ==
  /\ task = "disconnect"
  /\ DropLink(IF radio = "off" THEN "off" ELSE "started")
  /\ task' = "stop"
  /\ UNCHANGED <<notify, failed, screen, desired, retry, bits, handler, loaded,
                 netVars, early>>

WifiStop ==
  /\ task = "stop"
  /\ DropLink("off")
  /\ task' = "reset"
  /\ UNCHANGED <<notify, failed, screen, desired, retry, bits, handler, loaded,
                 netVars, early>>

ResetRetry ==
  /\ task = "reset"
  /\ retry' = 0
  /\ task' = "desire"
  /\ UNCHANGED <<notify, failed, screen, desired, bits, eventVars, radio,
                 netVars, early>>

Desire ==
  /\ task = "desire"
  /\ desired' = TRUE
  /\ task' = "start"
  /\ UNCHANGED <<notify, failed, screen, retry, bits, eventVars, radio,
                 netVars, early>>

WifiStart ==
  /\ task = "start"
  /\ radio' = "started"
  /\ Post("START")
  /\ task' = "clear"
  /\ early' = FALSE
  /\ UNCHANGED <<notify, failed, screen, desired, retry, bits, handler, loaded,
                 netVars>>

ClearBits ==
  /\ task = "clear"
  /\ bits' = {}
  /\ task' = "wait"
  /\ UNCHANGED <<notify, failed, screen, desired, retry, eventVars, radio,
                 netVars, early>>

\* xEventGroupWaitBits() returns and leaves the bits set; after a failure the
\* station is stopped, unless the connected bit is set too.
WaitBits ==
  /\ task = "wait"
  /\ bits # {}
  /\ failed' = ("FAIL" \in bits)
  /\ IF "CONNECTED" \in bits THEN UNCHANGED <<radio, queue>> ELSE DropLink("off")
  /\ task' = "connected"
  /\ UNCHANGED <<notify, screen, desired, retry, bits, handler, loaded,
                 netVars, early>>

\* The rest of unlock_remote_lock(): every "goto fail" ends like this.
Fail ==
  /\ task' = "idle"
  /\ screen' = "Connection failed."

\* wifi_init_sta() or, after it, esp_netif_get_ip_info() reports an error.
StationFailed ==
  /\ task = "connected"
  /\ Fail
  /\ UNCHANGED <<notify, failed, desired, retry, bits, eventVars, radio,
                 netVars, early>>

OpenSocket ==
  /\ task = "connected"
  /\ ~failed
  /\ IF sockets < MaxSockets
     THEN sockets' = sockets + 1 /\ task' = "dial" /\ UNCHANGED screen
     ELSE Fail /\ UNCHANGED sockets
  /\ UNCHANGED <<notify, failed, desired, retry, bits, eventVars, radio, leaks,
                 early>>

\* connect(): on failure the socket is left open.
Dial ==
  /\ task = "dial"
  /\ \/ radio = "up" /\ task' = "send" /\ UNCHANGED <<screen, leaks>>
     \/ Fail /\ leaks' = leaks + 1
  /\ UNCHANGED <<notify, failed, desired, retry, bits, eventVars, radio,
                 sockets, early>>

Close_Forgotten == UNCHANGED sockets

Close == sockets' = sockets - 1

\* The server compares the password and answers; it may read it in pieces, and
\* then it answers "NO".
Send ==
  /\ task = "send"
  /\ \/ /\ task' = "recv"
        /\ UNCHANGED <<sockets, screen>>
     \/ Fail /\ Close
  /\ UNCHANGED <<notify, failed, desired, retry, bits, eventVars, radio, leaks,
                 early>>

\* Whatever was received is printed; only an error of recv() counts as a failure.
Recv ==
  /\ task = "recv"
  /\ \/ task' = "idle" /\ screen' = "Unlocked"
     \/ Fail
  /\ Close
  /\ UNCHANGED <<notify, failed, desired, retry, bits, eventVars, radio, leaks,
                 early>>

\* The steps of the unlock task that do not wait for the network's peer.
Task == \/ TakeNotification \/ Undesire \/ WifiDisconnect \/ WifiStop
        \/ ResetRetry \/ Desire \/ WifiStart \/ ClearBits \/ WaitBits
        \/ StationFailed \/ OpenSocket

Init ==
  /\ notify = 0
  /\ task = "idle"
  /\ failed = FALSE
  /\ desired = FALSE
  /\ retry = 0
  /\ bits = {}
  /\ queue = <<>>
  /\ handler = "idle"
  /\ loaded = 0
  /\ radio = "off"
  /\ sockets = 0
  /\ screen = "Ready."
  /\ leaks = 0
  /\ early = FALSE

Next == Click \/ Task \/ Dial \/ Send \/ Recv \/ Handler \/ Connects \/ Disconnects

\* The scheduler runs both tasks, and an attempt to associate ends; nothing is
\* assumed of the player, of a lost access point or of the server.
Spec ==
  /\ Init
  /\ [][Next]_vars
  /\ WF_vars(Task)
  /\ WF_vars(Handler)
  /\ WF_vars(Connects \/ (radio = "connecting" /\ Disconnects))

-----------------------------------------------------------------------------
(* Properties *)

\* The types of the variables.
TypeOK ==
  /\ notify \in 0 .. MaxClicks
  /\ task \in {"idle", "undesire", "disconnect", "stop", "reset", "desire",
               "start", "clear", "wait", "connected", "dial", "send", "recv"}
  /\ failed \in BOOLEAN
  /\ desired \in BOOLEAN
  /\ bits \subseteq {"CONNECTED", "FAIL"}
  /\ queue \in Seq({"START", "GOT_IP", "DISCONNECTED"})
  /\ handler \in {"idle", "connect", "load", "store", "fail"}
  /\ radio \in {"off", "started", "connecting", "up"}
  /\ screen \in {"Ready.", "Starting unlock", "Unlocked", "Connection failed."}
  /\ loaded \in Nat /\ retry \in Nat /\ sockets \in Nat /\ leaks \in Nat
  /\ early \in BOOLEAN

\* s_retry_num never passes its maximum, although the unlock task resets it
\* between the event handler's test, its read and its write.
RetryBounded == retry <= MaxRetry

\* The sockets in use are the one of the unlock in progress and one for every
\* connect() that failed: no other path leaves a socket open.
SocketsAccounted ==
  sockets = leaks + (IF task \in {"dial", "send", "recv"} THEN 1 ELSE 0)

\* The unlock task never sleeps on the event group with nobody left to set a bit:
\* an event that leads to one is queued, being handled, or the station is trying.
\* That is so unless the bit came before the bits were cleared.
SomeoneWillWake ==
  task = "wait" /\ bits = {} /\ ~early =>
    queue # <<>> \/ handler # "idle" \/ radio = "connecting"

\* The wait ends, whatever the access point does, unless the bit came early.
WaitEndsUnlessEarly == task = "wait" /\ ~early ~> task # "wait"

\* The comment over the wait: it lasts until the connection is established or
\* has failed, so it never lasts for ever.
WaitEnds == task = "wait" ~> task # "wait"
=============================================================================
