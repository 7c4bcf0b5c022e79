------------------------- MODULE SmartLockyProofs -------------------------
(***************************************************************************)
(* Theorems about the smart lock's client, for every number of retries,    *)
(* sockets and pending clicks, and every interleaving: what survives the   *)
(* unprotected sharing of s_retry_num, where the sockets go, and when the  *)
(* unlock task may sleep for ever.                                         *)
(***************************************************************************)
EXTENDS SmartLocky, TLAPS

-----------------------------------------------------------------------------
(* The retry counter *)

\* What the event handler knows of s_retry_num between its test, its read and its
\* write: the unlock task can only have lowered it.
RetryInv ==
  /\ retry \in Nat
  /\ loaded \in Nat
  /\ RetryBounded
  /\ handler \in {"connect", "load"} => retry < MaxRetry
  /\ handler = "store" => loaded < MaxRetry

\* The event handler's own steps.
LEMMA HandlerRetryInv == ASSUME RetryInv, Handler PROVE RetryInv'
<1> USE SmartLockyAssumption DEF RetryInv, RetryBounded
<1>1. CASE HandleStart
  BY <1>1 DEF HandleStart
<1>2. CASE HandleGotIp
  BY <1>2 DEF HandleGotIp
<1>3. CASE HandleDisconnected
  BY <1>3 DEF HandleDisconnected, Retries
<1>4. CASE HandlerConnects
  BY <1>4 DEF HandlerConnects
<1>5. CASE HandlerLoadsRetry
  BY <1>5 DEF HandlerLoadsRetry
<1>6. CASE HandlerStoresRetry
  BY <1>6 DEF HandlerStoresRetry
<1>7. CASE HandlerFails
  BY <1>7 DEF HandlerFails
<1>8. QED
  BY <1>1, <1>2, <1>3, <1>4, <1>5, <1>6, <1>7 DEF Handler

\* The unlock task's steps: only ResetRetry touches the counter.
LEMMA TaskRetryInv ==
  ASSUME RetryInv, Task \/ Dial \/ Send \/ Recv PROVE RetryInv'
<1> USE SmartLockyAssumption DEF RetryInv, RetryBounded, eventVars
<1>1. CASE TakeNotification
  BY <1>1 DEF TakeNotification
<1>2. CASE Undesire
  BY <1>2 DEF Undesire
<1>3. CASE WifiDisconnect
  BY <1>3 DEF WifiDisconnect
<1>4. CASE WifiStop
  BY <1>4 DEF WifiStop
<1>5. CASE ResetRetry
  BY <1>5 DEF ResetRetry
<1>6. CASE Desire
  BY <1>6 DEF Desire
<1>7. CASE WifiStart
  BY <1>7 DEF WifiStart
<1>8. CASE ClearBits
  BY <1>8 DEF ClearBits
<1>9. CASE WaitBits
  BY <1>9 DEF WaitBits
<1>10. CASE StationFailed
  BY <1>10 DEF StationFailed
<1>11. CASE OpenSocket
  BY <1>11 DEF OpenSocket
<1>12. CASE Dial
  BY <1>12 DEF Dial
<1>13. CASE Send
  BY <1>13 DEF Send
<1>14. CASE Recv
  BY <1>14 DEF Recv
<1>15. QED
  BY <1>1, <1>2, <1>3, <1>4, <1>5, <1>6, <1>7, <1>8, <1>9, <1>10, <1>11,
     <1>12, <1>13, <1>14 DEF Task

\* s_retry_num stays within CONFIG_ESP_MAXIMUM_RETRY although the event loop tests,
\* reads and writes it in separate steps while the unlock task resets it.
THEOREM RetryStaysBounded == Spec => []RetryBounded
<1>1. Init => RetryInv
  BY SmartLockyAssumption DEF Init, RetryInv, RetryBounded
<1>2. RetryInv /\ [Next]_vars => RetryInv'
  <2> SUFFICES ASSUME RetryInv, [Next]_vars PROVE RetryInv'
    OBVIOUS
  <2>1. CASE Click \/ Connects \/ Disconnects
    BY <2>1 DEF Click, Connects, Disconnects, eventVars, RetryInv, RetryBounded
  <2>2. CASE Task \/ Dial \/ Send \/ Recv
    BY <2>2, TaskRetryInv
  <2>3. CASE Handler
    BY <2>3, HandlerRetryInv
  <2>4. CASE UNCHANGED vars
    BY <2>4 DEF vars, eventVars, RetryInv, RetryBounded
  <2>5. QED
    BY <2>1, <2>2, <2>3, <2>4 DEF Next
<1>3. RetryInv => RetryBounded
  BY DEF RetryInv
<1>4. QED
  BY <1>1, <1>2, <1>3, PTL DEF Spec

-----------------------------------------------------------------------------
(* The sockets *)

SocketInv == sockets \in Int /\ leaks \in Int /\ SocketsAccounted

\* The steps of the unlock task that bring the station up hold no socket.
LEMMA TaskSocketInv == ASSUME SocketInv, Task PROVE SocketInv'
<1> USE DEF SocketInv, SocketsAccounted, netVars
<1>1. CASE TakeNotification
  BY <1>1 DEF TakeNotification
<1>2. CASE Undesire
  BY <1>2 DEF Undesire
<1>3. CASE WifiDisconnect
  BY <1>3 DEF WifiDisconnect
<1>4. CASE WifiStop
  BY <1>4 DEF WifiStop
<1>5. CASE ResetRetry
  BY <1>5 DEF ResetRetry
<1>6. CASE Desire
  BY <1>6 DEF Desire
<1>7. CASE WifiStart
  BY <1>7 DEF WifiStart
<1>8. CASE ClearBits
  BY <1>8 DEF ClearBits
<1>9. CASE WaitBits
  BY <1>9 DEF WaitBits
<1>10. CASE StationFailed
  BY <1>10 DEF StationFailed, Fail
<1>11. CASE OpenSocket
  <2>1. task = "connected" /\ leaks' = leaks
    BY <1>11 DEF OpenSocket
  <2>2. \/ sockets' = sockets + 1 /\ task' = "dial"
        \/ sockets' = sockets /\ task' = "idle"
    BY <1>11, Zenon DEF OpenSocket, Fail
  <2>3. QED
    BY <2>1, <2>2
<1>12. QED
  BY <1>1, <1>2, <1>3, <1>4, <1>5, <1>6, <1>7, <1>8, <1>9, <1>10, <1>11 DEF Task

\* Every socket that stays open after an unlock was left by a connect() that
\* failed: no other path of unlock_remote_lock() leaks one.
THEOREM OnlyConnectLeaks == Spec => []SocketsAccounted
<1>1. Init => SocketInv
  BY DEF Init, SocketInv, SocketsAccounted
<1>2. SocketInv /\ [Next]_vars => SocketInv'
  <2> SUFFICES ASSUME SocketInv, [Next]_vars PROVE SocketInv'
    OBVIOUS
  <2> USE DEF SocketInv, SocketsAccounted, taskVars, netVars
  <2>1. CASE Click \/ Connects \/ Disconnects
    BY <2>1 DEF Click, Connects, Disconnects
  <2>2. CASE Handler
    BY <2>2 DEF Handler, HandleStart, HandleGotIp, HandleDisconnected,
                HandlerConnects, HandlerLoadsRetry, HandlerStoresRetry,
                HandlerFails
  <2>3. CASE Task
    BY <2>3, TaskSocketInv
  <2>4. CASE Dial
    <3>1. task = "dial" /\ sockets' = sockets
      BY <2>4 DEF Dial
    <3>2. \/ task' = "send" /\ leaks' = leaks
          \/ task' = "idle" /\ leaks' = leaks + 1
      BY <2>4, Zenon DEF Dial, Fail
    <3>3. QED
      BY <3>1, <3>2
  <2>5. CASE Send
    <3>1. task = "send" /\ leaks' = leaks
      BY <2>5 DEF Send
    <3>2. \/ task' = "recv" /\ sockets' = sockets
          \/ task' = "idle" /\ sockets' = sockets - 1
      BY <2>5, Zenon DEF Send, Fail, Close
    <3>3. QED
      BY <3>1, <3>2
  <2>6. CASE Recv
    <3>1. task = "recv" /\ leaks' = leaks /\ sockets' = sockets - 1
      BY <2>6 DEF Recv, Close
    <3>2. task' = "idle"
      BY <2>6, Zenon DEF Recv, Fail
    <3>3. QED
      BY <3>1, <3>2
  <2>7. CASE UNCHANGED vars
    BY <2>7 DEF vars
  <2>8. QED
    BY <2>1, <2>2, <2>3, <2>4, <2>5, <2>6, <2>7 DEF Next
<1>3. SocketInv => SocketsAccounted
  BY DEF SocketInv
<1>4. QED
  BY <1>1, <1>2, <1>3, PTL DEF Spec

-----------------------------------------------------------------------------
(* The wait on the event group *)

Events == {"START", "GOT_IP", "DISCONNECTED"}

HasStart(q) == \E i \in 1 .. Len(q) : q[i] = "START"

EndsUp(q) == q # <<>> /\ q[Len(q)] = "GOT_IP"

\* What a posted event does to the queue.
LEMMA Posting ==
  \A q \in Seq(Events), e \in Events :
     /\ Append(q, e) \in Seq(Events) /\ Append(q, e) # <<>>
     /\ HasStart(q) \/ e = "START" => HasStart(Append(q, e))
     /\ e = "GOT_IP" => EndsUp(Append(q, e))
<1> SUFFICES ASSUME NEW q \in Seq(Events), NEW e \in Events
             PROVE  /\ Append(q, e) \in Seq(Events) /\ Append(q, e) # <<>>
                    /\ HasStart(q) \/ e = "START" => HasStart(Append(q, e))
                    /\ e = "GOT_IP" => EndsUp(Append(q, e))
  OBVIOUS
<1>1. /\ Append(q, e) \in Seq(Events) /\ Len(Append(q, e)) = Len(q) + 1
      /\ Append(q, e)[Len(q) + 1] = e /\ Append(q, e) # <<>>
      /\ \A i \in 1 .. Len(q) : Append(q, e)[i] = q[i]
      /\ Len(q) \in Nat
  OBVIOUS
<1>2. HasStart(q) => HasStart(Append(q, e))
  BY <1>1 DEF HasStart
<1>3. e = "START" => HasStart(Append(q, e))
  <2>1. Len(q) + 1 \in 1 .. Len(Append(q, e))
    BY <1>1
  <2> QED BY <1>1, <2>1 DEF HasStart
<1>4. e = "GOT_IP" => EndsUp(Append(q, e))
  BY <1>1 DEF EndsUp
<1> QED BY <1>1, <1>2, <1>3, <1>4

\* What the event loop does to it.
LEMMA Taking ==
  \A q \in Seq(Events) : q # <<>> =>
     /\ Tail(q) \in Seq(Events)
     /\ HasStart(q) /\ Head(q) # "START" => HasStart(Tail(q))
     /\ EndsUp(q) /\ (Head(q) = "GOT_IP" => HasStart(q)) => EndsUp(Tail(q))
<1> SUFFICES ASSUME NEW q \in Seq(Events), q # <<>>
             PROVE  /\ Tail(q) \in Seq(Events)
                    /\ HasStart(q) /\ Head(q) # "START" => HasStart(Tail(q))
                    /\ EndsUp(q) /\ (Head(q) = "GOT_IP" => HasStart(q)) => EndsUp(Tail(q))
  OBVIOUS
<1>1. /\ Tail(q) \in Seq(Events) /\ Len(q) \in Nat \ {0} /\ Len(Tail(q)) = Len(q) - 1
      /\ Head(q) = q[1] /\ \A i \in 1 .. Len(q) - 1 : Tail(q)[i] = q[i + 1]
  OBVIOUS
<1>2. ASSUME HasStart(q), Head(q) # "START" PROVE HasStart(Tail(q))
  <2>1. PICK i \in 1 .. Len(q) : q[i] = "START"
    BY <1>2 DEF HasStart
  <2>2. i - 1 \in 1 .. Len(q) - 1 /\ (i - 1) + 1 = i
    BY <1>1, <1>2, <2>1
  <2>3. Tail(q)[i - 1] = "START"
    BY <1>1, <2>1, <2>2
  <2> QED BY <1>1, <2>2, <2>3 DEF HasStart
<1>3. ASSUME EndsUp(q), Head(q) = "GOT_IP" => HasStart(q) PROVE EndsUp(Tail(q))
  <2>1. Len(q) # 1
    BY <1>1, <1>3 DEF EndsUp, HasStart
  <2>2. Len(q) - 1 \in 1 .. Len(q) - 1
    BY <1>1, <2>1
  <2>3. Tail(q)[Len(q) - 1] = "GOT_IP"
    BY <1>1, <1>3, <2>2 DEF EndsUp
  <2>4. Len(Tail(q)) # 0 /\ Len(<<>>) = 0
    BY <1>1, <2>1
  <2>5. Tail(q) # <<>>
    BY <2>4, Zenon
  <2> QED BY <1>1, <2>3, <2>5 DEF EndsUp
<1> QED BY <1>1, <1>2, <1>3

Waiting == task = "wait" /\ bits = {}

\* The unlock that the task is in the middle of has no outcome yet.
Pending == (task = "clear" \/ Waiting) /\ ~early

\* From esp_wifi_start() on the station is on; and as long as the unlock has no
\* outcome, a station that is up has its GOT_IP last in the queue, and some event,
\* the handler or the station leads to one.
WakeInv ==
  /\ queue \in Seq(Events)
  /\ radio \in {"off", "started", "connecting", "up"}
  /\ early \in BOOLEAN
  /\ task \in {"clear", "wait"} => radio # "off"
  /\ Pending /\ radio = "up" => EndsUp(queue)
  /\ Pending => queue # <<>> \/ handler \in {"connect", "fail"} \/ radio = "connecting"

\* The driver's steps: a link that comes up or is lost posts an event.
LEMMA RadioWakeInv == ASSUME WakeInv, Click \/ Connects \/ Disconnects PROVE WakeInv'
<1> USE DEF WakeInv, Waiting, Pending, taskVars, eventVars
<1>1. CASE Click
  BY <1>1 DEF Click
<1>2. CASE Connects
  <2>1. /\ queue' = Append(queue, "GOT_IP") /\ radio' = "up"
        /\ UNCHANGED <<task, bits, handler, early>>
    BY <1>2 DEF Connects, Post
  <2>2. queue' \in Seq(Events) /\ queue' # <<>> /\ EndsUp(queue')
    BY <2>1, Posting DEF Events
  <2> QED BY <2>1, <2>2
<1>3. CASE Disconnects
  <2>1. /\ queue' = Append(queue, "DISCONNECTED") /\ radio' = "started"
        /\ UNCHANGED <<task, bits, handler, early>>
    BY <1>3 DEF Disconnects, DropLink, Post
  <2>2. queue' \in Seq(Events) /\ queue' # <<>>
    BY <2>1, Posting DEF Events
  <2> QED BY <2>1, <2>2
<1> QED BY <1>1, <1>2, <1>3

\* The handler's steps: what it takes from the queue it turns into a bit, or into
\* a station that connects.  A bit that is set while the task has yet to clear them
\* is early, unless the START of this unlock is still queued.
LEMMA HandlerWakeInv == ASSUME WakeInv, Handler PROVE WakeInv'
<1> USE DEF WakeInv, Waiting, Pending, taskVars
<1>1. CASE HandleStart
  <2>1. /\ queue # <<>> /\ Head(queue) = "START" /\ queue' = Tail(queue)
        /\ UNCHANGED <<task, bits, handler, early>>
        /\ radio' = IF radio = "started" THEN "connecting" ELSE radio
    BY <1>1 DEF HandleStart, WifiConnect
  <2>2. queue' \in Seq(Events) /\ (EndsUp(queue) => EndsUp(queue'))
    BY <2>1, Taking
  <2>3. EndsUp(queue') => queue' # <<>>
    BY DEF EndsUp
  <2> QED BY <2>1, <2>2, <2>3
<1>2. CASE HandleGotIp
  <2>1. /\ queue # <<>> /\ Head(queue) = "GOT_IP" /\ queue' = Tail(queue)
        /\ bits' # {} /\ UNCHANGED <<task, handler, radio>>
    BY <1>2 DEF HandleGotIp, SetBit
  <2>2. /\ early' \in BOOLEAN
        /\ task = "clear" /\ ~early' => ~early /\ HasStart(queue)
    <3>1. early' = (early \/ (task = "clear"
                              /\ \A i \in DOMAIN queue : queue[i] # "START"))
      BY <1>2, Zenon DEF HandleGotIp, SetBit
    <3>2. (\A i \in DOMAIN queue : queue[i] # "START") \/ HasStart(queue)
      BY DEF HasStart
    <3> QED BY <3>1, <3>2, Zenon
  <2>3. /\ queue' \in Seq(Events) /\ HasStart(queue) => HasStart(queue')
        /\ EndsUp(queue) /\ HasStart(queue) => EndsUp(queue')
    BY <2>1, Taking
  <2>4. HasStart(queue') => queue' # <<>>
    BY DEF HasStart
  <2> QED BY <2>1, <2>2, <2>3, <2>4
<1>3. CASE HandleDisconnected
  <2>1. /\ queue # <<>> /\ Head(queue) = "DISCONNECTED" /\ queue' = Tail(queue)
        /\ handler' \in {"connect", "fail"} /\ UNCHANGED <<task, bits, radio, early>>
    BY <1>3 DEF HandleDisconnected
  <2>2. queue' \in Seq(Events) /\ (EndsUp(queue) => EndsUp(queue'))
    BY <2>1, Taking
  <2> QED BY <2>1, <2>2
<1>4. CASE HandlerConnects
  <2>1. /\ UNCHANGED <<task, bits, queue, early>>
        /\ radio' = IF radio = "started" THEN "connecting" ELSE radio
    BY <1>4 DEF HandlerConnects, WifiConnect
  <2>2. EndsUp(queue) => queue # <<>>
    BY DEF EndsUp
  <2> QED BY <2>1, <2>2
<1>5. CASE HandlerLoadsRetry
  BY <1>5 DEF HandlerLoadsRetry
<1>6. CASE HandlerStoresRetry
  BY <1>6 DEF HandlerStoresRetry
<1>7. CASE HandlerFails
  <2>1. bits' # {} /\ UNCHANGED <<task, queue, radio>>
    BY <1>7 DEF HandlerFails, SetBit
  <2>2. /\ early' \in BOOLEAN
        /\ task = "clear" /\ ~early' => ~early /\ HasStart(queue)
    <3>1. early' = (early \/ (task = "clear"
                              /\ \A i \in DOMAIN queue : queue[i] # "START"))
      BY <1>7, Zenon DEF HandlerFails, SetBit
    <3>2. (\A i \in DOMAIN queue : queue[i] # "START") \/ HasStart(queue)
      BY DEF HasStart
    <3> QED BY <3>1, <3>2, Zenon
  <2>3. HasStart(queue) => queue # <<>>
    BY DEF HasStart
  <2> QED BY <2>1, <2>2, <2>3
<1> QED BY <1>1, <1>2, <1>3, <1>4, <1>5, <1>6, <1>7 DEF Handler

\* The unlock task's steps: it stops the station before it starts it again, and
\* waits only after it has cleared the bits.
LEMMA TaskWakeInv == ASSUME WakeInv, Task \/ Dial \/ Send \/ Recv PROVE WakeInv'
<1> USE DEF WakeInv, Waiting, Pending, eventVars
<1>1. ASSUME queue' = queue \/ queue' = Append(queue, "DISCONNECTED"), early' = early,
             radio' \in {"off", "started", radio}, task' \notin {"clear", "wait"}
      PROVE  WakeInv'
  BY <1>1, Posting DEF Events
<1>2. CASE WifiStart
  <2>1. /\ queue' = Append(queue, "START") /\ radio' = "started" /\ task' = "clear"
        /\ early' = FALSE
    BY <1>2 DEF WifiStart, Post
  <2>2. queue' \in Seq(Events) /\ queue' # <<>>
    BY <2>1, Posting DEF Events
  <2> QED BY <2>1, <2>2
<1>3. CASE ClearBits
  <2>1. task = "clear" /\ task' = "wait" /\ UNCHANGED <<queue, handler, radio, early>>
    BY <1>3 DEF ClearBits
  <2> QED BY <2>1
<1>4. CASE WifiDisconnect \/ WifiStop \/ WaitBits
  BY <1>1, <1>4 DEF WifiDisconnect, WifiStop, WaitBits, DropLink, Post
<1>5. CASE TakeNotification \/ Undesire \/ ResetRetry \/ Desire \/ StationFailed \/ OpenSocket
  BY <1>1, <1>5 DEF TakeNotification, Undesire, ResetRetry, Desire, StationFailed,
                    OpenSocket, Fail
<1>6. CASE Dial \/ Send \/ Recv
  BY <1>1, <1>6 DEF Dial, Send, Recv, Fail
<1> QED BY <1>2, <1>3, <1>4, <1>5, <1>6 DEF Task

\* In every interleaving of wifi_init_sta() and wifi_event_handler(), the unlock task
\* sleeps on the event group with nothing under way that leads to a bit only if the
\* handler had taken the START of this unlock and set its bit before
\* xEventGroupClearBits().
THEOREM NobodySleepsAlone == Spec => []SomeoneWillWake
<1>1. Init => WakeInv
  <2> SUFFICES ASSUME Init PROVE WakeInv
    OBVIOUS
  <2>1. queue = <<>> /\ radio = "off" /\ task = "idle" /\ early = FALSE
    BY Zenon DEF Init
  <2>2. ~Pending /\ early \in BOOLEAN
    BY <2>1 DEF Pending, Waiting
  <2>3. queue \in Seq(Events)
    BY <2>1
  <2> QED BY <2>1, <2>2, <2>3 DEF WakeInv
<1>2. WakeInv /\ [Next]_vars => WakeInv'
  <2> SUFFICES ASSUME WakeInv, [Next]_vars PROVE WakeInv'
    OBVIOUS
  <2>1. CASE Click \/ Connects \/ Disconnects
    BY <2>1, RadioWakeInv
  <2>2. CASE Handler
    BY <2>2, HandlerWakeInv
  <2>3. CASE Task \/ Dial \/ Send \/ Recv
    BY <2>3, TaskWakeInv
  <2>4. CASE UNCHANGED vars
    BY <2>4 DEF vars, taskVars, eventVars, WakeInv, Waiting, Pending
  <2> QED BY <2>1, <2>2, <2>3, <2>4 DEF Next
<1>3. WakeInv => SomeoneWillWake
  BY DEF WakeInv, Waiting, Pending, SomeoneWillWake
<1> QED BY <1>1, <1>2, <1>3, PTL DEF Spec

-----------------------------------------------------------------------------
(* The types *)

Screens == {"Ready.", "Starting unlock", "Unlocked", "Connection failed."}
Flags ==
  failed \in BOOLEAN /\ desired \in BOOLEAN /\ early \in BOOLEAN /\ screen \in Screens

\* TypeOK without the flags and the screen, which the provers treat apart. A socket that is to be
\* closed is open because every open one is accounted for.
TypeInv ==
  /\ notify \in 0 .. MaxClicks
  /\ task \in {"idle", "undesire", "disconnect", "stop", "reset", "desire",
               "start", "clear", "wait", "connected", "dial", "send", "recv"}
  /\ bits \subseteq {"CONNECTED", "FAIL"}
  /\ queue \in Seq(Events)
  /\ handler \in {"idle", "connect", "load", "store", "fail"}
  /\ radio \in {"off", "started", "connecting", "up"}
  /\ loaded \in Nat /\ retry \in Nat /\ sockets \in Nat /\ leaks \in Nat
  /\ SocketsAccounted

\* The driver and the player.
LEMMA RadioTypeInv == ASSUME TypeInv, Click \/ Connects \/ Disconnects PROVE TypeInv'
<1> USE SmartLockyAssumption DEF TypeInv, Events, SocketsAccounted, taskVars, eventVars, netVars
<1>1. CASE Click
  BY <1>1 DEF Click
<1>2. CASE Connects
  BY <1>2 DEF Connects, Post
<1>3. CASE Disconnects
  BY <1>3 DEF Disconnects, DropLink, Post
<1> QED BY <1>1, <1>2, <1>3

\* The event handler.
LEMMA HandlerTypeInv == ASSUME TypeInv, Handler PROVE TypeInv'
<1> USE SmartLockyAssumption DEF TypeInv, Events, SocketsAccounted, taskVars, netVars
<1>1. CASE HandleStart
  BY <1>1 DEF HandleStart, WifiConnect
<1>2. CASE HandleGotIp
  BY <1>2 DEF HandleGotIp, SetBit
<1>3. CASE HandleDisconnected
  BY <1>3 DEF HandleDisconnected
<1>4. CASE HandlerConnects
  BY <1>4 DEF HandlerConnects, WifiConnect
<1>5. CASE HandlerLoadsRetry
  BY <1>5 DEF HandlerLoadsRetry
<1>6. CASE HandlerStoresRetry
  BY <1>6 DEF HandlerStoresRetry
<1>7. CASE HandlerFails
  BY <1>7 DEF HandlerFails, SetBit
<1> QED BY <1>1, <1>2, <1>3, <1>4, <1>5, <1>6, <1>7 DEF Handler

\* The unlock task.
LEMMA TaskTypeInv == ASSUME TypeInv, Task \/ Dial \/ Send \/ Recv PROVE TypeInv'
<1> USE SmartLockyAssumption DEF TypeInv, Events, SocketsAccounted, eventVars, netVars
<1>1. CASE TakeNotification
  <2>1. task = "idle" /\ notify' = 0 /\ task' = "undesire"
    BY <1>1, Zenon DEF TakeNotification
  <2>2. UNCHANGED <<bits, queue, handler, loaded, radio, retry>> /\ UNCHANGED <<sockets, leaks>>
    BY <1>1, Zenon DEF TakeNotification, eventVars
  <2> QED BY <2>1, <2>2
<1>2. CASE Undesire \/ ResetRetry \/ Desire
  <2>1. UNCHANGED notify /\ UNCHANGED <<bits, queue, handler, loaded, radio, sockets, leaks>>
    BY <1>2, Zenon DEF Undesire, ResetRetry, Desire, eventVars, netVars
  <2>2. /\ task \in {"undesire", "reset", "desire"} /\ task' \in {"disconnect", "desire", "start"}
        /\ retry' \in {0, retry}
    BY <1>2 DEF Undesire, ResetRetry, Desire
  <2> QED BY <2>1, <2>2
<1>3. CASE WifiDisconnect
  BY <1>3 DEF WifiDisconnect, DropLink, Post
<1>4. CASE WifiStop
  BY <1>4 DEF WifiStop, DropLink, Post
<1>5. CASE WifiStart
  BY <1>5 DEF WifiStart, Post
<1>6. CASE ClearBits
  BY <1>6 DEF ClearBits
<1>7. CASE WaitBits
  BY <1>7 DEF WaitBits, DropLink, Post
<1>8. CASE StationFailed \/ OpenSocket \/ Dial \/ Send \/ Recv
  <2>1. UNCHANGED notify /\ UNCHANGED <<bits, queue, handler, loaded, radio, retry>>
    BY <1>8, Zenon DEF StationFailed, OpenSocket, Dial, Send, Recv, eventVars
  <2>2. \/ /\ task = "connected" /\ task' = "idle" /\ UNCHANGED <<sockets, leaks>>
        \/ /\ task = "connected" /\ task' = "dial" /\ sockets' = sockets + 1 /\ UNCHANGED leaks
        \/ /\ task = "dial" /\ task' = "send" /\ UNCHANGED <<sockets, leaks>>
        \/ /\ task = "dial" /\ task' = "idle" /\ leaks' = leaks + 1 /\ UNCHANGED sockets
        \/ /\ task = "send" /\ task' = "recv" /\ UNCHANGED <<sockets, leaks>>
        \/ /\ task \in {"send", "recv"} /\ task' = "idle" /\ sockets' = sockets - 1 /\ UNCHANGED leaks
    <3>1. CASE StationFailed
      BY <3>1, Zenon DEF StationFailed, Fail, netVars
    <3>2. CASE OpenSocket
      BY <3>2, Zenon DEF OpenSocket, Fail
    <3>3. CASE Dial
      BY <3>3, Zenon DEF Dial, Fail
    <3>4. CASE Send
      BY <3>4, Zenon DEF Send, Fail, Close
    <3>5. CASE Recv
      BY <3>5, Zenon DEF Recv, Fail, Close
    <3> QED BY <1>8, <3>1, <3>2, <3>3, <3>4, <3>5
  <2> QED BY <2>1, <2>2
<1> QED BY <1>1, <1>2, <1>3, <1>4, <1>5, <1>6, <1>7, <1>8 DEF Task

\* The flags: only Undesire, Desire, WaitBits and SetBit set one. The screen: every unlock prints.
LEMMA FlagsKept == Flags /\ [Next]_vars => Flags'
<1> SUFFICES ASSUME Flags, [Next]_vars PROVE Flags'
  OBVIOUS
<1>0. /\ "Starting unlock" \in Screens /\ "Unlocked" \in Screens
      /\ "Connection failed." \in Screens
  BY Zenon DEF Screens
<1>1. CASE Click \/ Connects \/ Disconnects
  BY <1>1, Zenon DEF Click, Connects, Disconnects, taskVars, Flags
<1>2. CASE Handler
  <2>1. UNCHANGED <<failed, desired, screen>>
    BY <1>2, Zenon DEF Handler, HandleStart, HandleGotIp, HandleDisconnected, HandlerConnects,
                       HandlerLoadsRetry, HandlerStoresRetry, HandlerFails, taskVars
  <2>2. \/ early' = early
        \/ early' = (early \/ (task = "clear"
                               /\ \A i \in DOMAIN queue : queue[i] # "START"))
    BY <1>2, Zenon DEF Handler, HandleStart, HandleGotIp, HandleDisconnected, HandlerConnects,
                       HandlerLoadsRetry, HandlerStoresRetry, HandlerFails, SetBit
  <2>3. early' \in BOOLEAN
    BY <2>2, Zenon DEF Flags
  <2> QED BY <2>1, <2>3, Zenon DEF Flags
<1>3. CASE Undesire \/ Desire
  BY <1>3, Zenon DEF Undesire, Desire, Flags
<1>4. CASE WaitBits
  <2>1. failed' \in BOOLEAN
    <3>1. failed' = ("FAIL" \in bits)
      BY <1>4, Zenon DEF WaitBits
    <3>2. ("FAIL" \in bits) \in BOOLEAN
      OBVIOUS
    <3> QED BY <3>1, <3>2, Zenon
  <2> QED BY <2>1, <1>4, Zenon DEF WaitBits, Flags
<1>5. CASE TakeNotification \/ WifiDisconnect \/ WifiStop \/ ResetRetry \/ WifiStart \/ ClearBits
  BY <1>0, <1>5, Zenon DEF TakeNotification, WifiDisconnect, WifiStop, ResetRetry, WifiStart,
                     ClearBits, Flags
<1>6. CASE StationFailed \/ OpenSocket \/ Dial \/ Send \/ Recv
  BY <1>0, <1>6, Zenon DEF StationFailed, OpenSocket, Dial, Send, Recv, Fail, Flags
<1>7. CASE UNCHANGED vars
  BY <1>7, Zenon DEF vars, taskVars, Flags
<1> QED
  BY <1>1, <1>2, <1>3, <1>4, <1>5, <1>6, <1>7 DEF Next, Task

\* The client's variables keep their types: no socket is closed that is not open
\* (wifi_init_sta(), unlock_remote_lock(), wifi_event_handler()).
THEOREM TypesKept == Spec => []TypeOK
<1>1. Init => TypeInv /\ Flags
  <2>1. Init => TypeInv
    <3>1. ASSUME Init
          PROVE  /\ notify = 0 /\ task = "idle" /\ bits = {} /\ queue = <<>> /\ handler = "idle"
                 /\ radio = "off" /\ loaded = 0 /\ retry = 0 /\ sockets = 0 /\ leaks = 0
      BY <3>1, Zenon DEF Init
    <3> QED BY <3>1, SmartLockyAssumption DEF TypeInv, Events, SocketsAccounted
  <2>2. Init => Flags
    BY Zenon DEF Init, Flags, Screens
  <2> QED BY <2>1, <2>2, Zenon
<1>2. TypeInv /\ [Next]_vars => TypeInv'
  <2> SUFFICES ASSUME TypeInv, [Next]_vars PROVE TypeInv'
    OBVIOUS
  <2>1. CASE Click \/ Connects \/ Disconnects
    BY <2>1, RadioTypeInv
  <2>2. CASE Handler
    BY <2>2, HandlerTypeInv
  <2>3. CASE Task \/ Dial \/ Send \/ Recv
    BY <2>3, TaskTypeInv
  <2>4. CASE UNCHANGED vars
    BY <2>4 DEF vars, taskVars, eventVars, netVars, TypeInv, SocketsAccounted
  <2> QED BY <2>1, <2>2, <2>3, <2>4 DEF Next
<1>3. TypeInv /\ Flags => TypeOK
  BY Zenon DEF TypeInv, Flags, Screens, Events, TypeOK
<1> QED BY <1>1, <1>2, <1>3, FlagsKept, PTL DEF Spec

=============================================================================
