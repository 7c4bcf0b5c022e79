---------------------------- MODULE SshChannelProofs ----------------------------
(***************************************************************************)
(* Theorems about SshChannel, for any windows, packets and programs.       *)
(*                                                                         *)
(* What the two ends know of each other lies in the packets between them.  *)
(* So the invariant adds up what a queue carries (Adds) and says, for each *)
(* direction, what these sums come to: with the window that the sender     *)
(* knows of and the window on its way back, the data under way fits into   *)
(* the receiver's window (Window), and so on. A channel that is gone at    *)
(* one end is treated as if it were still there, had sent all it had to    *)
(* send and kept silent (Left), so that what is proved of two live ends    *)
(* serves for it too.                                                      *)
(*                                                                         *)
(* That the two programs see a pipe is proved on top of that: an end keeps *)
(* account of what its program wrote (Own), what it sent is what the other *)
(* program was given and what is under way (Given), and when one of the    *)
(* ends is gone both programs are through with the connection (Over).      *)
(***************************************************************************)
EXTENDS SshChannel, SequenceTheorems, TLAPS

PacketSet == [type : PacketTypes, n : Nat]
Queue == Seq(PacketSet)

Channel ==
  [st : {"none", "halfopen", "open"}, zombie : BOOLEAN, ready : BOOLEAN,
   frozen : BOOLEAN, closes : SUBSET Closes, pending_eof : BOOLEAN,
   out : Nat, backlog : Nat, sent : Nat, remwindow : Nat,
   locwindow : Int, locmaxwin : Nat, remlocwin : Int,
   throttle_state : {"THROTTLED", "UNTHROTTLING", "UNTHROTTLED"},
   throttling_conn : BOOLEAN, chanreqs : Seq(Nat), throttled : BOOLEAN,
   tx : Queue]

Program == [wrote : Nat, got : Nat, ended : BOOLEAN, sawEnd : BOOLEAN, broken : BOOLEAN]

-----------------------------------------------------------------------------
(* Sums over queues                                                         *)

\* What a packet adds to the data, the window, the requests or the answers under way.
Weighs(k, p) ==
  IF \/ k = "data" /\ p.type = "DATA"
     \/ k = "grant" /\ p.type \in {"WINDOW_ADJUST", "OPEN_CONFIRMATION"}
  THEN p.n
  ELSE IF \/ k = "request" /\ p.type = "REQUEST"
          \/ k = "failure" /\ p.type = "FAILURE"
       THEN 1 ELSE 0

\* The packets of q add up to v: g[i] is what they come to from the i-th on. At an EOF
\* no data is left.
Adds(q, k, v) ==
  \E g \in [1..Len(q) + 1 -> Nat] :
    /\ g[1] = v
    /\ g[Len(q) + 1] = 0
    /\ \A i \in 1..Len(q) : /\ g[i] = Weighs(k, q[i]) + g[i + 1]
                            /\ k = "data" /\ q[i].type = "EOF" => g[i] = 0

NoEof(q) == \A i \in 1..Len(q) : q[i].type # "EOF"

LEMMA PacketOf ==
  ASSUME NEW q \in Queue, NEW i \in 1..Len(q)
  PROVE  q[i] \in PacketSet /\ q[i].n \in Nat /\ q[i].type \in PacketTypes
<1>1. q[i] \in PacketSet
  BY DEF Queue
<1> QED
  BY <1>1 DEF PacketSet

LEMMA WeighsType ==
  ASSUME NEW p \in PacketSet, NEW k
  PROVE  Weighs(k, p) \in Nat
<1>1. p.n \in Nat
  BY DEF PacketSet
<1> QED
  BY <1>1 DEF Weighs

LEMMA AddsNothing ==
  ASSUME NEW q \in Queue, NEW k, \A i \in 1..Len(q) : Weighs(k, q[i]) = 0
  PROVE  Adds(q, k, 0)
<1> DEFINE g == [i \in 1..Len(q) + 1 |-> 0]
<1>1. Len(q) \in Nat
  BY DEF Queue
<1>2. g \in [1..Len(q) + 1 -> Nat] /\ \A i \in 1..Len(q) + 1 : g[i] = 0
  OBVIOUS
<1> HIDE DEF g
<1>3. \A i \in 1..Len(q) : i \in 1..Len(q) + 1 /\ i + 1 \in 1..Len(q) + 1
  BY <1>1
<1>4. g[1] = 0 /\ g[Len(q) + 1] = 0
  BY <1>1, <1>2
<1>5. \A i \in 1..Len(q) : g[i] = Weighs(k, q[i]) + g[i + 1] /\ g[i] = 0
  BY <1>2, <1>3
<1> QED
  BY <1>2, <1>4, <1>5, Zenon DEF Adds

LEMMA AddsConcat ==
  ASSUME NEW q \in Queue, NEW r \in Queue, NEW k, NEW u, NEW v,
         Adds(q, k, u), Adds(r, k, v), k = "data" /\ v # 0 => NoEof(q)
  PROVE  Adds(q \o r, k, u + v)
<1> DEFINE s == q \o r
           m == Len(q)
           n == Len(r)
<1>1. PICK g \in [1..m + 1 -> Nat] :
        /\ g[1] = u /\ g[m + 1] = 0
        /\ \A i \in 1..m : /\ g[i] = Weighs(k, q[i]) + g[i + 1]
                           /\ k = "data" /\ q[i].type = "EOF" => g[i] = 0
  BY Zenon DEF Adds
<1>2. PICK h \in [1..n + 1 -> Nat] :
        /\ h[1] = v /\ h[n + 1] = 0
        /\ \A i \in 1..n : /\ h[i] = Weighs(k, r[i]) + h[i + 1]
                           /\ k = "data" /\ r[i].type = "EOF" => h[i] = 0
  BY Zenon DEF Adds
<1>3. /\ s \in Queue /\ Len(s) = m + n /\ m \in Nat /\ n \in Nat
      /\ \A i \in 1..m : s[i] = q[i]
      /\ \A i \in (m + 1)..(m + n) : s[i] = r[i - m]
  BY DEF Queue
<1> HIDE DEF s, m, n
<1>4. u \in Nat /\ v \in Nat
  BY <1>1, <1>2, <1>3
<1> DEFINE f == [i \in 1..m + n + 1 |-> IF i <= m THEN g[i] + v ELSE h[i - m]]
<1>5. \A i \in 1..m + n + 1 : f[i] = IF i <= m THEN g[i] + v ELSE h[i - m]
  OBVIOUS
<1>6. \A i \in 1..m + 1 : g[i] \in Nat
  BY <1>1
<1>7. \A i \in 1..n + 1 : h[i] \in Nat
  BY <1>2
<1>8. f \in [1..m + n + 1 -> Nat]
  <2>1. ASSUME NEW i \in 1..m + n + 1
        PROVE  (IF i <= m THEN g[i] + v ELSE h[i - m]) \in Nat
    <3>1. CASE i <= m
      BY <1>3, <1>4, <1>6, <3>1
    <3>2. CASE ~(i <= m)
      <4>1. i - m \in 1..n + 1
        BY <1>3, <3>2
      <4> QED
        BY <1>7, <3>2, <4>1
    <3> QED
      BY <3>1, <3>2
  <2> QED
    BY <2>1
<1> HIDE DEF f
<1>9. \A i \in 1..m + 1 : f[i] = g[i] + v
  <2> SUFFICES ASSUME NEW i \in 1..m + 1 PROVE f[i] = g[i] + v
    OBVIOUS
  <2>1. i \in 1..m + n + 1
    BY <1>3
  <2>2. CASE i <= m
    BY <1>5, <2>1, <2>2
  <2>3. CASE i = m + 1
    <3>1. f[i] = h[1]
      <4>1. ~(i <= m) /\ i - m = 1
        BY <1>3, <2>3
      <4> QED
        BY <1>5, <2>1, <4>1
    <3> QED
      BY <1>1, <1>2, <1>4, <2>3, <3>1
  <2> QED
    BY <1>3, <2>2, <2>3
<1>10. \A i \in 1..n + 1 : f[m + i] = h[i]
  <2> SUFFICES ASSUME NEW i \in 1..n + 1 PROVE f[m + i] = h[i]
    OBVIOUS
  <2>1. m + i \in 1..m + n + 1 /\ ~(m + i <= m) /\ (m + i) - m = i
    BY <1>3
  <2> QED
    BY <1>5, <2>1
<1>11. f[1] = u + v
  BY <1>1, <1>3, <1>9
<1>12. f[m + n + 1] = 0
  <2>1. n + 1 \in 1..n + 1 /\ m + (n + 1) = m + n + 1
    BY <1>3
  <2> QED
    BY <1>2, <1>10, <2>1
<1>13. ASSUME NEW i \in 1..m + n
       PROVE  f[i] = Weighs(k, s[i]) + f[i + 1] /\ (k = "data" /\ s[i].type = "EOF" => f[i] = 0)
  <2>1. CASE i <= m
    <3>1. i \in 1..m /\ i \in 1..m + 1 /\ i + 1 \in 1..m + 1
      BY <1>3, <2>1
    <3>2. f[i] = g[i] + v /\ f[i + 1] = g[i + 1] + v /\ s[i] = q[i]
      BY <1>3, <1>9, <3>1
    <3>3. Weighs(k, q[i]) \in Nat /\ g[i] \in Nat /\ g[i + 1] \in Nat
      BY <1>6, <3>1, PacketOf, WeighsType DEF m
    <3>4. f[i] = Weighs(k, s[i]) + f[i + 1]
      <4>1. g[i] = Weighs(k, q[i]) + g[i + 1]
        BY <1>1, <3>1
      <4> HIDE DEF Weighs
      <4> QED
        BY <1>4, <3>2, <3>3, <4>1
    <3>5. k = "data" /\ s[i].type = "EOF" => f[i] = 0
      BY <1>1, <1>4, <3>1, <3>2, <3>3 DEF NoEof, m
    <3> QED
      BY <3>4, <3>5
  <2>2. CASE ~(i <= m)
    <3> DEFINE j == i - m
    <3>1. j \in 1..n /\ j \in 1..n + 1 /\ j + 1 \in 1..n + 1 /\ i = m + j /\ i + 1 = m + (j + 1)
          /\ i \in (m + 1)..(m + n)
      BY <1>3, <2>2
    <3>2. s[i] = r[j]
      BY <1>3, <3>1
    <3> HIDE DEF j
    <3>3. f[i] = h[j] /\ f[i + 1] = h[j + 1]
      BY <1>10, <3>1
    <3> QED
      BY <1>2, <3>1, <3>2, <3>3
  <2> QED
    BY <2>1, <2>2
<1>14. /\ f \in [1..Len(s) + 1 -> Nat] /\ f[Len(s) + 1] = 0
       /\ \A i \in 1..Len(s) : /\ f[i] = Weighs(k, s[i]) + f[i + 1]
                               /\ k = "data" /\ s[i].type = "EOF" => f[i] = 0
  <2>1. Len(s) = m + n
    BY <1>3
  <2> HIDE DEF Weighs
  <2> QED
    BY <1>8, <1>12, <1>13, <2>1, Zenon
<1>15. Adds(s, k, u + v)
  BY <1>11, <1>14, Zenon DEF Adds
<1> QED
  BY <1>15 DEF s

\* Taking the first packet off.
LEMMA AddsTail ==
  ASSUME NEW q \in Queue, q # <<>>, NEW k, NEW v, Adds(q, k, v)
  PROVE  /\ v \in Nat /\ Weighs(k, q[1]) \in Nat /\ Weighs(k, q[1]) <= v
         /\ Adds(Tail(q), k, v - Weighs(k, q[1]))
         /\ k = "data" /\ q[1].type = "EOF" => v = 0
<1> DEFINE r == Tail(q)
           n == Len(q)
<1>1. PICK g \in [1..n + 1 -> Nat] :
        /\ g[1] = v /\ g[n + 1] = 0
        /\ \A i \in 1..n : /\ g[i] = Weighs(k, q[i]) + g[i + 1]
                           /\ k = "data" /\ q[i].type = "EOF" => g[i] = 0
  BY Zenon DEF Adds
<1>2. n \in Nat \ {0} /\ r \in Queue /\ Len(r) = n - 1 /\ \A i \in 1..n - 1 : r[i] = q[i + 1]
  BY DEF Queue
<1> HIDE DEF r, n
<1>3. /\ g[1] \in Nat /\ g[2] \in Nat /\ g[1] = Weighs(k, q[1]) + g[2]
      /\ k = "data" /\ q[1].type = "EOF" => g[1] = 0
  BY <1>1, <1>2
<1>4. Weighs(k, q[1]) \in Nat
  BY <1>2, PacketOf, WeighsType DEF n
<1>5. v \in Nat /\ g[2] = v - Weighs(k, q[1]) /\ Weighs(k, q[1]) <= v
  BY <1>1, <1>3, <1>4
<1> DEFINE h == [i \in 1..n |-> g[i + 1]]
<1>6. h \in [1..n -> Nat] /\ \A i \in 1..n : h[i] = g[i + 1]
  BY <1>1, <1>2
<1> HIDE DEF h
<1>7. h[1] = g[2] /\ h[n] = 0
  BY <1>1, <1>2, <1>6
<1>8. ASSUME NEW i \in 1..n - 1
      PROVE  h[i] = Weighs(k, r[i]) + h[i + 1] /\ (k = "data" /\ r[i].type = "EOF" => h[i] = 0)
  <2>1. i \in 1..n /\ i + 1 \in 1..n
    BY <1>2
  <2>2. h[i] = g[i + 1] /\ h[i + 1] = g[i + 1 + 1] /\ r[i] = q[i + 1]
    BY <1>2, <1>6, <2>1
  <2> QED
    BY <1>1, <2>1, <2>2
<1>9. 1..Len(r) + 1 = 1..n /\ 1..Len(r) = 1..n - 1 /\ Len(r) + 1 = n
  BY <1>2
<1>10. /\ h \in [1..Len(r) + 1 -> Nat] /\ h[Len(r) + 1] = 0
       /\ \A i \in 1..Len(r) : /\ h[i] = Weighs(k, r[i]) + h[i + 1]
                               /\ k = "data" /\ r[i].type = "EOF" => h[i] = 0
  BY <1>6, <1>7, <1>8, <1>9
<1>11. Adds(r, k, g[2])
  BY <1>7, <1>10, Zenon DEF Adds
<1> QED
  BY <1>1, <1>3, <1>4, <1>5, <1>11 DEF r

LEMMA AddsOne ==
  ASSUME NEW p \in PacketSet, NEW k
  PROVE  <<p>> \in Queue /\ Adds(<<p>>, k, Weighs(k, p))
<1> DEFINE q == <<p>>
           g == [i \in 1..2 |-> IF i = 1 THEN Weighs(k, p) ELSE 0]
<1>1. q \in Queue /\ Len(q) = 1 /\ q[1] = p
  BY DEF Queue
<1>2. Weighs(k, p) \in Nat
  BY WeighsType
<1>3. g \in [1..2 -> Nat] /\ g[1] = Weighs(k, p) /\ g[2] = 0
  BY <1>2
<1>4. k = "data" /\ p.type = "EOF" => Weighs(k, p) = 0
  BY DEF Weighs
<1> HIDE DEF q, g
<1>5. \A i \in 1..1 : /\ g[i] = Weighs(k, q[i]) + g[i + 1]
                      /\ k = "data" /\ q[i].type = "EOF" => g[i] = 0
  <2> SUFFICES ASSUME NEW i \in 1..1
               PROVE  /\ g[i] = Weighs(k, q[i]) + g[i + 1]
                      /\ k = "data" /\ q[i].type = "EOF" => g[i] = 0
    OBVIOUS
  <2>1. i = 1
    OBVIOUS
  <2> QED
    BY <1>1, <1>2, <1>3, <1>4, <2>1
<1>6. Len(q) + 1 = 2 /\ 1..Len(q) = 1..1
  BY <1>1
<1>7. Adds(q, k, Weighs(k, p))
  BY <1>3, <1>5, <1>6, Zenon DEF Adds
<1> QED
  BY <1>1, <1>7 DEF q

-----------------------------------------------------------------------------
(* What the two ends of a channel know of each other                        *)

\* What the sender may send yet, the data under way and the window on its way back
\* fit into the receiver's window.
Window(q, back, rem, loc) ==
  \E d, a \in Nat : Adds(q, "data", d) /\ Adds(back, "grant", a) /\ rem + d + a <= loc

\* As many requests wait for an answer as are under way, or answers to them, or more.
Answered(q, back, n) ==
  \E r, f \in Nat : Adds(q, "request", r) /\ Adds(back, "failure", f) /\ r + f <= n

\* The order of the packets under way to a receiver in state st, by what either end
\* knows to be sent.
Stream(q, sender, receiver, st) ==
  /\ \A i \in 1..Len(q) :
       /\ q[i].type \notin {"CHANNEL_OPEN", "OPEN_FAILURE"}
       /\ q[i].type = "OPEN_CONFIRMATION" => i = 1 /\ st = "halfopen"
       /\ q[i].type = "EOF" => "SENT_EOF" \in sender
       /\ q[i].type = "EOF" => \A j \in (i + 1)..Len(q) : q[j].type \notin {"DATA", "EOF"}
       /\ q[i].type = "CLOSE" => i = Len(q) /\ "SENT_CLOSE" \in sender
       /\ q[i].type \in {"DATA", "EOF"} => "RCVD_EOF" \notin receiver
  /\ "RCVD_EOF" \in receiver => "SENT_EOF" \in sender
  /\ st = "halfopen" => q # <<>> /\ q[1].type = "OPEN_CONFIRMATION"

\* One direction, from x to y.
Towards(x, y) ==
  /\ Window(x.tx, y.tx, x.remwindow, y.locwindow)
  /\ Answered(x.tx, y.tx, Len(x.chanreqs))
  /\ Stream(x.tx, x.closes, y.closes, y.st)

Linked(x, y) == Towards(x, y) /\ Towards(y, x)

-----------------------------------------------------------------------------
(* ... and how it survives packets that are sent and taken                  *)

LEMMA WindowSends ==
  ASSUME NEW q \in Queue, NEW back \in Queue, NEW rem \in Nat, NEW loc \in Int,
         Window(q, back, rem, loc), NEW r \in Queue, NEW n, Adds(r, "data", n), n \in Nat,
         n # 0 => NoEof(q), NEW less \in Nat, less + n <= rem
  PROVE  Window(q \o r, back, less, loc)
<1>1. PICK d \in Nat, a \in Nat : Adds(q, "data", d) /\ Adds(back, "grant", a) /\ rem + d + a <= loc
  BY DEF Window
<1>2. Adds(q \o r, "data", d + n)
  BY <1>1, AddsConcat
<1>3. d + n \in Nat /\ less + (d + n) + a <= loc
  BY <1>1
<1> QED
  BY <1>1, <1>2, <1>3 DEF Window

LEMMA WindowGrants ==
  ASSUME NEW q \in Queue, NEW back \in Queue, NEW rem \in Nat, NEW loc \in Int,
         Window(q, back, rem, loc), NEW r \in Queue, NEW n, Adds(r, "grant", n), n \in Nat
  PROVE  Window(q, back \o r, rem, loc + n)
<1>1. PICK d \in Nat, a \in Nat : Adds(q, "data", d) /\ Adds(back, "grant", a) /\ rem + d + a <= loc
  BY DEF Window
<1>2. Adds(back \o r, "grant", a + n)
  BY <1>1, AddsConcat
<1>3. a + n \in Nat /\ rem + d + (a + n) <= loc + n
  BY <1>1
<1> QED
  BY <1>1, <1>2, <1>3 DEF Window

LEMMA WindowTakes ==
  ASSUME NEW q \in Queue, NEW back \in Queue, NEW rem \in Nat, NEW loc \in Int,
         Window(q, back, rem, loc), q # <<>>
  PROVE  /\ Weighs("data", q[1]) \in Nat /\ Weighs("data", q[1]) <= loc
         /\ Window(Tail(q), back, rem, loc - Weighs("data", q[1]))
<1>1. PICK d \in Nat, a \in Nat : Adds(q, "data", d) /\ Adds(back, "grant", a) /\ rem + d + a <= loc
  BY DEF Window
<1> DEFINE w == Weighs("data", q[1])
<1>2. w \in Nat /\ w <= d /\ Adds(Tail(q), "data", d - w)
  BY <1>1, AddsTail
<1> HIDE DEF w
<1>3. d - w \in Nat /\ rem + (d - w) + a <= loc - w /\ w <= loc
  BY <1>1, <1>2
<1>4. Window(Tail(q), back, rem, loc - w)
  BY <1>1, <1>2, <1>3 DEF Window
<1> QED
  BY <1>2, <1>3, <1>4 DEF w

LEMMA WindowTakesGrant ==
  ASSUME NEW q \in Queue, NEW back \in Queue, NEW rem \in Nat, NEW loc \in Int,
         Window(q, back, rem, loc), back # <<>>,
         NEW more \in Nat, more <= rem + Weighs("grant", back[1])
  PROVE  Window(q, Tail(back), more, loc)
<1>1. PICK d \in Nat, a \in Nat : Adds(q, "data", d) /\ Adds(back, "grant", a) /\ rem + d + a <= loc
  BY DEF Window
<1> DEFINE w == Weighs("grant", back[1])
<1>2. w \in Nat /\ w <= a /\ Adds(Tail(back), "grant", a - w)
  BY <1>1, AddsTail
<1>3. more <= rem + w
  OBVIOUS
<1> HIDE DEF w
<1>4. a - w \in Nat /\ more + d + (a - w) <= loc
  BY <1>1, <1>2, <1>3
<1> QED
  BY <1>1, <1>2, <1>4 DEF Window

LEMMA AnsweredSends ==
  ASSUME NEW q \in Queue, NEW back \in Queue, NEW n \in Nat, Answered(q, back, n),
         NEW r \in Queue, NEW k, Adds(r, "request", k), k \in Nat
  PROVE  Answered(q \o r, back, n + k)
<1>1. PICK s \in Nat, f \in Nat : Adds(q, "request", s) /\ Adds(back, "failure", f) /\ s + f <= n
  BY DEF Answered
<1>2. Adds(q \o r, "request", s + k)
  BY <1>1, AddsConcat
<1>3. s + k \in Nat /\ (s + k) + f <= n + k
  BY <1>1
<1> QED
  BY <1>1, <1>2, <1>3 DEF Answered

LEMMA AnsweredSilent ==
  ASSUME NEW q \in Queue, NEW back \in Queue, NEW n \in Nat, Answered(q, back, n),
         NEW r \in Queue, Adds(r, "failure", 0)
  PROVE  Answered(q, back \o r, n)
<1>1. PICK s \in Nat, f \in Nat : Adds(q, "request", s) /\ Adds(back, "failure", f) /\ s + f <= n
  BY DEF Answered
<1>2. Adds(back \o r, "failure", f + 0)
  BY <1>1, AddsConcat
<1>3. f + 0 = f
  BY <1>1
<1> QED
  BY <1>1, <1>2, <1>3 DEF Answered

LEMMA AnsweredTakes ==
  ASSUME NEW q \in Queue, NEW back \in Queue, NEW n \in Nat, Answered(q, back, n), q # <<>>
  PROVE  /\ Answered(Tail(q), back, n)
         /\ q[1].type = "REQUEST" =>
              \A r \in Queue : Adds(r, "failure", 1) => Answered(Tail(q), back \o r, n)
<1>1. PICK s \in Nat, f \in Nat : Adds(q, "request", s) /\ Adds(back, "failure", f) /\ s + f <= n
  BY DEF Answered
<1> DEFINE w == Weighs("request", q[1])
<1>2. w \in Nat /\ w <= s /\ Adds(Tail(q), "request", s - w)
  BY <1>1, AddsTail
<1>3. q[1].type = "REQUEST" => w = 1
  BY DEF Weighs
<1> HIDE DEF w
<1>4. s - w \in Nat /\ (s - w) + f <= n
  BY <1>1, <1>2
<1>5. Answered(Tail(q), back, n)
  BY <1>1, <1>2, <1>4 DEF Answered
<1>6. ASSUME q[1].type = "REQUEST", NEW r \in Queue, Adds(r, "failure", 1)
      PROVE  Answered(Tail(q), back \o r, n)
  <2>1. Adds(back \o r, "failure", f + 1)
    BY <1>1, <1>6, AddsConcat
  <2>2. f + 1 \in Nat /\ (s - w) + (f + 1) <= n
    BY <1>1, <1>2, <1>3, <1>6
  <2> QED
    BY <1>2, <1>4, <2>1, <2>2 DEF Answered
<1> QED
  BY <1>5, <1>6

LEMMA AnsweredTakesAnswer ==
  ASSUME NEW q \in Queue, NEW back \in Queue, NEW n \in Nat, Answered(q, back, n), back # <<>>
  PROVE  /\ Weighs("failure", back[1]) \in Nat /\ Weighs("failure", back[1]) <= n
         /\ Answered(q, Tail(back), n - Weighs("failure", back[1]))
<1>1. PICK s \in Nat, f \in Nat : Adds(q, "request", s) /\ Adds(back, "failure", f) /\ s + f <= n
  BY DEF Answered
<1> DEFINE w == Weighs("failure", back[1])
<1>2. w \in Nat /\ w <= f /\ Adds(Tail(back), "failure", f - w)
  BY <1>1, AddsTail
<1> HIDE DEF w
<1>3. f - w \in Nat /\ s + (f - w) <= n - w /\ w <= n
  BY <1>1, <1>2
<1>4. Answered(q, Tail(back), n - w)
  BY <1>1, <1>2, <1>3 DEF Answered
<1> QED
  BY <1>2, <1>3, <1>4 DEF w

LEMMA StreamSends ==
  ASSUME NEW q \in Queue, NEW sender, NEW receiver, NEW st, Stream(q, sender, receiver, st),
         NEW r \in Queue, NEW then, sender \subseteq then, "SENT_CLOSE" \notin sender,
         \A i \in 1..Len(r) :
           /\ r[i].type \notin {"CHANNEL_OPEN", "OPEN_FAILURE", "OPEN_CONFIRMATION"}
           /\ r[i].type \in {"DATA", "EOF"} => "SENT_EOF" \notin sender
           /\ r[i].type = "EOF" => i = Len(r) /\ "SENT_EOF" \in then
           /\ r[i].type = "CLOSE" => i = Len(r) /\ "SENT_CLOSE" \in then
  PROVE  Stream(q \o r, then, receiver, st)
<1> DEFINE s == q \o r
<1>1. /\ s \in Queue /\ Len(s) = Len(q) + Len(r) /\ Len(q) \in Nat /\ Len(r) \in Nat
      /\ \A i \in 1..Len(q) : s[i] = q[i]
      /\ \A k \in 1..Len(r) : s[Len(q) + k] = r[k]
  BY DEF Queue
<1>2. \A i \in 1..Len(s) : \/ i \in 1..Len(q) /\ s[i] = q[i]
                           \/ \E k \in 1..Len(r) : i = Len(q) + k /\ s[i] = r[k]
  <2> SUFFICES ASSUME NEW i \in 1..Len(s), i \notin 1..Len(q)
               PROVE  \E k \in 1..Len(r) : i = Len(q) + k /\ s[i] = r[k]
    BY <1>1
  <2>1. i - Len(q) \in 1..Len(r) /\ i = Len(q) + (i - Len(q))
    BY <1>1
  <2> QED
    BY <1>1, <2>1
<1> HIDE DEF s
<1>3. "RCVD_EOF" \in receiver => "SENT_EOF" \in sender
  BY DEF Stream
<1>4. ASSUME NEW i \in 1..Len(s)
      PROVE  /\ s[i].type \notin {"CHANNEL_OPEN", "OPEN_FAILURE"}
             /\ s[i].type = "OPEN_CONFIRMATION" => i = 1 /\ st = "halfopen"
             /\ s[i].type = "EOF" => "SENT_EOF" \in then
             /\ s[i].type = "EOF" => \A j \in (i + 1)..Len(s) : s[j].type \notin {"DATA", "EOF"}
             /\ s[i].type = "CLOSE" => i = Len(s) /\ "SENT_CLOSE" \in then
             /\ s[i].type \in {"DATA", "EOF"} => "RCVD_EOF" \notin receiver
  <2>1. CASE i \in 1..Len(q) /\ s[i] = q[i]
    <3>1. /\ q[i].type \notin {"CHANNEL_OPEN", "OPEN_FAILURE"}
          /\ q[i].type = "OPEN_CONFIRMATION" => i = 1 /\ st = "halfopen"
          /\ q[i].type = "EOF" => "SENT_EOF" \in sender
          /\ q[i].type = "EOF" => \A j \in (i + 1)..Len(q) : q[j].type \notin {"DATA", "EOF"}
          /\ q[i].type # "CLOSE"
          /\ q[i].type \in {"DATA", "EOF"} => "RCVD_EOF" \notin receiver
      BY <2>1 DEF Stream
    <3>2. ASSUME q[i].type = "EOF", NEW j \in (i + 1)..Len(s)
          PROVE  s[j].type \notin {"DATA", "EOF"}
      <4>1. j \in 1..Len(s)
        BY <1>1, <2>1
      <4>2. CASE j \in 1..Len(q) /\ s[j] = q[j]
        BY <1>1, <2>1, <3>1, <3>2, <4>2
      <4>3. ASSUME NEW k \in 1..Len(r), s[j] = r[k] PROVE s[j].type \notin {"DATA", "EOF"}
        BY <3>1, <3>2, <4>3
      <4> QED
        BY <1>2, <4>1, <4>2, <4>3
    <3> QED
      BY <2>1, <3>1, <3>2
  <2>2. ASSUME NEW k \in 1..Len(r), i = Len(q) + k, s[i] = r[k]
        PROVE  /\ s[i].type \notin {"CHANNEL_OPEN", "OPEN_FAILURE"}
               /\ s[i].type = "OPEN_CONFIRMATION" => i = 1 /\ st = "halfopen"
               /\ s[i].type = "EOF" => "SENT_EOF" \in then
               /\ s[i].type = "EOF" => \A j \in (i + 1)..Len(s) : s[j].type \notin {"DATA", "EOF"}
               /\ s[i].type = "CLOSE" => i = Len(s) /\ "SENT_CLOSE" \in then
               /\ s[i].type \in {"DATA", "EOF"} => "RCVD_EOF" \notin receiver
    <3>1. k = Len(r) => i = Len(s) /\ \A j \in (i + 1)..Len(s) : FALSE
      BY <1>1, <2>2
    <3> QED
      BY <1>3, <2>2, <3>1
  <2> QED
    BY <1>2, <2>1, <2>2
<1>5. st = "halfopen" => s # <<>> /\ s[1].type = "OPEN_CONFIRMATION"
  <2> SUFFICES ASSUME st = "halfopen" PROVE s # <<>> /\ s[1].type = "OPEN_CONFIRMATION"
    OBVIOUS
  <2>1. q # <<>> /\ q[1].type = "OPEN_CONFIRMATION"
    BY DEF Stream
  <2>2. Len(q) > 0
    BY <2>1 DEF Queue
  <2> QED
    BY <1>1, <2>1, <2>2
<1>6. Stream(s, then, receiver, st)
  BY <1>3, <1>4, <1>5 DEF Stream
<1> QED
  BY <1>6 DEF s

\* What is at the head of a queue.
LEMMA StreamHead ==
  ASSUME NEW q \in Queue, q # <<>>, NEW sender, NEW receiver, NEW st,
         Stream(q, sender, receiver, st)
  PROVE  /\ q[1].type \notin {"CHANNEL_OPEN", "OPEN_FAILURE"}
         /\ st = "halfopen" <=> q[1].type = "OPEN_CONFIRMATION"
         /\ q[1].type \in {"DATA", "EOF"} => "RCVD_EOF" \notin receiver
         /\ q[1].type = "EOF" => "SENT_EOF" \in sender
         /\ q[1].type = "CLOSE" => "SENT_CLOSE" \in sender /\ Tail(q) = <<>>
<1> DEFINE r == Tail(q)
           n == Len(q)
<1>1. n \in Nat \ {0} /\ 1 \in 1..n
  BY DEF Queue
<1>2. r \in Queue /\ Len(r) = n - 1 /\ \A i \in 1..n - 1 : r[i] = q[i + 1]
  BY <1>1 DEF Queue
<1>3. n = 1 => r = <<>>
  <2> HIDE DEF r
  <2>1. r \in Seq(PacketSet) /\ Len(r) = n - 1
    BY <1>2 DEF Queue
  <2> HIDE DEF n
  <2> QED
    BY <2>1, EmptySeq
<1>4. /\ \A i \in 1..n :
           /\ q[i].type \notin {"CHANNEL_OPEN", "OPEN_FAILURE"}
           /\ q[i].type = "OPEN_CONFIRMATION" => i = 1 /\ st = "halfopen"
           /\ q[i].type = "EOF" => "SENT_EOF" \in sender
           /\ q[i].type = "EOF" => \A j \in (i + 1)..n : q[j].type \notin {"DATA", "EOF"}
           /\ q[i].type = "CLOSE" => i = n /\ "SENT_CLOSE" \in sender
           /\ q[i].type \in {"DATA", "EOF"} => "RCVD_EOF" \notin receiver
      /\ "RCVD_EOF" \in receiver => "SENT_EOF" \in sender
      /\ st = "halfopen" => q # <<>> /\ q[1].type = "OPEN_CONFIRMATION"
  BY DEF Stream
<1> HIDE DEF r, n
<1>5. /\ q[1].type \notin {"CHANNEL_OPEN", "OPEN_FAILURE"}
      /\ st = "halfopen" <=> q[1].type = "OPEN_CONFIRMATION"
      /\ q[1].type \in {"DATA", "EOF"} => "RCVD_EOF" \notin receiver
      /\ q[1].type = "EOF" => "SENT_EOF" \in sender
      /\ q[1].type = "CLOSE" => "SENT_CLOSE" \in sender /\ r = <<>>
  BY <1>1, <1>3, <1>4
<1> QED
  BY <1>5 DEF r

\* What is left when it has been taken.
LEMMA StreamTakes ==
  ASSUME NEW q \in Queue, q # <<>>, NEW sender, NEW receiver, NEW st,
         Stream(q, sender, receiver, st), NEW then,
         then = receiver \cup (IF q[1].type = "EOF" THEN {"RCVD_EOF"} ELSE {})
  PROVE  Stream(Tail(q), sender, then, "open")
<1> DEFINE r == Tail(q)
           n == Len(q)
<1>1. n \in Nat \ {0} /\ 1 \in 1..n
  BY DEF Queue
<1>2. r \in Queue /\ Len(r) = n - 1 /\ \A i \in 1..n - 1 : r[i] = q[i + 1]
  BY <1>1 DEF Queue
<1>4. /\ \A i \in 1..n :
           /\ q[i].type \notin {"CHANNEL_OPEN", "OPEN_FAILURE"}
           /\ q[i].type = "OPEN_CONFIRMATION" => i = 1 /\ st = "halfopen"
           /\ q[i].type = "EOF" => "SENT_EOF" \in sender
           /\ q[i].type = "EOF" => \A j \in (i + 1)..n : q[j].type \notin {"DATA", "EOF"}
           /\ q[i].type = "CLOSE" => i = n /\ "SENT_CLOSE" \in sender
           /\ q[i].type \in {"DATA", "EOF"} => "RCVD_EOF" \notin receiver
      /\ "RCVD_EOF" \in receiver => "SENT_EOF" \in sender
      /\ st = "halfopen" => q # <<>> /\ q[1].type = "OPEN_CONFIRMATION"
  BY DEF Stream
<1> HIDE DEF r, n
<1>5. st = "halfopen" <=> q[1].type = "OPEN_CONFIRMATION"
  BY StreamHead
<1>6. "RCVD_EOF" \in then <=> "RCVD_EOF" \in receiver \/ q[1].type = "EOF"
  OBVIOUS
<1>7. ASSUME NEW i \in 1..n - 1
      PROVE  /\ r[i].type \notin {"CHANNEL_OPEN", "OPEN_FAILURE", "OPEN_CONFIRMATION"}
             /\ r[i].type = "EOF" => "SENT_EOF" \in sender
             /\ r[i].type = "EOF" => \A j \in (i + 1)..n - 1 : r[j].type \notin {"DATA", "EOF"}
             /\ r[i].type = "CLOSE" => i = n - 1 /\ "SENT_CLOSE" \in sender
             /\ r[i].type \in {"DATA", "EOF"} => "RCVD_EOF" \notin then
  <2>1. i + 1 \in 1..n /\ i + 1 # 1 /\ r[i] = q[i + 1]
    BY <1>1, <1>2
  <2>2. /\ r[i].type \notin {"CHANNEL_OPEN", "OPEN_FAILURE", "OPEN_CONFIRMATION"}
        /\ r[i].type = "EOF" => "SENT_EOF" \in sender
        /\ r[i].type = "CLOSE" => i = n - 1 /\ "SENT_CLOSE" \in sender
        /\ r[i].type \in {"DATA", "EOF"} => "RCVD_EOF" \notin receiver
    BY <1>1, <1>4, <2>1
  <2>3. ASSUME r[i].type = "EOF", NEW j \in (i + 1)..n - 1 PROVE r[j].type \notin {"DATA", "EOF"}
    <3>1. j + 1 \in (i + 1 + 1)..n /\ j \in 1..n - 1 /\ r[j] = q[j + 1]
      BY <1>1, <1>2
    <3> QED
      BY <1>4, <2>1, <2>3, <3>1
  <2>4. q[1].type = "EOF" => r[i].type \notin {"DATA", "EOF"}
    <3>1. i + 1 \in (1 + 1)..n
      BY <1>1
    <3> QED
      BY <1>1, <1>4, <2>1, <3>1
  <2> QED
    BY <1>6, <2>2, <2>3, <2>4
<1>8. Stream(r, sender, then, "open")
  BY <1>2, <1>4, <1>5, <1>6, <1>7 DEF Stream
<1> QED
  BY <1>8 DEF r

LEMMA StreamSame ==
  ASSUME NEW q, NEW sender, NEW receiver, NEW st, Stream(q, sender, receiver, st),
         NEW then, "RCVD_EOF" \in then <=> "RCVD_EOF" \in receiver
  PROVE  Stream(q, sender, then, st)
  BY DEF Stream

LEMMA ChannelType ==
  ASSUME NEW c \in Channel
  PROVE  /\ c.st \in {"none", "halfopen", "open"} /\ c.closes \subseteq Closes
         /\ c.out \in Nat /\ c.backlog \in Nat /\ c.sent \in Nat /\ c.remwindow \in Nat
         /\ c.locwindow \in Int /\ c.locmaxwin \in Nat /\ c.remlocwin \in Int
         /\ c.chanreqs \in Seq(Nat) /\ Len(c.chanreqs) \in Nat
         /\ c.tx \in Queue
         /\ c.zombie \in BOOLEAN /\ c.pending_eof \in BOOLEAN /\ c.throttled \in BOOLEAN
         /\ c.ready \in BOOLEAN /\ c.frozen \in BOOLEAN /\ c.throttling_conn \in BOOLEAN
         /\ c.throttle_state \in {"THROTTLED", "UNTHROTTLING", "UNTHROTTLED"}
<1>1. c.chanreqs \in Seq(Nat)
  BY DEF Channel
<1> QED
  BY <1>1 DEF Channel

\* The same channel, but for what it has sent.
SameButTx(c, d) ==
  /\ d.st = c.st /\ d.zombie = c.zombie /\ d.ready = c.ready /\ d.frozen = c.frozen
  /\ d.closes = c.closes /\ d.pending_eof = c.pending_eof /\ d.out = c.out
  /\ d.backlog = c.backlog /\ d.sent = c.sent /\ d.remwindow = c.remwindow
  /\ d.locwindow = c.locwindow /\ d.locmaxwin = c.locmaxwin /\ d.remlocwin = c.remlocwin
  /\ d.throttle_state = c.throttle_state /\ d.throttling_conn = c.throttling_conn
  /\ d.chanreqs = c.chanreqs /\ d.throttled = c.throttled

LEMMA PushFields ==
  ASSUME NEW c \in Channel, NEW type \in PacketTypes, NEW n \in Nat
  PROVE  LET p == Packet(type, n)
             d == Push(c, type, n)
         IN /\ p \in PacketSet /\ p.type = type /\ p.n = n
            /\ d \in Channel /\ d.tx = c.tx \o <<p>>
            /\ d.tx # <<>> /\ d.tx[Len(d.tx)] = p
            /\ SameButTx(c, d)
<1> DEFINE p == Packet(type, n)
           q == c.tx
<1>1. p \in PacketSet /\ p.type = type /\ p.n = n
  BY DEF Packet, PacketSet
<1>2. q \in Seq(PacketSet)
  BY ChannelType DEF Queue
<1>3. Push(c, type, n) = [c EXCEPT !.tx = Append(q, p)]
  BY DEF Push, Channel
<1> HIDE DEF p, q
<1>4. /\ Append(q, p) \in Seq(PacketSet) /\ Append(q, p) = q \o <<p>> /\ Append(q, p) # <<>>
      /\ Append(q, p)[Len(Append(q, p))] = p
  <2>1. Append(q, p) \in Seq(PacketSet) /\ Len(Append(q, p)) = Len(q) + 1 /\ Len(q) \in Nat
    BY <1>1, <1>2
  <2>2. Append(q, p)[Len(q) + 1] = p
    BY <1>1, <1>2
  <2>3. Append(q, p) = q \o <<p>>
    BY <1>1, <1>2, AppendIsConcat
  <2>4. Append(q, p) # <<>>
    BY <1>1, <1>2
  <2> QED
    BY <2>1, <2>2, <2>3, <2>4
<1> DEFINE r == Append(q, p)
<1> HIDE DEF r
<1>5. [c EXCEPT !.tx = r] \in Channel /\ [c EXCEPT !.tx = r].tx = r
  BY <1>4 DEF Channel, Queue, r
<1>6. SameButTx(c, [c EXCEPT !.tx = r])
  BY DEF Channel, SameButTx
<1> QED
  BY <1>1, <1>3, <1>4, <1>5, <1>6 DEF p, q, r

LEMMA LinkedBothWays ==
  ASSUME NEW x, NEW y
  PROVE  Linked(x, y) <=> Linked(y, x)
  BY DEF Linked

\* A change of what the far end never learns.
LEMMA LinkedSame ==
  ASSUME NEW c, NEW d, NEW y, Linked(c, y),
         d.st = c.st, d.tx = c.tx, d.closes = c.closes, d.remwindow = c.remwindow,
         d.locwindow = c.locwindow, d.chanreqs = c.chanreqs
  PROVE  Linked(d, y)
  BY DEF Linked, Towards

\* c becomes d and sends the packets r.
LEMMA LinkedSends ==
  ASSUME NEW c \in Channel, NEW d \in Channel, NEW y \in Channel, Linked(c, y),
         NEW r \in Queue, NEW n \in Nat, NEW a \in Nat, NEW k \in Nat,
         d.st = c.st, d.tx = c.tx \o r,
         Adds(r, "data", n), d.remwindow + n <= c.remwindow, n # 0 => "SENT_EOF" \notin c.closes,
         Adds(r, "grant", a), d.locwindow = c.locwindow + a,
         Adds(r, "request", k), Len(d.chanreqs) = Len(c.chanreqs) + k,
         Adds(r, "failure", 0),
         c.closes \subseteq d.closes, "RCVD_EOF" \in d.closes => "RCVD_EOF" \in c.closes,
         "SENT_CLOSE" \notin c.closes,
         \A i \in 1..Len(r) :
           /\ r[i].type \notin {"CHANNEL_OPEN", "OPEN_FAILURE", "OPEN_CONFIRMATION"}
           /\ r[i].type \in {"DATA", "EOF"} => "SENT_EOF" \notin c.closes
           /\ r[i].type = "EOF" => i = Len(r) /\ "SENT_EOF" \in d.closes
           /\ r[i].type = "CLOSE" => i = Len(r) /\ "SENT_CLOSE" \in d.closes
  PROVE  Linked(d, y)
<1>1. /\ c.tx \in Queue /\ y.tx \in Queue /\ c.remwindow \in Nat /\ y.remwindow \in Nat
      /\ c.locwindow \in Int /\ y.locwindow \in Int /\ Len(c.chanreqs) \in Nat
      /\ Len(y.chanreqs) \in Nat /\ d.remwindow \in Nat
  BY ChannelType
<1>2. /\ Window(c.tx, y.tx, c.remwindow, y.locwindow)
      /\ Answered(c.tx, y.tx, Len(c.chanreqs))
      /\ Stream(c.tx, c.closes, y.closes, y.st)
      /\ Window(y.tx, c.tx, y.remwindow, c.locwindow)
      /\ Answered(y.tx, c.tx, Len(y.chanreqs))
      /\ Stream(y.tx, y.closes, c.closes, c.st)
  BY DEF Linked, Towards
<1>3. n # 0 => NoEof(c.tx)
  BY <1>2 DEF Stream, NoEof
<1>4. Window(c.tx \o r, y.tx, d.remwindow, y.locwindow)
  BY <1>1, <1>2, <1>3, WindowSends
<1>5. Answered(c.tx \o r, y.tx, Len(d.chanreqs))
  BY <1>1, <1>2, AnsweredSends
<1>6. Stream(c.tx \o r, d.closes, y.closes, y.st)
  BY <1>1, <1>2, StreamSends
<1>7. Window(y.tx, c.tx \o r, y.remwindow, d.locwindow)
  BY <1>1, <1>2, WindowGrants
<1>8. Answered(y.tx, c.tx \o r, Len(y.chanreqs))
  BY <1>1, <1>2, AnsweredSilent
<1>9. Stream(y.tx, y.closes, d.closes, d.st)
  BY <1>2, StreamSame
<1> QED
  BY <1>4, <1>5, <1>6, <1>7, <1>8, <1>9 DEF Linked, Towards

\* y without the packet that c takes.
Taken(y) == [y EXCEPT !.tx = Tail(@)]

LEMMA TakenType ==
  ASSUME NEW y \in Channel, y.tx # <<>>
  PROVE  /\ Taken(y) \in Channel /\ Taken(y).tx = Tail(y.tx) /\ Taken(y).st = y.st
         /\ Taken(y).remwindow = y.remwindow /\ Taken(y).locwindow = y.locwindow
         /\ Taken(y).closes = y.closes /\ Taken(y).chanreqs = y.chanreqs
         /\ Taken(y).zombie = y.zombie /\ Taken(y).sent = y.sent /\ Taken(y).out = y.out
<1>1. Tail(y.tx) \in Queue
  BY ChannelType DEF Queue
<1> QED
  BY <1>1 DEF Taken, Channel

\* What c may count on of the packet that has come.
LEMMA LinkedHead ==
  ASSUME NEW c \in Channel, NEW y \in Channel, Linked(c, y), y.tx # <<>>
  PROVE  LET p == y.tx[1]
         IN /\ p \in PacketSet
            /\ p.type \notin {"CHANNEL_OPEN", "OPEN_FAILURE"}
            /\ c.st = "halfopen" <=> p.type = "OPEN_CONFIRMATION"
            /\ p.type \in {"DATA", "EOF"} => "RCVD_EOF" \notin c.closes
            /\ p.type = "EOF" => "SENT_EOF" \in y.closes
            /\ p.type = "CLOSE" => "SENT_CLOSE" \in y.closes /\ Tail(y.tx) = <<>>
            /\ p.type = "DATA" => p.n <= c.locwindow
            /\ p.type = "FAILURE" => c.chanreqs # <<>>
<1> DEFINE q == y.tx
           p == q[1]
<1>1. /\ q \in Queue /\ c.tx \in Queue /\ y.remwindow \in Nat /\ c.locwindow \in Int
      /\ Len(c.chanreqs) \in Nat /\ c.chanreqs \in Seq(Nat)
  BY ChannelType
<1>2. /\ Window(q, c.tx, y.remwindow, c.locwindow)
      /\ Answered(c.tx, q, Len(c.chanreqs))
      /\ Stream(q, y.closes, c.closes, c.st)
      /\ q # <<>>
  BY DEF Linked, Towards
<1> HIDE DEF q
<1>3. q[1] \in PacketSet
  <2>1. 1 \in 1..Len(q)
    BY <1>1, <1>2 DEF Queue
  <2> QED
    BY <1>1, <2>1, PacketOf
<1>4. Weighs("data", q[1]) <= c.locwindow
  BY <1>1, <1>2, WindowTakes
<1>5. q[1].type = "DATA" => q[1].n <= c.locwindow
  BY <1>4 DEF Weighs
<1>6. Weighs("failure", q[1]) <= Len(c.chanreqs)
  BY <1>1, <1>2, AnsweredTakesAnswer
<1>7. q[1].type = "FAILURE" => c.chanreqs # <<>>
  <2>1. q[1].type = "FAILURE" => 1 <= Len(c.chanreqs)
    BY <1>6 DEF Weighs
  <2>2. c.chanreqs = <<>> => Len(c.chanreqs) = 0
    OBVIOUS
  <2> QED
    BY <2>1, <2>2
<1>8. /\ q[1].type \notin {"CHANNEL_OPEN", "OPEN_FAILURE"}
      /\ c.st = "halfopen" <=> q[1].type = "OPEN_CONFIRMATION"
      /\ q[1].type \in {"DATA", "EOF"} => "RCVD_EOF" \notin c.closes
      /\ q[1].type = "EOF" => "SENT_EOF" \in y.closes
      /\ q[1].type = "CLOSE" => "SENT_CLOSE" \in y.closes /\ Tail(q) = <<>>
  BY <1>1, <1>2, StreamHead
<1> QED
  BY <1>3, <1>5, <1>7, <1>8 DEF q

\* c takes the packet and becomes d.
LEMMA LinkedTakes ==
  ASSUME NEW c \in Channel, NEW d \in Channel, NEW y \in Channel, Linked(c, y), y.tx # <<>>,
         d.st = "open", d.tx = c.tx,
         d.remwindow <= c.remwindow + Weighs("grant", y.tx[1]),
         d.locwindow = c.locwindow - Weighs("data", y.tx[1]),
         Len(d.chanreqs) = Len(c.chanreqs) - Weighs("failure", y.tx[1]),
         d.closes = c.closes \cup (IF y.tx[1].type = "EOF" THEN {"RCVD_EOF"} ELSE {})
  PROVE  Linked(d, Taken(y))
<1> DEFINE e == Taken(y)
           q == y.tx
           r == Tail(q)
<1>1. /\ c.tx \in Queue /\ y.tx \in Queue /\ c.remwindow \in Nat /\ y.remwindow \in Nat
      /\ c.locwindow \in Int /\ y.locwindow \in Int /\ Len(c.chanreqs) \in Nat
      /\ Len(y.chanreqs) \in Nat /\ d.remwindow \in Nat /\ c.closes \subseteq Closes
  BY ChannelType
<1>2. /\ Window(c.tx, q, c.remwindow, y.locwindow)
      /\ Answered(c.tx, q, Len(c.chanreqs))
      /\ Stream(c.tx, c.closes, y.closes, y.st)
      /\ Window(q, c.tx, y.remwindow, c.locwindow)
      /\ Answered(q, c.tx, Len(y.chanreqs))
      /\ Stream(q, y.closes, c.closes, c.st)
  BY DEF Linked, Towards
<1>3. /\ e.tx = r /\ e.st = y.st /\ e.remwindow = y.remwindow /\ e.locwindow = y.locwindow
      /\ e.closes = y.closes /\ e.chanreqs = y.chanreqs
  BY TakenType
<1>4. Window(c.tx, r, d.remwindow, y.locwindow)
  BY <1>1, <1>2, WindowTakesGrant
<1>5. Answered(c.tx, r, Len(d.chanreqs))
  BY <1>1, <1>2, AnsweredTakesAnswer
<1>6. Stream(c.tx, d.closes, y.closes, y.st)
  <2>1. c.closes \subseteq d.closes
    OBVIOUS
  <2> QED
    BY <1>2, <2>1 DEF Stream
<1>7. Window(r, c.tx, y.remwindow, d.locwindow)
  BY <1>1, <1>2, WindowTakes
<1>8. Answered(r, c.tx, Len(y.chanreqs))
  BY <1>1, <1>2, AnsweredTakes
<1>9. Stream(r, y.closes, d.closes, "open")
  BY <1>1, <1>2, StreamTakes
<1> HIDE DEF e, q, r
<1>10. Linked(d, e)
  BY <1>3, <1>4, <1>5, <1>6, <1>7, <1>8, <1>9 DEF Linked, Towards
<1> QED
  BY <1>10 DEF e

\* c takes a request and answers it.
LEMMA LinkedAnswers ==
  ASSUME NEW c \in Channel, NEW y \in Channel, Linked(c, y), y.tx # <<>>,
         y.tx[1].type = "REQUEST", "SENT_CLOSE" \notin c.closes, c.st = "open"
  PROVE  Linked(Push(c, "FAILURE", 0), Taken(y))
<1> DEFINE d == Push(c, "FAILURE", 0)
           e == Taken(y)
           q == y.tx
           r == Tail(q)
           p == Packet("FAILURE", 0)
           s == <<p>>
<1>1. /\ c.tx \in Queue /\ y.tx \in Queue /\ c.remwindow \in Nat /\ y.remwindow \in Nat
      /\ c.locwindow \in Int /\ y.locwindow \in Int /\ Len(c.chanreqs) \in Nat
      /\ Len(y.chanreqs) \in Nat /\ c.closes \subseteq Closes
  BY ChannelType
<1>2. /\ d.tx = c.tx \o s /\ d.st = c.st /\ d.remwindow = c.remwindow
      /\ d.locwindow = c.locwindow /\ d.closes = c.closes /\ d.chanreqs = c.chanreqs
  <2>1. d.tx = c.tx \o s /\ SameButTx(c, d)
    <3>1. "FAILURE" \in PacketTypes /\ 0 \in Nat
      BY DEF PacketTypes
    <3> QED
      BY <3>1, PushFields
  <2> HIDE DEF d
  <2> QED
    BY <2>1 DEF SameButTx
<1>3. p \in PacketSet /\ p.type = "FAILURE"
  BY DEF Packet, PacketSet, PacketTypes
<1>4. Linked(c, e)
  <2>1. /\ Weighs("grant", y.tx[1]) = 0 /\ Weighs("data", y.tx[1]) = 0
        /\ Weighs("failure", y.tx[1]) = 0
    BY DEF Weighs
  <2>2. /\ c.remwindow <= c.remwindow + 0 /\ c.locwindow = c.locwindow - 0
        /\ Len(c.chanreqs) = Len(c.chanreqs) - 0
    BY <1>1
  <2>3. c.closes = c.closes \cup (IF y.tx[1].type = "EOF" THEN {"RCVD_EOF"} ELSE {})
    OBVIOUS
  <2> HIDE DEF e
  <2> QED
    BY <2>1, <2>2, <2>3, LinkedTakes DEF e
<1>5. /\ e.tx = r /\ e.st = y.st /\ e.remwindow = y.remwindow /\ e.locwindow = y.locwindow
      /\ e.closes = y.closes /\ e.chanreqs = y.chanreqs /\ r \in Queue
  BY TakenType, <1>1 DEF Queue
<1>6. /\ s \in Queue /\ Adds(s, "data", Weighs("data", p)) /\ Adds(s, "grant", Weighs("grant", p))
      /\ Adds(s, "request", Weighs("request", p)) /\ Adds(s, "failure", Weighs("failure", p))
  BY <1>3, AddsOne
<1>7. /\ Weighs("data", p) = 0 /\ Weighs("grant", p) = 0 /\ Weighs("request", p) = 0
      /\ Weighs("failure", p) = 1
  BY <1>3 DEF Weighs
<1> HIDE DEF p, d, e
<1>8. /\ Window(c.tx, r, c.remwindow, y.locwindow)
      /\ Answered(c.tx, r, Len(c.chanreqs))
      /\ Stream(c.tx, c.closes, y.closes, y.st)
      /\ Window(r, c.tx, y.remwindow, c.locwindow)
      /\ Stream(r, y.closes, c.closes, c.st)
  BY <1>4, <1>5 DEF Linked, Towards
<1>9. Answered(q, c.tx, Len(y.chanreqs))
  BY DEF Linked, Towards
<1>10. \A i \in 1..Len(s) : s[i].type = "FAILURE"
  BY <1>3
<1>11. Adds(s, "data", 0) /\ Adds(s, "grant", 0) /\ Adds(s, "request", 0) /\ Adds(s, "failure", 1)
  BY <1>6, <1>7
<1>12. s \in Queue
  BY <1>6
<1> HIDE DEF s, q, r
<1>13. r \in Queue /\ q \in Queue
  BY <1>1, <1>5 DEF q
<1>14. Window(c.tx \o s, r, c.remwindow, y.locwindow)
  <2>1. c.remwindow + 0 <= c.remwindow
    BY <1>1
  <2> QED
    BY <1>1, <1>8, <1>11, <1>12, <1>13, <2>1, WindowSends
<1>15. Answered(c.tx \o s, r, Len(c.chanreqs))
  <2>1. Len(c.chanreqs) + 0 = Len(c.chanreqs)
    BY <1>1
  <2> QED
    BY <1>1, <1>8, <1>11, <1>12, <1>13, <2>1, AnsweredSends
<1>16. Stream(c.tx \o s, c.closes, y.closes, y.st)
  BY <1>1, <1>8, <1>10, <1>12, StreamSends
<1>17. Window(r, c.tx \o s, y.remwindow, c.locwindow)
  <2>1. c.locwindow + 0 = c.locwindow
    BY <1>1
  <2> QED
    BY <1>1, <1>8, <1>11, <1>12, <1>13, <2>1, WindowGrants
<1>18. Answered(r, c.tx \o s, Len(y.chanreqs))
  BY <1>1, <1>9, <1>11, <1>12, <1>13, AnsweredTakes DEF q, r
<1>19. Linked(d, e)
  BY <1>2, <1>5, <1>8, <1>14, <1>15, <1>16, <1>17, <1>18 DEF Linked, Towards
<1> QED
  BY <1>19 DEF d, e

-----------------------------------------------------------------------------
(* What holds at one end, and the operators of the channel                  *)

\* A channel that is there, and the program above it.
Local(c, pr) ==
  /\ c.st # "none"
  /\ c.st = "halfopen" =>
       /\ c.closes = {} /\ c.chanreqs = <<>> /\ c.remwindow = 0
       /\ c.locwindow = WinSize /\ c.backlog = 0
  /\ "SENT_CLOSE" \in c.closes =>
       "SENT_EOF" \in c.closes /\ c.chanreqs = <<>> /\ (c.zombie \/ "RCVD_EOF" \in c.closes)
  /\ c.pending_eof => "SENT_EOF" \notin c.closes /\ ~c.zombie
  /\ c.pending_eof \/ "SENT_EOF" \in c.closes => pr.ended \/ c.zombie
  /\ c.locwindow >= 0 /\ c.locwindow + c.backlog <= c.locmaxwin /\ ~c.throttling_conn
  /\ c.st = "open" /\ ~c.zombie /\ ~c.throttled /\ ~c.pending_eof /\ "SENT_EOF" \notin c.closes
       => ~c.frozen

EndsInClose(q) == q # <<>> /\ q[Len(q)].type = "CLOSE"

\* What becomes of a channel by its own doing: what was sent stays, and CLOSE is the
\* last that is sent.
Follows(c, d) ==
  /\ d.st = c.st
  /\ c.st = "halfopen" => d.tx = c.tx
  /\ "SENT_CLOSE" \in c.closes => "SENT_CLOSE" \in d.closes /\ d.tx = c.tx
  /\ "SENT_CLOSE" \in d.closes => "SENT_CLOSE" \in c.closes \/ EndsInClose(d.tx)

LEMMA FollowsTrans ==
  ASSUME NEW c, NEW d, NEW e, Follows(c, d), Follows(d, e)
  PROVE  Follows(c, e)
  BY DEF Follows

LEMMA FollowsSame ==
  ASSUME NEW c, NEW d, d.st = c.st, d.tx = c.tx, d.closes = c.closes
  PROVE  Follows(c, d)
  BY DEF Follows

\* What a channel says to a far end y, with pr above it.
Sound(c, y, pr) == c \in Channel /\ Local(c, pr) /\ Linked(c, y)

\* Sending one packet that carries no window.
LEMMA LinkedPush ==
  ASSUME NEW c \in Channel, NEW y \in Channel, Linked(c, y), NEW type \in {"EOF", "CLOSE"},
         NEW m \in Channel, m.st = c.st, m.tx = c.tx, m.remwindow = c.remwindow,
         m.locwindow = c.locwindow, m.chanreqs = c.chanreqs,
         c.closes \subseteq m.closes, "RCVD_EOF" \in m.closes => "RCVD_EOF" \in c.closes,
         "SENT_CLOSE" \notin c.closes,
         type = "EOF" => "SENT_EOF" \notin c.closes /\ "SENT_EOF" \in m.closes,
         type = "CLOSE" => "SENT_CLOSE" \in m.closes
  PROVE  /\ Push(m, type, 0) \in Channel
         /\ SameButTx(m, Push(m, type, 0))
         /\ Linked(Push(m, type, 0), y)
         /\ Push(m, type, 0).tx # <<>>
         /\ Push(m, type, 0).tx[Len(Push(m, type, 0).tx)].type = type
<1> DEFINE d == Push(m, type, 0)
           p == Packet(type, 0)
           s == <<p>>
<1>1. /\ p \in PacketSet /\ p.type = type
      /\ d \in Channel /\ d.tx = c.tx \o s /\ d.tx # <<>> /\ d.tx[Len(d.tx)] = p
      /\ SameButTx(m, d)
  <2>1. type \in PacketTypes /\ 0 \in Nat
    BY DEF PacketTypes
  <2>2. /\ p \in PacketSet /\ p.type = type /\ d \in Channel /\ d.tx = m.tx \o s /\ d.tx # <<>>
        /\ d.tx[Len(d.tx)] = p /\ SameButTx(m, d)
    BY ONLY <2>1, m \in Channel, PushFields
  <2> QED
    BY <2>2
<1>2. /\ s \in Queue /\ Adds(s, "data", Weighs("data", p)) /\ Adds(s, "grant", Weighs("grant", p))
      /\ Adds(s, "request", Weighs("request", p)) /\ Adds(s, "failure", Weighs("failure", p))
  BY <1>1, AddsOne
<1>3. /\ Weighs("data", p) = 0 /\ Weighs("grant", p) = 0 /\ Weighs("request", p) = 0
      /\ Weighs("failure", p) = 0
  BY <1>1 DEF Weighs
<1>4. \A i \in 1..Len(s) : s[i].type = type /\ i = Len(s)
  BY <1>1
<1>5. /\ c.remwindow \in Nat /\ c.locwindow \in Int /\ Len(c.chanreqs) \in Nat
  BY ChannelType
<1> HIDE DEF d, p
<1>6. /\ d.st = c.st /\ d.remwindow = c.remwindow /\ d.locwindow = c.locwindow
      /\ d.chanreqs = c.chanreqs /\ d.closes = m.closes
  BY <1>1 DEF SameButTx
<1>7. /\ Adds(s, "data", 0) /\ Adds(s, "grant", 0) /\ Adds(s, "request", 0)
      /\ Adds(s, "failure", 0) /\ s \in Queue
  BY <1>2, <1>3
<1> HIDE DEF s
<1>8. /\ 0 \in Nat /\ d.remwindow + 0 <= c.remwindow /\ d.locwindow = c.locwindow + 0
      /\ Len(d.chanreqs) = Len(c.chanreqs) + 0
  BY <1>5, <1>6
<1>9. \A i \in 1..Len(s) :
         /\ s[i].type \notin {"CHANNEL_OPEN", "OPEN_FAILURE", "OPEN_CONFIRMATION"}
         /\ s[i].type \in {"DATA", "EOF"} => "SENT_EOF" \notin c.closes
         /\ s[i].type = "EOF" => i = Len(s) /\ "SENT_EOF" \in d.closes
         /\ s[i].type = "CLOSE" => i = Len(s) /\ "SENT_CLOSE" \in d.closes
  BY <1>4, <1>6
<1>10. Linked(d, y)
  BY <1>1, <1>6, <1>7, <1>8, <1>9, LinkedSends
<1> QED
  BY <1>1, <1>10 DEF d

LEMMA CheckCloseKeeps ==
  ASSUME NEW c, NEW y \in Channel, NEW pr, Sound(c, y, pr)
  PROVE  /\ Sound(ssh2_channel_check_close(c), y, pr)
         /\ Follows(c, ssh2_channel_check_close(c))
<1> DEFINE m == [c EXCEPT !.closes = @ \cup {"SENT_EOF", "SENT_CLOSE"}]
           d == Push(m, "CLOSE", 0)
<1>1. c \in Channel /\ Linked(c, y) /\ Local(c, pr)
  BY DEF Sound
<1>2. CASE ~(c.st = "open" /\ "SENT_CLOSE" \notin c.closes /\ c.chanreqs = <<>> /\ WantClose(c))
  <2>1. ssh2_channel_check_close(c) = c
    BY <1>2 DEF ssh2_channel_check_close
  <2> QED
    BY <2>1, FollowsSame
<1>3. CASE c.st = "open" /\ "SENT_CLOSE" \notin c.closes /\ c.chanreqs = <<>> /\ WantClose(c)
  <2>1. ssh2_channel_check_close(c) = d
    BY <1>3 DEF ssh2_channel_check_close
  <2>2. /\ m \in Channel /\ m.closes = c.closes \cup {"SENT_EOF", "SENT_CLOSE"}
        /\ m.st = c.st /\ m.tx = c.tx /\ m.remwindow = c.remwindow /\ m.locwindow = c.locwindow
        /\ m.chanreqs = c.chanreqs
    BY <1>1 DEF Channel, Closes
  <2>3. /\ m.zombie = c.zombie /\ m.pending_eof = c.pending_eof /\ m.backlog = c.backlog
        /\ m.locmaxwin = c.locmaxwin /\ m.throttling_conn = c.throttling_conn
    BY <1>1 DEF Channel
  <2> HIDE DEF m
  <2>4. /\ d \in Channel /\ SameButTx(m, d) /\ Linked(d, y)
        /\ d.tx # <<>> /\ d.tx[Len(d.tx)].type = "CLOSE"
    BY <1>1, <1>3, <2>2, LinkedPush
  <2> HIDE DEF d
  <2>5. Local(d, pr)
    <3>1. c.zombie \/ {"SENT_EOF", "RCVD_EOF"} \subseteq c.closes
      BY <1>3 DEF WantClose
    <3>2. /\ d.st = c.st /\ d.closes = c.closes \cup {"SENT_EOF", "SENT_CLOSE"} /\ d.chanreqs = c.chanreqs
          /\ d.zombie = c.zombie /\ d.pending_eof = c.pending_eof /\ d.locwindow = c.locwindow
          /\ d.backlog = c.backlog /\ d.locmaxwin = c.locmaxwin /\ d.throttling_conn = c.throttling_conn
      BY <2>2, <2>3, <2>4 DEF SameButTx
    <3> QED
      BY <1>1, <1>3, <3>1, <3>2 DEF Local
  <2>6. Follows(c, d)
    <3>1. d.st = c.st
      BY <2>2, <2>4 DEF SameButTx
    <3> QED
      BY <1>3, <2>4, <3>1 DEF Follows, EndsInClose
  <2> QED
    BY <2>1, <2>4, <2>5, <2>6 DEF Sound
<1> QED
  BY <1>2, <1>3

\* Called when an EOF is pending.
LEMMA TryEofKeeps ==
  ASSUME NEW c, NEW y \in Channel, NEW pr, Sound(c, y, pr), c.pending_eof
  PROVE  /\ Sound(ssh2_channel_try_eof(c), y, pr)
         /\ Follows(c, ssh2_channel_try_eof(c))
<1> DEFINE m == [c EXCEPT !.pending_eof = FALSE, !.closes = @ \cup {"SENT_EOF"}]
           d == Push(m, "EOF", 0)
<1>1. c \in Channel /\ Linked(c, y) /\ Local(c, pr)
  BY DEF Sound
<1>2. CASE c.st = "halfopen" \/ c.out > 0
  <2>1. ssh2_channel_try_eof(c) = c
    BY <1>2 DEF ssh2_channel_try_eof
  <2> QED
    BY <2>1, FollowsSame
<1>3. CASE ~(c.st = "halfopen" \/ c.out > 0)
  <2>1. ssh2_channel_try_eof(c) = ssh2_channel_check_close(d)
    BY <1>3 DEF ssh2_channel_try_eof
  <2>2. /\ m \in Channel /\ m.closes = c.closes \cup {"SENT_EOF"}
        /\ m.st = c.st /\ m.tx = c.tx /\ m.remwindow = c.remwindow /\ m.locwindow = c.locwindow
        /\ m.chanreqs = c.chanreqs
    BY <1>1 DEF Channel, Closes
  <2>3. /\ m.zombie = c.zombie /\ m.pending_eof = FALSE /\ m.backlog = c.backlog
        /\ m.locmaxwin = c.locmaxwin /\ m.throttling_conn = c.throttling_conn
    BY <1>1 DEF Channel
  <2> HIDE DEF m
  <2>4. "SENT_EOF" \notin c.closes /\ "SENT_CLOSE" \notin c.closes
    BY <1>1 DEF Local
  <2>5. /\ d \in Channel /\ SameButTx(m, d) /\ Linked(d, y)
        /\ d.tx # <<>> /\ d.tx[Len(d.tx)].type = "EOF"
    BY <1>1, <1>3, <2>2, <2>4, LinkedPush
  <2> HIDE DEF d
  <2>6. /\ d.st = c.st /\ d.closes = c.closes \cup {"SENT_EOF"} /\ d.chanreqs = c.chanreqs
        /\ d.zombie = c.zombie /\ d.pending_eof = FALSE /\ d.locwindow = c.locwindow
        /\ d.backlog = c.backlog /\ d.locmaxwin = c.locmaxwin /\ d.throttling_conn = c.throttling_conn
    BY <2>2, <2>3, <2>5 DEF SameButTx
  <2>7. Local(d, pr)
    BY <1>1, <1>3, <2>4, <2>6 DEF Local
  <2>8. Follows(c, d)
    BY <1>3, <2>4, <2>6 DEF Follows
  <2>9. Sound(d, y, pr)
    BY <2>5, <2>7 DEF Sound
  <2> QED
    BY <2>1, <2>8, <2>9, CheckCloseKeeps, FollowsTrans
<1> QED
  BY <1>2, <1>3

-----------------------------------------------------------------------------
(* Sending what is in the buffer                                            *)

LEMMA DivBounds ==
  ASSUME NEW a \in Nat, NEW b \in Nat \ {0}
  PROVE  a \div b \in Nat /\ (a \div b) * b <= a /\ a < (a \div b) * b + b
  BY Z3

LEMMA TimesIs ==
  ASSUME NEW i \in Nat, NEW j \in Nat, NEW b \in Nat
  PROVE  /\ i * b \in Nat /\ (i + 1) * b = i * b + b
         /\ i <= j => i * b <= j * b
  OBVIOUS

\* The loop of ssh2_try_send() cuts what it sends into packets that add up to it.
LEMMA PacketsAddUp ==
  ASSUME NEW total \in Nat, NEW count, count = (total + MaxPkt - 1) \div MaxPkt,
         NEW r, r = [i \in 1..count |-> Packet("DATA", Minimum(MaxPkt, total - (i - 1) * MaxPkt))]
  PROVE  /\ r \in Queue
         /\ \A i \in 1..Len(r) : r[i].type = "DATA"
         /\ Adds(r, "data", total)
<1>1. MaxPkt \in Nat \ {0} /\ total + MaxPkt - 1 \in Nat
  BY SshAssumption
<1>2. count \in Nat /\ count * MaxPkt <= total + MaxPkt - 1 /\ total + MaxPkt - 1 < count * MaxPkt + MaxPkt
  BY <1>1, DivBounds
<1> DEFINE sofar(i) == (i - 1) * MaxPkt
<1>3. \A i \in 1..count + 1 : sofar(i) \in Nat
  BY <1>1, <1>2, TimesIs
<1>4. \A i \in 1..count : sofar(i + 1) = sofar(i) + MaxPkt
  <2> SUFFICES ASSUME NEW i \in 1..count PROVE sofar(i + 1) = sofar(i) + MaxPkt
    OBVIOUS
  <2>1. i - 1 \in Nat /\ (i + 1) - 1 = (i - 1) + 1
    BY <1>2
  <2> QED
    BY <1>1, <2>1, TimesIs
<1>5. \A i \in 1..count : sofar(i) < total
  <2> SUFFICES ASSUME NEW i \in 1..count PROVE sofar(i) < total
    OBVIOUS
  <2>1. i - 1 \in Nat /\ (i - 1) + 1 <= count /\ (i - 1) + 1 \in Nat
    BY <1>2
  <2>2. sofar(i) + MaxPkt <= count * MaxPkt
    <3>1. ((i - 1) + 1) * MaxPkt <= count * MaxPkt
      BY ONLY <1>1, <1>2, <2>1, TimesIs
    <3>2. ((i - 1) + 1) * MaxPkt = sofar(i) + MaxPkt
      BY ONLY <1>1, <2>1, TimesIs
    <3> QED
      BY <3>1, <3>2
  <2>3. sofar(i) \in Nat /\ count * MaxPkt \in Nat
    BY <1>1, <1>2, <1>3, TimesIs
  <2> HIDE DEF sofar
  <2> QED
    BY <1>1, <1>2, <2>2, <2>3
<1>6. sofar(1) = 0 /\ sofar(count + 1) >= total
  <2>1. sofar(1) = 0
    BY <1>1
  <2>2. sofar(count + 1) = count * MaxPkt /\ count * MaxPkt \in Nat
    BY <1>1, <1>2, TimesIs
  <2> HIDE DEF sofar
  <2> QED
    BY <1>1, <1>2, <2>1, <2>2
<1>7. r = [i \in 1..count |-> Packet("DATA", Minimum(MaxPkt, total - sofar(i)))]
  OBVIOUS
<1> HIDE DEF sofar
<1> DEFINE size(i) == Minimum(MaxPkt, total - sofar(i))
           g == [i \in 1..count + 1 |-> total - Minimum(sofar(i), total)]
<1>8. \A i \in 1..count : size(i) \in Nat
  BY <1>1, <1>2, <1>3, <1>5 DEF Minimum
<1>9. \A i \in 1..count : Packet("DATA", size(i)) \in PacketSet
  BY <1>8 DEF Packet, PacketSet, PacketTypes
<1>10. r = [i \in 1..count |-> Packet("DATA", size(i))]
  BY <1>7
<1> HIDE DEF size
<1>11. r \in Queue /\ Len(r) = count
  BY <1>2, <1>9, <1>10 DEF Queue
<1>12. \A i \in 1..count : r[i].type = "DATA" /\ Weighs("data", r[i]) = size(i)
  BY <1>10 DEF Packet, Weighs
<1>13. g \in [1..count + 1 -> Nat] /\ \A i \in 1..count + 1 : g[i] = total - Minimum(sofar(i), total)
  <2>1. \A i \in 1..count + 1 : total - Minimum(sofar(i), total) \in Nat
    BY <1>3 DEF Minimum
  <2> QED
    BY <2>1
<1> HIDE DEF g
<1>14. g[1] = total /\ g[count + 1] = 0
  <2>1. 1 \in 1..count + 1 /\ count + 1 \in 1..count + 1
    BY <1>2
  <2>2. sofar(1) \in Nat /\ sofar(count + 1) \in Nat
    BY <1>3, <2>1
  <2> QED
    BY <1>6, <1>13, <2>1, <2>2 DEF Minimum
<1>15. ASSUME NEW i \in 1..count PROVE g[i] = size(i) + g[i + 1]
  <2>1. i \in 1..count + 1 /\ i + 1 \in 1..count + 1
    BY <1>2
  <2>2. sofar(i) \in Nat /\ sofar(i + 1) = sofar(i) + MaxPkt /\ sofar(i) < total
    BY <1>3, <1>4, <1>5, <2>1
  <2>3. g[i] = total - Minimum(sofar(i), total) /\ g[i + 1] = total - Minimum(sofar(i + 1), total)
    BY <1>13, <2>1
  <2> QED
    BY <1>1, <2>2, <2>3 DEF Minimum, size
<1>16. \A i \in 1..Len(r) : /\ g[i] = Weighs("data", r[i]) + g[i + 1]
                            /\ "data" = "data" /\ r[i].type = "EOF" => g[i] = 0
  BY <1>11, <1>12, <1>15
<1>17. g \in [1..Len(r) + 1 -> Nat] /\ g[Len(r) + 1] = 0
  BY <1>11, <1>13, <1>14
<1>18. Adds(r, "data", total)
  BY <1>14, <1>16, <1>17, Zenon DEF Adds
<1> QED
  BY <1>11, <1>12, <1>18

LEMMA SendBufferedIs ==
  ASSUME NEW c \in Channel
  PROVE  LET d == SendBuffered(c)
             total == Minimum(c.out, c.remwindow)
         IN /\ d \in Channel /\ total \in Nat
            /\ \E r \in Queue : /\ d.tx = c.tx \o r
                                /\ \A i \in 1..Len(r) : r[i].type = "DATA"
                                /\ Adds(r, "data", total)
            /\ d.out = c.out - total /\ d.sent = c.sent + total /\ d.remwindow = c.remwindow - total
            /\ SameButTx([c EXCEPT !.out = d.out, !.sent = d.sent, !.remwindow = d.remwindow], d)
<1> DEFINE total == Minimum(c.out, c.remwindow)
           count == (total + MaxPkt - 1) \div MaxPkt
           r == [i \in 1..count |-> Packet("DATA", Minimum(MaxPkt, total - (i - 1) * MaxPkt))]
           q == c.tx \o r
           d == [c EXCEPT !.tx = q, !.out = @ - total, !.sent = @ + total, !.remwindow = @ - total]
<1>1. /\ c.out \in Nat /\ c.remwindow \in Nat /\ c.sent \in Nat /\ c.tx \in Queue
  BY ChannelType
<1>2. total \in Nat /\ total <= c.out /\ total <= c.remwindow
  BY <1>1 DEF Minimum
<1>3. SendBuffered(c) = d
  BY DEF SendBuffered
<1> HIDE DEF total
<1>4. /\ r \in Queue
      /\ \A i \in 1..Len(r) : r[i].type = "DATA"
      /\ Adds(r, "data", total)
  BY <1>2, PacketsAddUp
<1> HIDE DEF r
<1>5. q \in Queue
  BY <1>1, <1>4 DEF Queue
<1> DEFINE out == c.out - total
           sent == c.sent + total
           rem == c.remwindow - total
<1>6. out \in Nat /\ sent \in Nat /\ rem \in Nat
  BY <1>1, <1>2
<1>7. d = [c EXCEPT !.tx = q, !.out = out, !.sent = sent, !.remwindow = rem]
  BY DEF Channel
<1> HIDE DEF q, out, sent, rem, d
<1>8. d \in Channel /\ d.tx = q /\ d.out = out /\ d.sent = sent /\ d.remwindow = rem
  BY <1>5, <1>6, <1>7 DEF Channel
<1>9. SameButTx([c EXCEPT !.out = out, !.sent = sent, !.remwindow = rem], d)
  BY <1>7 DEF Channel, SameButTx
<1> QED
  BY <1>2, <1>3, <1>4, <1>8, <1>9 DEF total, q, out, sent, rem

LEMMA SendBufferedKeeps ==
  ASSUME NEW c, NEW y \in Channel, NEW pr, Sound(c, y, pr), c.st = "open",
         "SENT_EOF" \notin c.closes
  PROVE  /\ Sound(SendBuffered(c), y, pr)
         /\ Follows(c, SendBuffered(c))
         /\ SendBuffered(c).pending_eof = c.pending_eof
         /\ SendBuffered(c).closes = c.closes
<1> DEFINE d == SendBuffered(c)
           total == Minimum(c.out, c.remwindow)
<1>1. c \in Channel /\ Linked(c, y) /\ Local(c, pr)
  BY DEF Sound
<1>2. "SENT_CLOSE" \notin c.closes
  BY <1>1 DEF Local
<1>3. /\ d \in Channel /\ total \in Nat
      /\ \E r \in Queue : /\ d.tx = c.tx \o r
                          /\ \A i \in 1..Len(r) : r[i].type = "DATA"
                          /\ Adds(r, "data", total)
      /\ d.remwindow = c.remwindow - total
      /\ SameButTx([c EXCEPT !.out = d.out, !.sent = d.sent, !.remwindow = d.remwindow], d)
  BY <1>1, SendBufferedIs
<1>4. PICK r \in Queue : /\ d.tx = c.tx \o r
                         /\ \A i \in 1..Len(r) : r[i].type = "DATA"
                         /\ Adds(r, "data", total)
  BY <1>3
<1>5. c.remwindow \in Nat /\ c.locwindow \in Int /\ Len(c.chanreqs) \in Nat
  BY <1>1, ChannelType
<1> HIDE DEF d, total
<1>6. /\ d.st = c.st /\ d.closes = c.closes /\ d.locwindow = c.locwindow /\ d.chanreqs = c.chanreqs
      /\ d.zombie = c.zombie /\ d.pending_eof = c.pending_eof /\ d.backlog = c.backlog
      /\ d.locmaxwin = c.locmaxwin /\ d.throttling_conn = c.throttling_conn
      /\ d.throttled = c.throttled /\ d.frozen = c.frozen
  BY <1>1, <1>3 DEF SameButTx, Channel
<1>7. /\ Adds(r, "grant", 0) /\ Adds(r, "request", 0) /\ Adds(r, "failure", 0)
  <2>1. \A k \in {"grant", "request", "failure"} : \A i \in 1..Len(r) : Weighs(k, r[i]) = 0
    BY <1>4 DEF Weighs
  <2> QED
    BY <2>1, AddsNothing
<1>8. /\ d.remwindow + total <= c.remwindow /\ d.locwindow = c.locwindow + 0
      /\ Len(d.chanreqs) = Len(c.chanreqs) + 0 /\ 0 \in Nat
  BY <1>3, <1>5, <1>6
<1>9. \A i \in 1..Len(r) :
        /\ r[i].type \notin {"CHANNEL_OPEN", "OPEN_FAILURE", "OPEN_CONFIRMATION"}
        /\ r[i].type \in {"DATA", "EOF"} => "SENT_EOF" \notin c.closes
        /\ r[i].type = "EOF" => i = Len(r) /\ "SENT_EOF" \in d.closes
        /\ r[i].type = "CLOSE" => i = Len(r) /\ "SENT_CLOSE" \in d.closes
  BY <1>4
<1>10. Linked(d, y)
  BY <1>1, <1>2, <1>3, <1>4, <1>6, <1>7, <1>8, <1>9, LinkedSends
<1>11. Local(d, pr)
  BY <1>1, <1>2, <1>6 DEF Local
<1>12. Follows(c, d)
  BY <1>2, <1>6 DEF Follows
<1> QED
  BY <1>3, <1>6, <1>10, <1>11, <1>12 DEF Sound, d

LEMMA WriteEofKeeps ==
  ASSUME NEW c, NEW y \in Channel, NEW pr, Sound(c, y, pr), pr.ended, ~c.zombie
  PROVE  /\ Sound(ssh2channel_write_eof(c), y, pr)
         /\ Follows(c, ssh2channel_write_eof(c))
<1>1. c \in Channel /\ Linked(c, y) /\ Local(c, pr)
  BY DEF Sound
<1>2. CASE "SENT_EOF" \in c.closes
  <2>1. ssh2channel_write_eof(c) = c
    BY <1>2 DEF ssh2channel_write_eof
  <2> QED
    BY <2>1, FollowsSame
<1>3. CASE "SENT_EOF" \notin c.closes
  <2> DEFINE m == [c EXCEPT !.pending_eof = TRUE]
  <2>1. ssh2channel_write_eof(c) = ssh2_channel_try_eof(m)
    BY <1>3 DEF ssh2channel_write_eof
  <2>2. /\ m \in Channel /\ m.closes = c.closes /\ m.pending_eof = TRUE
        /\ m.st = c.st /\ m.tx = c.tx /\ m.remwindow = c.remwindow /\ m.locwindow = c.locwindow
        /\ m.chanreqs = c.chanreqs
    BY <1>1 DEF Channel
  <2>3. /\ m.zombie = c.zombie /\ m.backlog = c.backlog
        /\ m.locmaxwin = c.locmaxwin /\ m.throttling_conn = c.throttling_conn
    BY <1>1 DEF Channel
  <2> HIDE DEF m
  <2>4. Local(m, pr)
    BY <1>1, <1>3, <2>2, <2>3 DEF Local
  <2>5. Linked(m, y)
    BY <1>1, <2>2, LinkedSame
  <2>6. Sound(m, y, pr) /\ m.pending_eof
    BY <2>2, <2>4, <2>5 DEF Sound
  <2>7. Follows(c, m)
    BY <2>2, FollowsSame
  <2> QED
    BY <2>1, <2>6, <2>7, TryEofKeeps, FollowsTrans
<1> QED
  BY <1>2, <1>3

LEMMA TrySendKeeps ==
  ASSUME NEW c, NEW y \in Channel, NEW pr, Sound(c, y, pr), "SENT_EOF" \notin c.closes
  PROVE  /\ Sound(ssh2_try_send(c), y, pr)
         /\ Follows(c, ssh2_try_send(c))
<1>1. c \in Channel /\ Linked(c, y) /\ Local(c, pr)
  BY DEF Sound
<1>2. CASE c.st = "halfopen"
  <2>1. ssh2_try_send(c) = c
    BY <1>2 DEF ssh2_try_send
  <2> QED
    BY <2>1, FollowsSame
<1>3. CASE c.st # "halfopen"
  <2> DEFINE d == SendBuffered(c)
  <2>1. c.st = "open"
    BY <1>1, <1>3, ChannelType DEF Local
  <2>2. Sound(d, y, pr) /\ Follows(c, d) /\ d.pending_eof = c.pending_eof
    BY <2>1, SendBufferedKeeps
  <2>3. ssh2_try_send(c) = IF c.pending_eof /\ c.out <= c.remwindow THEN ssh2_channel_try_eof(d) ELSE d
    BY <1>3, Zenon DEF ssh2_try_send
  <2> HIDE DEF d
  <2>4. CASE c.pending_eof /\ c.out <= c.remwindow
    <3>1. ssh2_try_send(c) = ssh2_channel_try_eof(d)
      BY <2>3, <2>4
    <3>2. d.pending_eof
      BY <2>2, <2>4
    <3> QED
      BY <2>2, <3>1, <3>2, TryEofKeeps, FollowsTrans
  <2>5. CASE ~(c.pending_eof /\ c.out <= c.remwindow)
    <3>1. ssh2_try_send(c) = d
      BY <2>3, <2>5
    <3> QED
      BY <2>2, <3>1
  <2> QED
    BY <2>4, <2>5
<1> QED
  BY <1>2, <1>3

\* A change that only the socket sees.
LEMMA FrozenKeeps ==
  ASSUME NEW c, NEW y \in Channel, NEW pr, Sound(c, y, pr), NEW frozen \in BOOLEAN,
         NEW throttled \in BOOLEAN,
         ~frozen \/ throttled \/ c.zombie \/ c.pending_eof \/ "SENT_EOF" \in c.closes,
         NEW d, d = [c EXCEPT !.frozen = frozen, !.throttled = throttled]
  PROVE  Sound(d, y, pr) /\ Follows(c, d)
<1>1. c \in Channel /\ Linked(c, y) /\ Local(c, pr)
  BY DEF Sound
<1>2. /\ d \in Channel /\ d.closes = c.closes
      /\ d.st = c.st /\ d.tx = c.tx /\ d.remwindow = c.remwindow /\ d.locwindow = c.locwindow
      /\ d.chanreqs = c.chanreqs
  BY <1>1 DEF Channel
<1>3. /\ d.zombie = c.zombie /\ d.backlog = c.backlog /\ d.pending_eof = c.pending_eof
      /\ d.locmaxwin = c.locmaxwin /\ d.throttling_conn = c.throttling_conn
      /\ d.frozen = frozen /\ d.throttled = throttled
  BY <1>1 DEF Channel
<1>4. Local(d, pr)
  BY <1>1, <1>2, <1>3 DEF Local
<1>5. Linked(d, y)
  BY <1>1, <1>2, LinkedSame
<1> QED
  BY <1>2, <1>4, <1>5, FollowsSame DEF Sound

LEMMA CheckThrottleKeeps ==
  ASSUME NEW c, NEW y \in Channel, NEW pr, Sound(c, y, pr)
  PROVE  /\ Sound(ssh2_channel_check_throttle(c), y, pr)
         /\ Follows(c, ssh2_channel_check_throttle(c))
<1>1. c \in Channel /\ Linked(c, y) /\ Local(c, pr)
  BY DEF Sound
<1>2. CASE c.zombie \/ c.st = "none"
  <2>1. ssh2_channel_check_throttle(c) = c
    BY <1>2 DEF ssh2_channel_check_throttle
  <2> QED
    BY <2>1, FollowsSame
<1>3. CASE ~(c.zombie \/ c.st = "none")
  <2> DEFINE frozen == c.throttled \/ c.pending_eof \/ "SENT_EOF" \in c.closes
             d == [c EXCEPT !.frozen = frozen]
  <2>1. ssh2_channel_check_throttle(c) = d
    BY <1>3 DEF ssh2_channel_check_throttle
  <2>2. frozen \in BOOLEAN /\ c.throttled \in BOOLEAN
    BY <1>1, ChannelType
  <2>3. ~frozen \/ c.throttled \/ c.zombie \/ c.pending_eof \/ "SENT_EOF" \in c.closes
    OBVIOUS
  <2> HIDE DEF frozen
  <2>4. d = [c EXCEPT !.frozen = frozen, !.throttled = c.throttled]
    BY <1>1 DEF Channel
  <2> HIDE DEF d
  <2> QED
    BY <2>1, <2>2, <2>3, <2>4, FrozenKeeps
<1> QED
  BY <1>2, <1>3

LEMMA TrySendAndUnthrottleKeeps ==
  ASSUME NEW c, NEW y \in Channel, NEW pr, Sound(c, y, pr)
  PROVE  /\ Sound(ssh2_try_send_and_unthrottle(c), y, pr)
         /\ Follows(c, ssh2_try_send_and_unthrottle(c))
<1>1. CASE "SENT_EOF" \in c.closes
  <2>1. ssh2_try_send_and_unthrottle(c) = c
    BY <1>1 DEF ssh2_try_send_and_unthrottle
  <2> QED
    BY <2>1, FollowsSame
<1>2. CASE "SENT_EOF" \notin c.closes
  <2> DEFINE d == ssh2_try_send(c)
             e == ssh2_channel_check_throttle(d)
  <2>1. Sound(d, y, pr) /\ Follows(c, d)
    BY <1>2, TrySendKeeps
  <2>2. ssh2_try_send_and_unthrottle(c) = IF c.out <= c.remwindow THEN e ELSE d
    BY <1>2, Zenon DEF ssh2_try_send_and_unthrottle
  <2> HIDE DEF d
  <2>3. Sound(e, y, pr) /\ Follows(d, e)
    BY <2>1, CheckThrottleKeeps
  <2> HIDE DEF e
  <2>4. Follows(c, e)
    BY <2>1, <2>3, FollowsTrans
  <2> QED
    BY <2>1, <2>2, <2>3, <2>4
<1> QED
  BY <1>1, <1>2

\* The packets with which ssh2_set_window() opens the window.
LEMMA GrantPackets ==
  ASSUME NEW more \in Nat, NEW wide,
         NEW r, r = (IF wide THEN <<Packet("REQUEST", 0)>> ELSE <<>>) \o <<Packet("WINDOW_ADJUST", more)>>
  PROVE  /\ r \in Queue
         /\ Adds(r, "data", 0) /\ Adds(r, "grant", more) /\ Adds(r, "failure", 0)
         /\ Adds(r, "request", IF wide THEN 1 ELSE 0)
         /\ \A i \in 1..Len(r) : r[i].type \in {"REQUEST", "WINDOW_ADJUST"}
<1> DEFINE p == Packet("WINDOW_ADJUST", more)
           o == Packet("REQUEST", 0)
           a == <<o>>
           b == <<p>>
<1>1. /\ p \in PacketSet /\ p.type = "WINDOW_ADJUST" /\ p.n = more
      /\ o \in PacketSet /\ o.type = "REQUEST"
  BY DEF Packet, PacketSet, PacketTypes
<1>2. /\ Weighs("data", p) = 0 /\ Weighs("grant", p) = more /\ Weighs("request", p) = 0
      /\ Weighs("failure", p) = 0
  BY <1>1 DEF Weighs
<1>3. /\ Weighs("data", o) = 0 /\ Weighs("grant", o) = 0 /\ Weighs("request", o) = 1
      /\ Weighs("failure", o) = 0
  BY <1>1 DEF Weighs
<1>4. \A i \in 1..Len(a) : a[i].type = "REQUEST"
  BY <1>1
<1>5. \A i \in 1..Len(b) : b[i].type = "WINDOW_ADJUST"
  BY <1>1
<1> HIDE DEF p, o
<1>6. /\ b \in Queue /\ Adds(b, "data", 0) /\ Adds(b, "grant", more) /\ Adds(b, "failure", 0)
      /\ Adds(b, "request", 0)
  BY <1>1, <1>2, AddsOne
<1>7. /\ a \in Queue /\ Adds(a, "data", 0) /\ Adds(a, "grant", 0) /\ Adds(a, "failure", 0)
      /\ Adds(a, "request", 1)
  BY <1>1, <1>3, AddsOne
<1>8. CASE wide
  <2>1. r = a \o b
    BY <1>8 DEF a, b, o, p
  <2> HIDE DEF a, b
  <2>2. r \in Queue /\ \A i \in 1..Len(r) : r[i].type \in {"REQUEST", "WINDOW_ADJUST"}
    <3>1. /\ r \in Queue /\ Len(r) = Len(a) + Len(b) /\ Len(a) \in Nat /\ Len(b) \in Nat
          /\ \A i \in 1..Len(a) : r[i] = a[i]
          /\ \A i \in (Len(a) + 1)..(Len(a) + Len(b)) : r[i] = b[i - Len(a)]
      BY <1>6, <1>7, <2>1 DEF Queue
    <3>2. ASSUME NEW i \in 1..Len(r) PROVE r[i].type \in {"REQUEST", "WINDOW_ADJUST"}
      <4>1. CASE i <= Len(a)
        BY <1>4, <3>1, <4>1
      <4>2. CASE ~(i <= Len(a))
        <5>1. i \in (Len(a) + 1)..(Len(a) + Len(b)) /\ i - Len(a) \in 1..Len(b)
          BY <3>1, <4>2
        <5> QED
          BY <1>5, <3>1, <5>1
      <4> QED
        BY <4>1, <4>2
    <3> QED
      BY <3>1, <3>2
  <2>3. /\ Adds(r, "data", 0 + 0) /\ Adds(r, "grant", 0 + more) /\ Adds(r, "failure", 0 + 0)
        /\ Adds(r, "request", 1 + 0)
    BY <1>6, <1>7, <2>1, AddsConcat
  <2>4. 0 + 0 = 0 /\ 0 + more = more /\ 1 + 0 = 1
    OBVIOUS
  <2> QED
    BY <1>8, <2>2, <2>3, <2>4
<1>9. CASE ~wide
  <2>1. r = <<>> \o b
    BY <1>9 DEF b, p
  <2> HIDE DEF b
  <2>2. r = b
    BY <1>6, <2>1 DEF Queue
  <2> QED
    BY <1>5, <1>6, <1>9, <2>2
<1> QED
  BY <1>8, <1>9

LEMMA ThreeQueues ==
  ASSUME NEW z \in Seq(PacketSet), NEW a \in Seq(PacketSet), NEW b \in Seq(PacketSet)
  PROVE  (z \o a) \o b = z \o (a \o b) /\ z \o (a \o b) \in Seq(PacketSet)
<1>1. (z \o a) \o b = z \o (a \o b)
  BY ConcatAssociative
<1>2. a \o b \in Seq(PacketSet)
  OBVIOUS
<1> QED
  BY <1>1, <1>2

LEMMA SetWindowKeeps ==
  ASSUME NEW c, NEW y \in Channel, NEW pr, Sound(c, y, pr), c.st = "open",
         NEW newwin \in Nat, newwin + c.backlog <= c.locmaxwin
  PROVE  /\ Sound(ssh2_set_window(c, newwin), y, pr)
         /\ Follows(c, ssh2_set_window(c, newwin))
<1> DEFINE more == newwin - c.locwindow
           wide == newwin = c.locmaxwin
           r == (IF wide THEN <<Packet("REQUEST", 0)>> ELSE <<>>) \o <<Packet("WINDOW_ADJUST", more)>>
           q == (c.tx \o (IF wide THEN <<Packet("REQUEST", 0)>> ELSE <<>>))
                  \o <<Packet("WINDOW_ADJUST", more)>>
           reqs == IF wide THEN Append(c.chanreqs, more) ELSE c.chanreqs
           rem == IF wide THEN c.remlocwin ELSE newwin
           throttle == IF ~wide THEN "THROTTLED"
                       ELSE IF c.throttle_state = "UNTHROTTLED" THEN c.throttle_state ELSE "UNTHROTTLING"
           d == [c EXCEPT !.locwindow = newwin, !.tx = q, !.chanreqs = reqs, !.remlocwin = rem,
                          !.throttle_state = throttle]
           keep == {"RCVD_EOF", "SENT_CLOSE"} \cap c.closes # {} \/ newwin \div 2 < c.locwindow
<1>1. c \in Channel /\ Linked(c, y) /\ Local(c, pr)
  BY DEF Sound
<1>2. ssh2_set_window(c, newwin) = IF keep THEN c ELSE d
  BY <1>1, Zenon DEF ssh2_set_window
<1>3. CASE keep
  <2>1. ssh2_set_window(c, newwin) = c
    BY <1>2, <1>3
  <2> QED
    BY <2>1, FollowsSame
<1>4. CASE ~keep
  <2>1. "SENT_CLOSE" \notin c.closes /\ ~(newwin \div 2 < c.locwindow)
    BY <1>4
  <2>2. c.locwindow \in Int /\ c.chanreqs \in Seq(Nat) /\ c.tx \in Queue /\ c.remlocwin \in Int
        /\ c.throttle_state \in {"THROTTLED", "UNTHROTTLING", "UNTHROTTLED"} /\ c.backlog \in Nat
        /\ c.locmaxwin \in Nat /\ c.remwindow \in Nat /\ c.locwindow >= 0
    BY <1>1, ChannelType DEF Local
  <2>3. more \in Nat /\ newwin = c.locwindow + more
    BY <2>1, <2>2
  <2> HIDE DEF more, keep
  <2>4. /\ r \in Queue
        /\ Adds(r, "data", 0) /\ Adds(r, "grant", more) /\ Adds(r, "failure", 0)
        /\ Adds(r, "request", IF wide THEN 1 ELSE 0)
        /\ \A i \in 1..Len(r) : r[i].type \in {"REQUEST", "WINDOW_ADJUST"}
    <3> HIDE DEF wide
    <3> QED
      BY <2>3, GrantPackets
  <2>5. q = c.tx \o r /\ c.tx \o r \in Queue
    <3> DEFINE a == IF wide THEN <<Packet("REQUEST", 0)>> ELSE <<>>
               b == <<Packet("WINDOW_ADJUST", more)>>
    <3>1. a \in Seq(PacketSet) /\ b \in Seq(PacketSet)
      <4>1. Packet("REQUEST", 0) \in PacketSet /\ Packet("WINDOW_ADJUST", more) \in PacketSet
        BY <2>3 DEF Packet, PacketSet, PacketTypes
      <4>2. <<Packet("REQUEST", 0)>> \in Seq(PacketSet) /\ b \in Seq(PacketSet) /\ <<>> \in Seq(PacketSet)
        BY <4>1
      <4> QED
        BY <4>2
    <3>2. q = (c.tx \o a) \o b /\ r = a \o b
      OBVIOUS
    <3>3. c.tx \in Seq(PacketSet)
      BY <2>2 DEF Queue
    <3> DEFINE z == c.tx
    <3>4. z \in Seq(PacketSet) /\ q = (z \o a) \o b
      BY <3>2, <3>3
    <3> HIDE DEF a, b, q, r, z
    <3>5. (z \o a) \o b = z \o (a \o b) /\ z \o (a \o b) \in Seq(PacketSet)
      BY <3>1, <3>4, ThreeQueues
    <3> QED
      BY <3>2, <3>4, <3>5 DEF Queue, z
  <2> HIDE DEF r
  <2>6. /\ reqs \in Seq(Nat) /\ Len(reqs) = Len(c.chanreqs) + (IF wide THEN 1 ELSE 0)
        /\ Len(c.chanreqs) \in Nat
    <3> HIDE DEF wide
    <3>1. CASE wide
      <4> DEFINE s == c.chanreqs
      <4>1. reqs = Append(s, more)
        BY <3>1
      <4>2. s \in Seq(Nat)
        BY <2>2
      <4> HIDE DEF s
      <4>3. Append(s, more) \in Seq(Nat) /\ Len(Append(s, more)) = Len(s) + 1 /\ Len(s) \in Nat
        BY <2>3, <4>2
      <4> QED
        BY <3>1, <4>1, <4>3 DEF s
    <3>2. CASE ~wide
      <4>1. reqs = c.chanreqs /\ Len(c.chanreqs) \in Nat
        BY <2>2, <3>2
      <4> QED
        BY <2>2, <3>2, <4>1
    <3> QED
      BY <3>1, <3>2
  <2>7. rem \in Int /\ throttle \in {"THROTTLED", "UNTHROTTLING", "UNTHROTTLED"}
    BY <2>2
  <2>8. d = [c EXCEPT !.locwindow = newwin, !.tx = q, !.chanreqs = reqs, !.remlocwin = rem,
                      !.throttle_state = throttle]
    OBVIOUS
  <2> DEFINE k == IF wide THEN 1 ELSE 0
  <2>9. k \in Nat
    OBVIOUS
  <2> HIDE DEF q, reqs, rem, throttle, d, wide, k
  <2>10. /\ d \in Channel /\ d.tx = q /\ d.locwindow = newwin /\ d.chanreqs = reqs /\ d.closes = c.closes
         /\ d.st = c.st /\ d.remwindow = c.remwindow
    <3>1. q \in Queue /\ reqs \in Seq(Nat) /\ newwin \in Int
      BY <2>5, <2>6
    <3>2. d \in Channel
      BY <1>1, <2>7, <2>8, <3>1 DEF Channel
    <3> QED
      BY <1>1, <2>8, <3>2 DEF Channel
  <2>11. /\ d.zombie = c.zombie /\ d.pending_eof = c.pending_eof /\ d.backlog = c.backlog
         /\ d.locmaxwin = c.locmaxwin /\ d.throttling_conn = c.throttling_conn
         /\ d.throttled = c.throttled /\ d.frozen = c.frozen
    BY <1>1, <2>8 DEF Channel
  <2>12. Linked(d, y)
    <3>1. /\ d.tx = c.tx \o r /\ d.remwindow + 0 <= c.remwindow /\ d.locwindow = c.locwindow + more
          /\ Len(d.chanreqs) = Len(c.chanreqs) + k /\ 0 \in Nat
      <4>1. d.tx = c.tx \o r
        BY <2>5, <2>10
      <4>2. d.remwindow + 0 <= c.remwindow /\ d.locwindow = c.locwindow + more
        BY <2>2, <2>3, <2>10
      <4>3. Len(d.chanreqs) = Len(c.chanreqs) + k
        BY <2>6, <2>10 DEF k
      <4> QED
        BY <4>1, <4>2, <4>3
    <3>2. \A i \in 1..Len(r) :
            /\ r[i].type \notin {"CHANNEL_OPEN", "OPEN_FAILURE", "OPEN_CONFIRMATION"}
            /\ r[i].type \in {"DATA", "EOF"} => "SENT_EOF" \notin c.closes
            /\ r[i].type = "EOF" => i = Len(r) /\ "SENT_EOF" \in d.closes
            /\ r[i].type = "CLOSE" => i = Len(r) /\ "SENT_CLOSE" \in d.closes
      BY <2>4
    <3>3. Adds(r, "request", k)
      BY <2>4 DEF k
    <3> QED
      BY <1>1, <2>1, <2>3, <2>4, <2>9, <2>10, <3>1, <3>2, <3>3, LinkedSends
  <2>13. Local(d, pr)
    BY <1>1, <2>1, <2>2, <2>10, <2>11 DEF Local
  <2>14. Follows(c, d)
    BY <2>1, <2>10 DEF Follows
  <2>15. ssh2_set_window(c, newwin) = d
    BY <1>2, <1>4
  <2> QED
    BY <2>10, <2>12, <2>13, <2>14, <2>15 DEF Sound
<1> QED
  BY <1>3, <1>4

-----------------------------------------------------------------------------
(* The handlers of a channel that is open                                   *)

LEMMA GrownIs ==
  ASSUME NEW c \in Channel, NEW n \in Nat
  PROVE  Grown(c, n) \in Nat /\ c.locmaxwin <= Grown(c, n)
BY SshAssumption, ChannelType DEF Grown

\* The socket has taken data, or given some up: left bytes wait, and the window may open.
LEMMA BacklogKeeps ==
  ASSUME NEW c, NEW y \in Channel, NEW pr, NEW d, Sound(d, y, pr), d.st = "open",
         NEW left \in Nat, d.backlog = left, NEW maxwin \in Nat, d.locmaxwin = maxwin,
         Follows(c, d),
         NEW e, e = IF left < maxwin THEN ssh2_set_window(d, maxwin - left) ELSE d
  PROVE  Sound(e, y, pr) /\ Follows(c, e)
<1>1. CASE left < maxwin
  <2> DEFINE newwin == maxwin - left
  <2>1. newwin \in Nat /\ newwin + d.backlog <= d.locmaxwin /\ e = ssh2_set_window(d, newwin)
    BY <1>1
  <2> HIDE DEF newwin
  <2>2. Sound(ssh2_set_window(d, newwin), y, pr) /\ Follows(d, ssh2_set_window(d, newwin))
    BY <2>1, SetWindowKeeps
  <2> QED
    BY <2>1, <2>2, FollowsTrans
<1>2. CASE ~(left < maxwin)
  BY <1>2
<1> QED
  BY <1>1, <1>2

\* While the window is kept, what waits in a socket never throttles the connection.
LEMMA GotDataKeeps ==
  ASSUME NEW c, NEW y \in Channel, NEW pr, Sound(c, y, pr), c.st = "open", y.tx # <<>>,
         y.tx[1].type = "DATA", NEW n, n = y.tx[1].n, NEW left \in LeftOf(c, n)
  PROVE  /\ Sound(GotData(c, n, left), Taken(y), pr)
         /\ Follows(c, GotData(c, n, left))
<1> DEFINE maxwin == Grown(c, n)
           throttling == c.throttling_conn \/ left > maxwin
           d == [c EXCEPT !.locwindow = @ - n, !.remlocwin = @ - n,
                          !.backlog = left, !.locmaxwin = maxwin,
                          !.throttling_conn = throttling]
<1>1. c \in Channel /\ Linked(c, y) /\ Local(c, pr)
  BY DEF Sound
<1>2. /\ n \in Nat /\ n <= c.locwindow
      /\ "RCVD_EOF" \notin c.closes
  BY <1>1, LinkedHead, Zenon DEF PacketSet
<1>3. maxwin \in Nat /\ c.locmaxwin <= maxwin
  BY <1>1, <1>2, GrownIs
<1>4. /\ c.locwindow \in Int /\ c.remlocwin \in Int /\ c.backlog \in Nat /\ c.locmaxwin \in Nat
      /\ c.throttling_conn = FALSE /\ c.remwindow \in Nat
  BY <1>1, ChannelType DEF Local
<1>5. left \in Nat /\ left <= c.backlog + n
  BY <1>2, <1>4 DEF LeftOf
<1>6. c.locwindow + c.backlog <= c.locmaxwin
  BY <1>1 DEF Local
<1>7. left <= maxwin /\ c.locwindow - n >= 0 /\ (c.locwindow - n) + left <= maxwin
  <2> DEFINE w == c.locwindow
             b == c.backlog
             m == c.locmaxwin
  <2>1. /\ n \in Nat /\ n <= w /\ w \in Int /\ b \in Nat /\ m \in Nat /\ w + b <= m
        /\ left \in Nat /\ left <= b + n /\ maxwin \in Nat /\ m <= maxwin
    BY <1>2, <1>3, <1>4, <1>5, <1>6
  <2> HIDE DEF w, b, m, maxwin
  <2>2. left <= maxwin /\ w - n >= 0 /\ (w - n) + left <= maxwin
    BY <2>1
  <2> QED
    BY <2>2 DEF w
<1>8. throttling = FALSE
  BY <1>3, <1>4, <1>5, <1>7
<1>9. GotData(c, n, left) = IF left < maxwin THEN ssh2_set_window(d, maxwin - left) ELSE d
  BY Zenon DEF GotData
<1> DEFINE w == c.locwindow - n
           rw == c.remlocwin - n
<1>10. w \in Int /\ rw \in Int
  BY <1>2, <1>4
<1>11. d = [c EXCEPT !.locwindow = w, !.remlocwin = rw, !.backlog = left, !.locmaxwin = maxwin,
                     !.throttling_conn = throttling]
  BY <1>1 DEF Channel
<1> HIDE DEF d, throttling, maxwin
<1>12. /\ d \in Channel /\ d.st = c.st /\ d.tx = c.tx /\ d.closes = c.closes
       /\ d.remwindow = c.remwindow /\ d.locwindow = w /\ d.chanreqs = c.chanreqs
  <2>1. throttling \in BOOLEAN /\ c \in Channel /\ left \in Nat /\ maxwin \in Nat
    BY <1>1, <1>3, <1>5, <1>8
  <2> HIDE DEF w, rw
  <2>2. d \in Channel
    BY <1>10, <1>11, <2>1 DEF Channel
  <2>3. /\ d.st = c.st /\ d.tx = c.tx /\ d.closes = c.closes /\ d.remwindow = c.remwindow
        /\ d.locwindow = w /\ d.chanreqs = c.chanreqs
    BY <1>11, <2>1 DEF Channel
  <2> QED
    BY <2>2, <2>3
<1>13. /\ d.zombie = c.zombie /\ d.pending_eof = c.pending_eof /\ d.backlog = left
       /\ d.locmaxwin = maxwin /\ d.throttling_conn = FALSE
       /\ d.throttled = c.throttled /\ d.frozen = c.frozen
  BY <1>1, <1>8, <1>11 DEF Channel
<1>14. Local(d, pr)
  BY <1>1, <1>7, <1>12, <1>13 DEF Local
<1>15. Linked(d, Taken(y))
  <2>1. /\ Weighs("data", y.tx[1]) = n /\ Weighs("grant", y.tx[1]) = 0
        /\ Weighs("failure", y.tx[1]) = 0
    BY DEF Weighs
  <2>2. Len(c.chanreqs) \in Nat
    BY <1>1, ChannelType
  <2>3. /\ d.remwindow <= c.remwindow + Weighs("grant", y.tx[1])
        /\ d.locwindow = c.locwindow - Weighs("data", y.tx[1])
        /\ Len(d.chanreqs) = Len(c.chanreqs) - Weighs("failure", y.tx[1])
        /\ d.closes = c.closes \cup (IF y.tx[1].type = "EOF" THEN {"RCVD_EOF"} ELSE {})
    BY <1>4, <1>12, <2>1, <2>2
  <2> QED
    BY <1>1, <1>12, <2>3, LinkedTakes
<1>16. Taken(y) \in Channel
  BY TakenType
<1>17. Sound(d, Taken(y), pr) /\ Follows(c, d)
  BY <1>12, <1>14, <1>15, FollowsSame DEF Sound
<1>18. d.st = "open" /\ d.backlog = left /\ d.locmaxwin = maxwin
  BY <1>12, <1>13
<1> DEFINE z == Taken(y)
           g == GotData(c, n, left)
<1>19. z \in Channel /\ Sound(d, z, pr)
  BY <1>16, <1>17
<1>20. g = IF left < maxwin THEN ssh2_set_window(d, maxwin - left) ELSE d
  BY <1>9
<1> HIDE DEF z, g, w, rw
<1>21. left \in Nat /\ maxwin \in Nat /\ Follows(c, d)
  BY <1>3, <1>5, <1>17
<1>22. Sound(g, z, pr) /\ Follows(c, g)
  BY <1>18, <1>19, <1>20, <1>21, BacklogKeeps, Zenon
<1> QED
  BY <1>22 DEF z, g

LEMMA UnthrottledKeeps ==
  ASSUME NEW c, NEW y \in Channel, NEW pr, Sound(c, y, pr), c.backlog > 0
  PROVE  /\ Sound(Unthrottled(c, 0), y, pr)
         /\ Follows(c, Unthrottled(c, 0))
<1> DEFINE maxwin == c.locmaxwin
           throttling == c.throttling_conn /\ 0 > c.locmaxwin
           d == [c EXCEPT !.backlog = 0, !.throttling_conn = throttling]
           e == Unthrottled(c, 0)
<1>1. c \in Channel /\ Linked(c, y) /\ Local(c, pr)
  BY DEF Sound
<1>2. /\ c.locwindow \in Int /\ c.backlog \in Nat /\ maxwin \in Nat
      /\ c.throttling_conn = FALSE /\ c.locwindow + c.backlog <= c.locmaxwin
  BY <1>1, ChannelType DEF Local
<1>3. c.locwindow + 0 <= c.locmaxwin /\ throttling = FALSE
  BY <1>2
<1>4. c.st = "open"
  BY <1>1, <1>2, ChannelType DEF Local
<1>5. e = IF 0 < maxwin THEN ssh2_set_window(d, maxwin - 0) ELSE d
  BY Zenon DEF Unthrottled
<1> HIDE DEF d, throttling, e
<1>6. /\ d \in Channel /\ d.st = c.st /\ d.tx = c.tx /\ d.closes = c.closes
      /\ d.remwindow = c.remwindow /\ d.locwindow = c.locwindow /\ d.chanreqs = c.chanreqs
  BY <1>1, <1>3 DEF d, Channel
<1>7. /\ d.zombie = c.zombie /\ d.pending_eof = c.pending_eof /\ d.backlog = 0
      /\ d.locmaxwin = maxwin /\ d.throttling_conn = FALSE
      /\ d.throttled = c.throttled /\ d.frozen = c.frozen
  BY <1>1, <1>3 DEF d, Channel
<1>8. Local(d, pr)
  BY <1>1, <1>3, <1>6, <1>7 DEF Local
<1>9. Linked(d, y)
  BY <1>1, <1>6, LinkedSame
<1>10. Sound(d, y, pr) /\ Follows(c, d)
  BY <1>6, <1>8, <1>9, FollowsSame DEF Sound
<1>11. d.st = "open" /\ d.backlog = 0 /\ 0 \in Nat /\ maxwin \in Nat /\ d.locmaxwin = maxwin
  BY <1>2, <1>4, <1>6, <1>7
<1> HIDE DEF maxwin
<1> QED
  BY <1>5, <1>10, <1>11, BacklogKeeps DEF e

\* A packet that leaves the window, the requests and the closing as they are.
LEMMA IgnoredKeeps ==
  ASSUME NEW c, NEW y \in Channel, NEW pr, Sound(c, y, pr), c.st = "open", y.tx # <<>>,
         y.tx[1].type \notin {"DATA", "FAILURE", "EOF"}
  PROVE  Sound(c, Taken(y), pr) /\ Follows(c, c)
<1>1. c \in Channel /\ Linked(c, y) /\ Local(c, pr)
  BY DEF Sound
<1>2. y.tx[1] \in PacketSet /\ Weighs("grant", y.tx[1]) \in Nat
  BY <1>1, LinkedHead, WeighsType
<1>3. Weighs("data", y.tx[1]) = 0 /\ Weighs("failure", y.tx[1]) = 0
  BY DEF Weighs
<1>4. c.remwindow \in Nat /\ c.locwindow \in Int /\ Len(c.chanreqs) \in Nat
  BY <1>1, ChannelType
<1>5. /\ c.remwindow <= c.remwindow + Weighs("grant", y.tx[1])
      /\ c.locwindow = c.locwindow - Weighs("data", y.tx[1])
      /\ Len(c.chanreqs) = Len(c.chanreqs) - Weighs("failure", y.tx[1])
      /\ c.closes = c.closes \cup (IF y.tx[1].type = "EOF" THEN {"RCVD_EOF"} ELSE {})
  BY <1>2, <1>3, <1>4
<1>6. Linked(c, Taken(y))
  BY <1>1, <1>5, LinkedTakes
<1> QED
  BY <1>1, <1>6, FollowsSame DEF Sound

LEMMA GotWindowAdjustKeeps ==
  ASSUME NEW c, NEW y \in Channel, NEW pr, Sound(c, y, pr), c.st = "open", y.tx # <<>>,
         y.tx[1].type = "WINDOW_ADJUST"
  PROVE  /\ Sound(GotWindowAdjust(c, y.tx[1]), Taken(y), pr)
         /\ Follows(c, GotWindowAdjust(c, y.tx[1]))
<1> DEFINE n == y.tx[1].n
           rem == c.remwindow + n
           d == [c EXCEPT !.remwindow = rem]
           z == Taken(y)
           e == ssh2_try_send_and_unthrottle(d)
<1>1. c \in Channel /\ Linked(c, y) /\ Local(c, pr)
  BY DEF Sound
<1>2. z \in Channel
  BY TakenType
<1>3. CASE "SENT_EOF" \in c.closes
  <2>1. GotWindowAdjust(c, y.tx[1]) = c
    BY <1>3 DEF GotWindowAdjust
  <2> QED
    BY <2>1, IgnoredKeeps
<1>4. CASE "SENT_EOF" \notin c.closes
  <2>1. n \in Nat /\ c.remwindow \in Nat /\ c.locwindow \in Int /\ Len(c.chanreqs) \in Nat
    BY <1>1, LinkedHead, ChannelType DEF PacketSet
  <2>2. rem \in Nat
    BY <2>1
  <2>3. GotWindowAdjust(c, y.tx[1]) = e
    BY <1>4 DEF GotWindowAdjust
  <2>4. Weighs("data", y.tx[1]) = 0 /\ Weighs("failure", y.tx[1]) = 0 /\ Weighs("grant", y.tx[1]) = n
    BY DEF Weighs
  <2> HIDE DEF e
  <2>5. /\ d \in Channel /\ d.st = c.st /\ d.tx = c.tx /\ d.closes = c.closes
        /\ d.remwindow = rem /\ d.locwindow = c.locwindow /\ d.chanreqs = c.chanreqs
    <3> HIDE DEF rem
    <3> QED
      BY <1>1, <2>2 DEF Channel
  <2>6. /\ d.zombie = c.zombie /\ d.pending_eof = c.pending_eof /\ d.backlog = c.backlog
        /\ d.locmaxwin = c.locmaxwin /\ d.throttling_conn = c.throttling_conn
        /\ d.throttled = c.throttled /\ d.frozen = c.frozen
    <3> HIDE DEF rem
    <3> QED
      BY <1>1, <2>2 DEF Channel
  <2> HIDE DEF d
  <2>7. Local(d, pr)
    BY <1>1, <2>5, <2>6 DEF Local
  <2>8. Linked(d, z)
    <3>1. /\ d.remwindow <= c.remwindow + Weighs("grant", y.tx[1])
          /\ d.locwindow = c.locwindow - Weighs("data", y.tx[1])
          /\ Len(d.chanreqs) = Len(c.chanreqs) - Weighs("failure", y.tx[1])
          /\ d.closes = c.closes \cup (IF y.tx[1].type = "EOF" THEN {"RCVD_EOF"} ELSE {})
      BY <2>1, <2>4, <2>5
    <3> QED
      BY <1>1, <2>5, <3>1, LinkedTakes
  <2>9. Sound(d, z, pr) /\ Follows(c, d)
    BY <2>5, <2>7, <2>8, FollowsSame DEF Sound
  <2> HIDE DEF z
  <2>10. Sound(e, z, pr) /\ Follows(d, e)
    BY <1>2, <2>9, TrySendAndUnthrottleKeeps DEF e
  <2>11. Follows(c, e)
    BY <2>9, <2>10, FollowsTrans
  <2> QED
    BY <2>3, <2>10, <2>11 DEF z
<1> QED
  BY <1>3, <1>4

LEMMA GotRequestKeeps ==
  ASSUME NEW c, NEW y \in Channel, NEW pr, Sound(c, y, pr), c.st = "open", y.tx # <<>>,
         y.tx[1].type = "REQUEST"
  PROVE  /\ Sound(GotRequest(c), Taken(y), pr)
         /\ Follows(c, GotRequest(c))
<1>1. CASE "SENT_CLOSE" \in c.closes
  <2>1. GotRequest(c) = c
    BY <1>1 DEF GotRequest
  <2> QED
    BY <2>1, IgnoredKeeps
<1>2. CASE "SENT_CLOSE" \notin c.closes
  <2> DEFINE d == Push(c, "FAILURE", 0)
  <2>1. c \in Channel /\ Linked(c, y) /\ Local(c, pr)
    BY DEF Sound
  <2>2. GotRequest(c) = d
    BY <1>2 DEF GotRequest
  <2>3. d \in Channel /\ SameButTx(c, d)
    <3>1. "FAILURE" \in PacketTypes /\ 0 \in Nat
      BY DEF PacketTypes
    <3> QED
      BY <2>1, <3>1, PushFields, Zenon
  <2>4. Linked(d, Taken(y))
    BY <1>2, <2>1, LinkedAnswers
  <2> HIDE DEF d
  <2>5. Local(d, pr)
    BY <2>1, <2>3 DEF Local, SameButTx
  <2>6. Follows(c, d)
    BY <1>2, <2>3 DEF Follows, SameButTx
  <2> QED
    BY <2>2, <2>3, <2>4, <2>5, <2>6 DEF Sound
<1> QED
  BY <1>1, <1>2

LEMMA GotFailureKeeps ==
  ASSUME NEW c, NEW y \in Channel, NEW pr, Sound(c, y, pr), c.st = "open", y.tx # <<>>,
         y.tx[1].type = "FAILURE"
  PROVE  /\ c.chanreqs # <<>>
         /\ Sound(GotFailure(c), Taken(y), pr)
         /\ Follows(c, GotFailure(c))
<1> DEFINE rl == c.remlocwin + Head(c.chanreqs)
           reqs == Tail(c.chanreqs)
           throttle == IF c.throttle_state = "UNTHROTTLING" THEN "UNTHROTTLED" ELSE c.throttle_state
           d == [c EXCEPT !.remlocwin = rl, !.chanreqs = reqs, !.throttle_state = throttle]
           z == Taken(y)
           e == ssh2_channel_check_close(d)
<1>1. c \in Channel /\ Linked(c, y) /\ Local(c, pr)
  BY DEF Sound
<1>2. z \in Channel
  BY TakenType
<1>3. c.chanreqs # <<>>
  BY <1>1, LinkedHead, Zenon
<1>4. /\ c.remlocwin \in Int /\ c.chanreqs \in Seq(Nat)
      /\ c.throttle_state \in {"THROTTLED", "UNTHROTTLING", "UNTHROTTLED"}
      /\ c.remwindow \in Nat /\ c.locwindow \in Int
  BY <1>1, ChannelType
<1>5. rl \in Int /\ reqs \in Seq(Nat) /\ Len(reqs) = Len(c.chanreqs) - 1 /\ Len(c.chanreqs) \in Nat
  <2> DEFINE s == c.chanreqs
  <2>1. s \in Seq(Nat) /\ s # <<>>
    BY <1>3, <1>4
  <2> HIDE DEF s
  <2>2. Head(s) \in Nat /\ Tail(s) \in Seq(Nat) /\ Len(Tail(s)) = Len(s) - 1 /\ Len(s) \in Nat
    BY <2>1
  <2> QED
    BY <1>4, <2>2 DEF s
<1>6. throttle \in {"THROTTLED", "UNTHROTTLING", "UNTHROTTLED"}
  BY <1>4
<1>7. GotFailure(c) = e
  BY Zenon DEF GotFailure
<1>8. Weighs("data", y.tx[1]) = 0 /\ Weighs("failure", y.tx[1]) = 1 /\ Weighs("grant", y.tx[1]) = 0
  BY DEF Weighs
<1>9. "SENT_CLOSE" \notin c.closes
  BY <1>1, <1>3 DEF Local
<1> HIDE DEF e, rl, reqs, throttle
<1>10. /\ d \in Channel /\ d.st = c.st /\ d.tx = c.tx /\ d.closes = c.closes
       /\ d.remwindow = c.remwindow /\ d.locwindow = c.locwindow /\ d.chanreqs = reqs
  BY <1>1, <1>5, <1>6 DEF Channel
<1>11. /\ d.zombie = c.zombie /\ d.pending_eof = c.pending_eof /\ d.backlog = c.backlog
       /\ d.locmaxwin = c.locmaxwin /\ d.throttling_conn = c.throttling_conn
       /\ d.throttled = c.throttled /\ d.frozen = c.frozen
  BY <1>1, <1>5, <1>6 DEF Channel
<1> HIDE DEF d
<1>12. Local(d, pr)
  BY <1>1, <1>9, <1>10, <1>11 DEF Local
<1>13. Linked(d, z)
  <2>1. /\ d.remwindow <= c.remwindow + Weighs("grant", y.tx[1])
        /\ d.locwindow = c.locwindow - Weighs("data", y.tx[1])
        /\ Len(d.chanreqs) = Len(c.chanreqs) - Weighs("failure", y.tx[1])
        /\ d.closes = c.closes \cup (IF y.tx[1].type = "EOF" THEN {"RCVD_EOF"} ELSE {})
    BY <1>4, <1>5, <1>8, <1>10
  <2> QED
    BY <1>1, <1>10, <2>1, LinkedTakes
<1>14. Sound(d, z, pr) /\ Follows(c, d)
  BY <1>10, <1>12, <1>13, FollowsSame DEF Sound
<1> HIDE DEF z
<1>15. Sound(e, z, pr) /\ Follows(d, e)
  BY <1>2, <1>14, CheckCloseKeeps DEF e
<1>16. Follows(c, e)
  BY <1>14, <1>15, FollowsTrans
<1> QED
  BY <1>3, <1>7, <1>15, <1>16 DEF z

LEMMA GotEofKeeps ==
  ASSUME NEW c, NEW y \in Channel, NEW pr, Sound(c, y, pr), c.st = "open", y.tx # <<>>,
         y.tx[1].type = "EOF"
  PROVE  /\ Sound(GotEof(c), Taken(y), pr)
         /\ Follows(c, GotEof(c))
<1> DEFINE d == [c EXCEPT !.closes = @ \cup {"RCVD_EOF"}]
           z == Taken(y)
           e == ssh2_channel_check_close(d)
<1>1. c \in Channel /\ Linked(c, y) /\ Local(c, pr)
  BY DEF Sound
<1>2. z \in Channel
  BY TakenType
<1>3. "RCVD_EOF" \notin c.closes
  BY <1>1, LinkedHead, Zenon
<1>4. GotEof(c) = e
  BY <1>3, Zenon DEF GotEof
<1>5. Weighs("data", y.tx[1]) = 0 /\ Weighs("failure", y.tx[1]) = 0 /\ Weighs("grant", y.tx[1]) = 0
  BY DEF Weighs
<1>6. c.remwindow \in Nat /\ c.locwindow \in Int /\ Len(c.chanreqs) \in Nat /\ c.closes \subseteq Closes
  BY <1>1, ChannelType
<1> DEFINE then == c.closes \cup {"RCVD_EOF"}
<1>7. then \in SUBSET Closes
  BY <1>6 DEF Closes
<1>8. /\ "SENT_EOF" \in then <=> "SENT_EOF" \in c.closes
      /\ "SENT_CLOSE" \in then <=> "SENT_CLOSE" \in c.closes
      /\ "RCVD_EOF" \in then
  OBVIOUS
<1> HIDE DEF e
<1>9. d = [c EXCEPT !.closes = then]
  BY <1>1 DEF Channel
<1> HIDE DEF d
<1>10. /\ d \in Channel /\ d.st = c.st /\ d.tx = c.tx /\ d.closes = then
       /\ d.remwindow = c.remwindow /\ d.locwindow = c.locwindow /\ d.chanreqs = c.chanreqs
  <2> HIDE DEF then
  <2> QED
    BY <1>1, <1>7, <1>9 DEF Channel
<1>11. /\ d.zombie = c.zombie /\ d.pending_eof = c.pending_eof /\ d.backlog = c.backlog
       /\ d.locmaxwin = c.locmaxwin /\ d.throttling_conn = c.throttling_conn
       /\ d.throttled = c.throttled /\ d.frozen = c.frozen
  <2> HIDE DEF then
  <2> QED
    BY <1>1, <1>9 DEF Channel
<1>12. Linked(d, z)
  <2>1. /\ d.remwindow <= c.remwindow + Weighs("grant", y.tx[1])
        /\ d.locwindow = c.locwindow - Weighs("data", y.tx[1])
        /\ Len(d.chanreqs) = Len(c.chanreqs) - Weighs("failure", y.tx[1])
        /\ d.closes = c.closes \cup (IF y.tx[1].type = "EOF" THEN {"RCVD_EOF"} ELSE {})
    BY <1>5, <1>6, <1>10
  <2> QED
    BY <1>1, <1>10, <2>1, LinkedTakes
<1> HIDE DEF then
<1>13. Local(d, pr)
  BY <1>1, <1>8, <1>10, <1>11 DEF Local
<1>14. Sound(d, z, pr)
  BY <1>10, <1>12, <1>13 DEF Sound
<1>15. Follows(c, d)
  BY <1>8, <1>10 DEF Follows
<1> HIDE DEF z
<1>16. Sound(e, z, pr) /\ Follows(d, e)
  BY <1>2, <1>14, CheckCloseKeeps DEF e
<1>17. Follows(c, e)
  BY <1>15, <1>16, FollowsTrans
<1> QED
  BY <1>4, <1>16, <1>17 DEF z

\* The channel opens, and it is at once told of what its socket has come to meanwhile.
LEMMA GotOpenConfirmationKeeps ==
  ASSUME NEW c, NEW y \in Channel, NEW pr, Sound(c, y, pr), c.st = "halfopen", y.tx # <<>>
  PROVE  LET d == GotOpenConfirmation(c, y.tx[1])
         IN /\ Sound(d, Taken(y), pr)
            /\ d.st = "open"
            /\ "SENT_CLOSE" \in d.closes => EndsInClose(d.tx)
<1> DEFINE n == y.tx[1].n
           ready == ~c.zombie
           m == [c EXCEPT !.st = "open", !.remwindow = n, !.ready = ready, !.frozen = c.zombie]
           z == Taken(y)
           d == ssh2_channel_check_close(m)
           e == GotOpenConfirmation(c, y.tx[1])
<1>1. c \in Channel /\ Linked(c, y) /\ Local(c, pr)
  BY DEF Sound
<1>2. z \in Channel
  BY TakenType
<1>3. y.tx[1].type = "OPEN_CONFIRMATION" /\ n \in Nat
  BY <1>1, LinkedHead, Zenon DEF PacketSet
<1>4. e = IF c.pending_eof THEN ssh2_channel_try_eof(d) ELSE d
  BY Zenon DEF GotOpenConfirmation
<1>5. Weighs("data", y.tx[1]) = 0 /\ Weighs("failure", y.tx[1]) = 0 /\ Weighs("grant", y.tx[1]) = n
  BY <1>3 DEF Weighs
<1>6. /\ c.remwindow \in Nat /\ c.locwindow \in Int /\ Len(c.chanreqs) \in Nat
      /\ c.zombie \in BOOLEAN /\ ready \in BOOLEAN
  BY <1>1, ChannelType
<1>7. c.closes = {} /\ c.chanreqs = <<>> /\ c.remwindow = 0
  BY <1>1 DEF Local
<1> HIDE DEF d, e, ready
<1>8. /\ m \in Channel /\ m.st = "open" /\ m.tx = c.tx /\ m.closes = c.closes
      /\ m.remwindow = n /\ m.locwindow = c.locwindow /\ m.chanreqs = c.chanreqs
  <2> HIDE DEF n
  <2> QED
    BY <1>1, <1>3, <1>6 DEF Channel
<1>9. /\ m.zombie = c.zombie /\ m.pending_eof = c.pending_eof /\ m.backlog = c.backlog
      /\ m.locmaxwin = c.locmaxwin /\ m.throttling_conn = c.throttling_conn
      /\ m.throttled = c.throttled /\ m.frozen = c.zombie
  <2> HIDE DEF n
  <2> QED
    BY <1>1 DEF Channel
<1> HIDE DEF m
<1>10. Local(m, pr)
  BY <1>1, <1>7, <1>8, <1>9 DEF Local
<1>11. Linked(m, z)
  <2>1. /\ m.remwindow <= c.remwindow + Weighs("grant", y.tx[1])
        /\ m.locwindow = c.locwindow - Weighs("data", y.tx[1])
        /\ Len(m.chanreqs) = Len(c.chanreqs) - Weighs("failure", y.tx[1])
        /\ m.closes = c.closes \cup (IF y.tx[1].type = "EOF" THEN {"RCVD_EOF"} ELSE {})
    BY <1>3, <1>5, <1>6, <1>7, <1>8
  <2> QED
    BY <1>1, <1>8, <2>1, LinkedTakes
<1>12. Sound(m, z, pr)
  BY <1>8, <1>10, <1>11 DEF Sound
<1> HIDE DEF z, n
<1>13. Sound(d, z, pr) /\ Follows(m, d)
  BY <1>2, <1>12, CheckCloseKeeps DEF d
<1>14. Sound(e, z, pr) /\ Follows(m, e)
  <2>1. CASE c.pending_eof
    <3>1. ~m.zombie /\ m.closes = {}
      BY <1>1, <1>7, <1>8, <1>9, <2>1 DEF Local
    <3>2. d = m
      BY <3>1 DEF d, ssh2_channel_check_close, WantClose
    <3>3. e = ssh2_channel_try_eof(m) /\ m.pending_eof
      BY <1>4, <1>9, <2>1, <3>2
    <3> QED
      BY <1>2, <1>12, <3>3, TryEofKeeps
  <2>2. CASE ~c.pending_eof
    <3>1. e = d
      BY <1>4, <2>2
    <3> QED
      BY <1>13, <3>1
  <2> QED
    BY <2>1, <2>2
<1>15. e.st = "open" /\ ("SENT_CLOSE" \in e.closes => EndsInClose(e.tx))
  BY <1>7, <1>8, <1>14 DEF Follows
<1> QED
  BY <1>14, <1>15 DEF e, z

-----------------------------------------------------------------------------
(* A channel that is gone                                                   *)

LEMMA FreshIs ==
  ASSUME NEW c, c.throttled \in BOOLEAN, c.tx \in Queue
  PROVE  LET d == Fresh(c)
         IN /\ d \in Channel /\ d.st = "halfopen" /\ d.tx = c.tx
            /\ d.closes = {} /\ d.chanreqs = <<>> /\ d.remwindow = 0 /\ d.locwindow = WinSize
            /\ d.backlog = 0 /\ ~d.zombie /\ ~d.pending_eof
            /\ d.locmaxwin = WinSize /\ ~d.throttling_conn /\ d.out = 0 /\ d.sent = 0
            /\ d.frozen /\ ~d.ready
<1> DEFINE d == Fresh(c)
           reqs == <<>>
           t == c.throttled
           q == c.tx
<1>1. WinSize \in Nat /\ reqs \in Seq(Nat) /\ {} \in SUBSET Closes
  BY SshAssumption
<1>2. d = [st |-> "halfopen", zombie |-> FALSE, ready |-> FALSE, frozen |-> TRUE,
           closes |-> {}, pending_eof |-> FALSE, out |-> 0, backlog |-> 0,
           sent |-> 0, remwindow |-> 0,
           locwindow |-> WinSize, locmaxwin |-> WinSize, remlocwin |-> WinSize,
           throttle_state |-> "UNTHROTTLED", throttling_conn |-> FALSE, chanreqs |-> reqs,
           throttled |-> t, tx |-> q]
  BY Zenon DEF Fresh
<1>3. t \in BOOLEAN /\ q \in Queue
  OBVIOUS
<1> HIDE DEF d, reqs, t, q
<1>4. d \in Channel
  BY <1>1, <1>2, <1>3 DEF Channel
<1>5. /\ d.st = "halfopen" /\ d.tx = q /\ d.throttled = t
      /\ d.closes = {} /\ d.chanreqs = reqs /\ d.remwindow = 0 /\ d.locwindow = WinSize
      /\ d.backlog = 0 /\ ~d.zombie /\ ~d.pending_eof /\ d.locmaxwin = WinSize
      /\ ~d.throttling_conn /\ d.out = 0 /\ d.sent = 0 /\ d.frozen
      /\ ~d.ready
  BY <1>2
<1> QED
  BY <1>4, <1>5, Zenon DEF d, reqs, t, q

LEMMA DestroyedIs ==
  ASSUME NEW c, c.throttled \in BOOLEAN, c.tx \in Queue
  PROVE  LET d == Destroyed(c)
         IN d \in Channel /\ d.st = "none" /\ d.tx = c.tx
<1> DEFINE d == Destroyed(c)
           f == Fresh(c)
<1>1. f \in Channel /\ f.tx = c.tx
  BY FreshIs
<1>2. d = [f EXCEPT !.st = "none"]
  BY Zenon DEF Destroyed
<1> HIDE DEF d, f
<1>3. d \in Channel /\ d.st = "none" /\ d.tx = c.tx
  BY <1>1, <1>2 DEF Channel
<1> QED
  BY <1>3 DEF d

\* The end is the last word, and it is on its way.
Promised(x) == "SENT_CLOSE" \in x.closes => EndsInClose(x.tx)

\* x has had its say to a far end that is gone; q comes from it yet, as it would from a
\* channel g that were still there and kept silent.
Left(q, x) ==
  /\ x.st = "open" /\ "SENT_CLOSE" \in x.closes /\ x.tx = <<>>
  /\ EndsInClose(q)
  /\ \E g \in Channel : g.st = "open" /\ g.tx = q /\ Linked(x, g)

LEMMA GotCloseIs ==
  ASSUME NEW c \in Channel
  PROVE  LET a == IF "SENT_EOF" \in c.closes THEN <<>> ELSE <<Packet("EOF", 0)>>
             b == IF "SENT_CLOSE" \in c.closes THEN <<>> ELSE <<Packet("CLOSE", 0)>>
             q == (c.tx \o a) \o b
             d == GotClose(c)
         IN q \in Queue /\ d \in Channel /\ d.st = "none" /\ d.tx = q
<1> DEFINE a == IF "SENT_EOF" \in c.closes THEN <<>> ELSE <<Packet("EOF", 0)>>
           b == IF "SENT_CLOSE" \in c.closes THEN <<>> ELSE <<Packet("CLOSE", 0)>>
           q == (c.tx \o a) \o b
           d == GotClose(c)
           z == c.tx
           m == [c EXCEPT !.tx = q]
<1>1. Packet("EOF", 0) \in PacketSet /\ Packet("CLOSE", 0) \in PacketSet
  BY DEF Packet, PacketSet, PacketTypes
<1>2. <<Packet("EOF", 0)>> \in Seq(PacketSet) /\ <<Packet("CLOSE", 0)>> \in Seq(PacketSet)
      /\ <<>> \in Seq(PacketSet)
  BY <1>1
<1>3. a \in Seq(PacketSet) /\ b \in Seq(PacketSet)
  BY <1>2
<1>4. z \in Seq(PacketSet)
  BY ChannelType DEF Queue
<1>5. q = (z \o a) \o b
  OBVIOUS
<1>6. d = Destroyed(m)
  BY DEF GotClose
<1> HIDE DEF a, b, z, d
<1>7. q \in Queue
  BY <1>3, <1>4, <1>5 DEF Queue
<1> HIDE DEF q
<1>8. m.tx = q /\ m.throttled = c.throttled /\ c.throttled \in BOOLEAN
  BY ChannelType DEF Channel
<1> HIDE DEF m
<1>9. d \in Channel /\ d.st = "none" /\ d.tx = q
  <2>1. m.tx \in Queue /\ m.throttled \in BOOLEAN
    BY <1>7, <1>8
  <2> QED
    BY <1>6, <1>8, <2>1, DestroyedIs
<1> QED
  BY <1>7, <1>9 DEF a, b, q, d

\* A step of the ghost: it sends EOF or CLOSE.
LEMMA GhostSends ==
  ASSUME NEW c \in Channel, NEW y \in Channel, Linked(c, y), NEW type \in {"EOF", "CLOSE"},
         "SENT_CLOSE" \notin c.closes, type = "EOF" => "SENT_EOF" \notin c.closes
  PROVE  \E g \in Channel :
           /\ g.st = c.st /\ g.tx = c.tx \o <<Packet(type, 0)>> /\ Linked(g, y)
           /\ "SENT_CLOSE" \in g.closes <=> type = "CLOSE"
           /\ EndsInClose(g.tx) <=> type = "CLOSE"
<1> DEFINE flag == IF type = "EOF" THEN "SENT_EOF" ELSE "SENT_CLOSE"
           then == c.closes \cup {flag}
           m == [c EXCEPT !.closes = then]
           g == Push(m, type, 0)
<1>1. then \in SUBSET Closes /\ flag \in then /\ c.closes \subseteq then
      /\ ("RCVD_EOF" \in then => "RCVD_EOF" \in c.closes)
      /\ ("SENT_CLOSE" \in then <=> type = "CLOSE")
  BY ChannelType DEF Closes
<1>2. type = "EOF" => "SENT_EOF" \in then
  BY <1>1
<1> HIDE DEF then
<1>3. /\ m \in Channel /\ m.st = c.st /\ m.tx = c.tx /\ m.closes = then
      /\ m.remwindow = c.remwindow /\ m.locwindow = c.locwindow /\ m.chanreqs = c.chanreqs
  BY <1>1 DEF Channel
<1> HIDE DEF m, flag
<1>4. g \in Channel /\ SameButTx(m, g) /\ Linked(g, y) /\ g.tx # <<>> /\ g.tx[Len(g.tx)].type = type
  BY <1>1, <1>2, <1>3, LinkedPush
<1>5. g.tx = m.tx \o <<Packet(type, 0)>>
  <2>1. type \in PacketTypes /\ 0 \in Nat
    BY DEF PacketTypes
  <2> QED
    BY <1>3, <2>1, PushFields, Zenon
<1> HIDE DEF g
<1>6. g.st = c.st /\ g.closes = then
  BY <1>3, <1>4 DEF SameButTx
<1>7. EndsInClose(g.tx) <=> type = "CLOSE"
  BY <1>4 DEF EndsInClose
<1> QED
  BY <1>1, <1>3, <1>4, <1>5, <1>6, <1>7

\* The end that takes CLOSE is gone; what it leaves behind is an end for the other, too.
LEMMA GotCloseLeaves ==
  ASSUME NEW c, NEW y \in Channel, NEW pr, Sound(c, y, pr), c.st = "open", y.st = "open",
         y.tx # <<>>, y.tx[1].type = "CLOSE", Promised(c)
  PROVE  /\ GotClose(c) \in Channel /\ GotClose(c).st = "none"
         /\ Left(GotClose(c).tx, Taken(y))
<1> DEFINE a == IF "SENT_EOF" \in c.closes THEN <<>> ELSE <<Packet("EOF", 0)>>
           b == IF "SENT_CLOSE" \in c.closes THEN <<>> ELSE <<Packet("CLOSE", 0)>>
           q == (c.tx \o a) \o b
           d == GotClose(c)
           z == Taken(y)
<1>1. c \in Channel /\ Linked(c, y) /\ Local(c, pr)
  BY DEF Sound
<1>2. q \in Queue /\ d \in Channel /\ d.st = "none" /\ d.tx = q
  BY <1>1, GotCloseIs
<1>3. Linked(c, z)
  BY IgnoredKeeps DEF Sound
<1>4. z \in Channel /\ z.st = "open" /\ z.tx = Tail(y.tx) /\ z.closes = y.closes
  BY TakenType
<1>5. "SENT_CLOSE" \in z.closes /\ z.tx = <<>>
  BY <1>1, <1>4, LinkedHead, Zenon
<1> HIDE DEF d, z
<1>6. EndsInClose(q) /\ \E g \in Channel : g.st = "open" /\ g.tx = q /\ Linked(g, z)
  <2> DEFINE s == c.tx
  <2>1. s \in Seq(PacketSet) /\ s \o <<>> = s
    BY <1>1, ChannelType DEF Queue
  <2>2. CASE "SENT_CLOSE" \in c.closes
    <3>1. "SENT_EOF" \in c.closes /\ EndsInClose(c.tx)
      BY <1>1, <2>2 DEF Local, Promised
    <3>2. q = (s \o <<>>) \o <<>>
      BY <2>2, <3>1
    <3>3. q = s
      BY <2>1, <3>2
    <3> QED
      BY <1>1, <1>3, <3>1, <3>3
  <2>3. CASE "SENT_CLOSE" \notin c.closes /\ "SENT_EOF" \in c.closes
    <3>1. PICK g \in Channel :
            g.st = c.st /\ g.tx = c.tx \o <<Packet("CLOSE", 0)>> /\ Linked(g, z) /\ EndsInClose(g.tx)
      BY <1>1, <1>3, <1>4, <2>3, GhostSends
    <3>2. q = (s \o <<>>) \o <<Packet("CLOSE", 0)>>
      BY <2>3
    <3>3. q = s \o <<Packet("CLOSE", 0)>>
      BY <2>1, <3>2
    <3>4. g.tx = q
      BY <3>1, <3>3
    <3> QED
      BY <3>1, <3>4
  <2>4. CASE "SENT_CLOSE" \notin c.closes /\ "SENT_EOF" \notin c.closes
    <3>1. PICK f \in Channel :
            f.st = c.st /\ f.tx = c.tx \o <<Packet("EOF", 0)>> /\ Linked(f, z)
            /\ "SENT_CLOSE" \notin f.closes
      BY <1>1, <1>3, <1>4, <2>4, GhostSends
    <3>2. PICK g \in Channel :
            g.st = f.st /\ g.tx = f.tx \o <<Packet("CLOSE", 0)>> /\ Linked(g, z) /\ EndsInClose(g.tx)
      BY <1>4, <3>1, GhostSends
    <3>3. q = (c.tx \o <<Packet("EOF", 0)>>) \o <<Packet("CLOSE", 0)>>
      BY <2>4
    <3>4. g.tx = q /\ g.st = "open"
      BY <3>1, <3>2, <3>3
    <3> QED
      BY <3>2, <3>4
  <2> QED
    BY <2>2, <2>3, <2>4
<1> HIDE DEF q
<1>7. Left(q, z)
  BY <1>4, <1>5, <1>6, LinkedBothWays DEF Left
<1> QED
  BY <1>2, <1>7 DEF d, z

-----------------------------------------------------------------------------
(* What a socket does to a channel, and to the program above it             *)

DataMove(c, pr, d, qr) ==
  /\ ~c.zombie /\ ~c.frozen /\ ~pr.ended
  /\ \E n \in Nat : /\ qr = [pr EXCEPT !.wrote = @ + n]
                    /\ d = pfd_receive(c, n)

EofMove(c, pr, d, qr) ==
  /\ ~c.zombie /\ ~c.frozen /\ ~pr.ended
  /\ qr = [pr EXCEPT !.ended = TRUE]
  /\ d = ssh2channel_write_eof(c)

ErrorMove(c, pr, d, qr) ==
  /\ ~c.zombie
  /\ qr = [pr EXCEPT !.broken = TRUE]
  /\ d = ssh2_channel_check_close([c EXCEPT !.zombie = TRUE, !.ready = FALSE, !.frozen = TRUE,
                                            !.backlog = 0, !.pending_eof = FALSE])

SentMove(c, pr, d, qr) ==
  /\ c.backlog > 0
  /\ qr = [pr EXCEPT !.got = @ + c.backlog, !.sawEnd = @ \/ "RCVD_EOF" \in c.closes]
  /\ d = Unthrottled(c, 0)

ThrottleMove(c, pr, d, qr) ==
  /\ qr = pr
  /\ \E t \in BOOLEAN : d = ssh2_channel_check_throttle([c EXCEPT !.throttled = t])

Moves(c, pr, d, qr) ==
  \/ DataMove(c, pr, d, qr) \/ EofMove(c, pr, d, qr) \/ ErrorMove(c, pr, d, qr)
  \/ SentMove(c, pr, d, qr) \/ ThrottleMove(c, pr, d, qr)

\* What is held of a program is that it goes on as it was, once it has ended.
LEMMA LocalOnward ==
  ASSUME NEW c, NEW pr, Local(c, pr), NEW qr, pr.ended => qr.ended
  PROVE  Local(c, qr)
BY DEF Local

LEMMA MovesProgram ==
  ASSUME NEW c \in Channel, NEW pr \in Program, NEW d, NEW qr, Moves(c, pr, d, qr)
  PROVE  qr \in Program /\ (pr.ended => qr.ended)
<1>1. CASE DataMove(c, pr, d, qr)
  <2>1. PICK n \in Nat : qr = [pr EXCEPT !.wrote = @ + n]
    BY <1>1 DEF DataMove
  <2>2. pr.wrote + n \in Nat
    BY DEF Program
  <2> DEFINE w == pr.wrote + n
  <2>3. qr = [pr EXCEPT !.wrote = w]
    BY <2>1 DEF Program
  <2>4. w \in Nat
    BY <2>2
  <2> HIDE DEF w
  <2> QED
    BY <2>3, <2>4 DEF Program
<1>2. CASE EofMove(c, pr, d, qr)
  BY <1>2 DEF EofMove, Program
<1>3. CASE ErrorMove(c, pr, d, qr)
  BY <1>3 DEF ErrorMove, Program
<1>4. CASE SentMove(c, pr, d, qr)
  <2> DEFINE g == pr.got + c.backlog
             saw == pr.sawEnd \/ "RCVD_EOF" \in c.closes
  <2>1. g \in Nat
    BY ChannelType DEF Program
  <2>2. saw \in BOOLEAN
    OBVIOUS
  <2>3. qr = [pr EXCEPT !.got = g, !.sawEnd = saw]
    BY <1>4 DEF SentMove, Program
  <2> HIDE DEF g, saw
  <2> QED
    BY <2>1, <2>2, <2>3 DEF Program
<1>5. CASE ThrottleMove(c, pr, d, qr)
  BY <1>5 DEF ThrottleMove
<1> QED
  BY <1>1, <1>2, <1>3, <1>4, <1>5 DEF Moves

\* A channel that is open says what its far end may count on.
LEMMA DataMoveKeeps ==
  ASSUME NEW c, NEW y \in Channel, NEW pr, NEW d, NEW qr, Sound(c, y, pr), pr.ended => qr.ended,
         DataMove(c, pr, d, qr)
  PROVE  Sound(d, y, qr) /\ Follows(c, d)
<1>1. c \in Channel /\ Linked(c, y) /\ Local(c, qr)
  BY LocalOnward DEF Sound
<1>2. PICK n \in Nat : d = IF c.ready THEN ssh2_try_send([c EXCEPT !.out = @ + n]) ELSE c
  BY DEF DataMove, pfd_receive
<1> DEFINE total == c.out + n
           m == [c EXCEPT !.out = total]
<1>3. total \in Nat
  BY <1>1, ChannelType
<1>4. m = [c EXCEPT !.out = @ + n]
  BY <1>1 DEF Channel
<1>5. "SENT_EOF" \notin c.closes
  BY DEF Sound, Local, DataMove
<1> HIDE DEF total
<1>6. /\ m \in Channel /\ m.closes = c.closes
      /\ m.st = c.st /\ m.tx = c.tx /\ m.remwindow = c.remwindow /\ m.locwindow = c.locwindow
      /\ m.chanreqs = c.chanreqs
  BY <1>1, <1>3 DEF Channel
<1>7. /\ m.zombie = c.zombie /\ m.backlog = c.backlog /\ m.pending_eof = c.pending_eof
      /\ m.locmaxwin = c.locmaxwin /\ m.throttling_conn = c.throttling_conn
      /\ m.frozen = c.frozen /\ m.throttled = c.throttled
  BY <1>1 DEF Channel
<1>8. d = IF c.ready THEN ssh2_try_send(m) ELSE c
  BY <1>2, <1>4
<1> HIDE DEF m
<1>9. Local(m, qr)
  BY <1>1, <1>6, <1>7 DEF Local
<1>10. Sound(m, y, qr) /\ Follows(c, m)
  BY <1>1, <1>6, <1>9, LinkedSame, FollowsSame DEF Sound
<1>11. Sound(ssh2_try_send(m), y, qr) /\ Follows(c, ssh2_try_send(m))
  BY <1>5, <1>6, <1>10, TrySendKeeps, FollowsTrans
<1>12. Sound(c, y, qr) /\ Follows(c, c)
  BY <1>1, FollowsSame DEF Sound
<1>13. CASE c.ready
  BY <1>8, <1>11, <1>13
<1>14. CASE ~c.ready
  BY <1>8, <1>12, <1>14
<1> QED
  BY <1>13, <1>14

LEMMA ErrorMoveKeeps ==
  ASSUME NEW c, NEW y \in Channel, NEW pr, NEW d, NEW qr, Sound(c, y, pr), pr.ended => qr.ended,
         ErrorMove(c, pr, d, qr)
  PROVE  Sound(d, y, qr) /\ Follows(c, d)
<1> DEFINE m == [c EXCEPT !.zombie = TRUE, !.ready = FALSE, !.frozen = TRUE,
                          !.backlog = 0, !.pending_eof = FALSE]
<1>1. c \in Channel /\ Linked(c, y) /\ Local(c, qr)
  BY LocalOnward DEF Sound
<1>2. d = ssh2_channel_check_close(m)
  BY DEF ErrorMove
<1>3. /\ m \in Channel /\ m.closes = c.closes
      /\ m.st = c.st /\ m.tx = c.tx /\ m.remwindow = c.remwindow /\ m.locwindow = c.locwindow
      /\ m.chanreqs = c.chanreqs
  BY <1>1 DEF Channel
<1>4. m.zombie /\ m.backlog = 0 /\ ~m.pending_eof
      /\ m.locmaxwin = c.locmaxwin /\ m.throttling_conn = c.throttling_conn
  BY <1>1 DEF Channel
<1>5. c.locwindow \in Int /\ c.backlog \in Nat /\ c.locmaxwin \in Nat
  BY <1>1, ChannelType
<1> HIDE DEF m
<1>6. c.locwindow + 0 <= c.locmaxwin
  BY <1>1, <1>5 DEF Local
<1>7. Local(m, qr)
  BY <1>1, <1>3, <1>4, <1>6 DEF Local
<1>8. Sound(m, y, qr) /\ Follows(c, m)
  BY <1>1, <1>3, <1>7, LinkedSame, FollowsSame DEF Sound
<1> QED
  BY <1>2, <1>8, CheckCloseKeeps, FollowsTrans

LEMMA ThrottleMoveKeeps ==
  ASSUME NEW c, NEW y \in Channel, NEW pr, NEW d, NEW qr, Sound(c, y, pr),
         ThrottleMove(c, pr, d, qr)
  PROVE  Sound(d, y, qr) /\ Follows(c, d)
<1>1. c \in Channel /\ qr = pr /\ c.st # "none"
  BY DEF Sound, Local, ThrottleMove
<1>2. PICK t \in BOOLEAN : d = ssh2_channel_check_throttle([c EXCEPT !.throttled = t])
  BY DEF ThrottleMove
<1> DEFINE m == [c EXCEPT !.throttled = t]
<1>3. /\ m \in Channel /\ m.closes = c.closes /\ m.pending_eof = c.pending_eof
      /\ m.zombie = c.zombie /\ m.st = c.st
  BY <1>1 DEF Channel
<1>4. m.throttled <=> t
  BY <1>1 DEF Channel
<1>5. CASE c.zombie
  <2>1. d = m
    BY <1>2, <1>3, <1>5 DEF ssh2_channel_check_throttle
  <2>2. m = [c EXCEPT !.frozen = c.frozen, !.throttled = t]
    BY <1>1 DEF Channel
  <2>3. c.frozen \in BOOLEAN
    BY <1>1, ChannelType
  <2> HIDE DEF m
  <2> QED
    BY <1>1, <1>5, <2>1, <2>2, <2>3, FrozenKeeps
<1>6. CASE ~c.zombie
  <2> DEFINE frozen == t \/ c.pending_eof \/ "SENT_EOF" \in c.closes
             f == m.throttled \/ m.pending_eof \/ "SENT_EOF" \in m.closes
  <2>1. d = [m EXCEPT !.frozen = f]
    BY <1>1, <1>2, <1>3, <1>6, Zenon DEF ssh2_channel_check_throttle
  <2>2. f = frozen /\ frozen \in BOOLEAN
    <3>1. f <=> frozen
      BY <1>3, <1>4
    <3> QED
      BY <3>1
  <2> HIDE DEF f
  <2>3. ~frozen \/ t \/ c.zombie \/ c.pending_eof \/ "SENT_EOF" \in c.closes
    OBVIOUS
  <2> HIDE DEF frozen
  <2>4. d = [c EXCEPT !.frozen = frozen, !.throttled = t]
    BY <1>1, <2>1, <2>2 DEF Channel
  <2> HIDE DEF m
  <2> QED
    BY <1>1, <2>2, <2>3, <2>4, FrozenKeeps
<1> QED
  BY <1>5, <1>6

LEMMA MovesKeeps ==
  ASSUME NEW c, NEW y \in Channel, NEW pr \in Program, NEW d, NEW qr, Sound(c, y, pr),
         Moves(c, pr, d, qr)
  PROVE  Sound(d, y, qr) /\ Follows(c, d)
<1>1. (pr.ended => qr.ended) /\ qr \in Program
  BY MovesProgram DEF Sound
<1>2. CASE DataMove(c, pr, d, qr)
  BY <1>1, <1>2, DataMoveKeeps
<1>3. CASE EofMove(c, pr, d, qr)
  <2>1. Sound(c, y, qr)
    BY <1>1, LocalOnward DEF Sound
  <2>2. qr.ended /\ ~c.zombie /\ d = ssh2channel_write_eof(c)
    BY <1>3 DEF EofMove, Program
  <2> QED
    BY <2>1, <2>2, WriteEofKeeps
<1>4. CASE ErrorMove(c, pr, d, qr)
  BY <1>1, <1>4, ErrorMoveKeeps
<1>5. CASE SentMove(c, pr, d, qr)
  <2>1. Sound(c, y, qr)
    BY <1>1, LocalOnward DEF Sound
  <2> QED
    BY <1>5, <2>1, UnthrottledKeeps DEF SentMove
<1>6. CASE ThrottleMove(c, pr, d, qr)
  BY <1>6, ThrottleMoveKeeps
<1> QED
  BY <1>2, <1>3, <1>4, <1>5, <1>6 DEF Moves

\* A channel that is half open sends nothing, whatever its socket comes to.
LEMMA MovesHalfOpen ==
  ASSUME NEW c \in Channel, NEW pr \in Program, NEW d, NEW qr, Local(c, pr), c.st = "halfopen",
         Moves(c, pr, d, qr)
  PROVE  d \in Channel /\ d.st = c.st /\ d.tx = c.tx /\ Local(d, qr)
<1>1. /\ c.closes = {} /\ c.chanreqs = <<>> /\ c.remwindow = 0
      /\ c.locwindow = WinSize /\ c.backlog = 0 /\ c.locwindow >= 0
      /\ c.locwindow + 0 <= c.locmaxwin /\ ~c.throttling_conn
  BY DEF Local
<1>2. Local(c, qr)
  BY MovesProgram, LocalOnward
<1>3. CASE DataMove(c, pr, d, qr)
  <2>1. PICK n \in Nat : d = IF c.ready THEN ssh2_try_send([c EXCEPT !.out = @ + n]) ELSE c
    BY <1>3 DEF DataMove, pfd_receive
  <2> DEFINE total == c.out + n
             m == [c EXCEPT !.out = total]
  <2>2. total \in Nat
    BY ChannelType
  <2>3. m = [c EXCEPT !.out = @ + n]
    BY DEF Channel
  <2> HIDE DEF total
  <2>4. /\ m \in Channel /\ m.closes = c.closes /\ m.zombie = c.zombie
        /\ m.st = c.st /\ m.tx = c.tx /\ m.remwindow = c.remwindow /\ m.locwindow = c.locwindow
        /\ m.chanreqs = c.chanreqs
    BY <2>2 DEF Channel
  <2>5. /\ m.backlog = c.backlog /\ m.pending_eof = c.pending_eof
        /\ m.locmaxwin = c.locmaxwin /\ m.throttling_conn = c.throttling_conn
    BY DEF Channel
  <2>6. d = IF c.ready THEN ssh2_try_send(m) ELSE c
    BY <2>1, <2>3
  <2> HIDE DEF m
  <2>7. ssh2_try_send(m) = m
    BY <2>4 DEF ssh2_try_send
  <2>8. d = m \/ d = c
    BY <2>6, <2>7
  <2>9. Local(m, qr)
    BY <1>1, <1>2, <2>4, <2>5 DEF Local
  <2> QED
    BY <1>2, <2>4, <2>8, <2>9
<1>4. CASE EofMove(c, pr, d, qr)
  <2> DEFINE m == [c EXCEPT !.pending_eof = TRUE]
  <2>1. qr.ended /\ ~c.zombie /\ d = ssh2channel_write_eof(c)
    BY <1>4 DEF EofMove, Program
  <2>2. /\ m \in Channel /\ m.closes = c.closes /\ m.zombie = c.zombie
        /\ m.st = c.st /\ m.tx = c.tx /\ m.remwindow = c.remwindow /\ m.locwindow = c.locwindow
        /\ m.chanreqs = c.chanreqs
    BY DEF Channel
  <2>3. /\ m.backlog = c.backlog
        /\ m.locmaxwin = c.locmaxwin /\ m.throttling_conn = c.throttling_conn
    BY DEF Channel
  <2>4. d = m
    BY <1>1, <2>1, <2>2 DEF ssh2channel_write_eof, ssh2_channel_try_eof
  <2> HIDE DEF m
  <2>5. Local(m, qr)
    BY <1>1, <2>1, <2>2, <2>3 DEF Local
  <2> QED
    BY <2>2, <2>4, <2>5
<1>5. CASE ErrorMove(c, pr, d, qr)
  <2> DEFINE m == [c EXCEPT !.zombie = TRUE, !.ready = FALSE, !.frozen = TRUE,
                            !.backlog = 0, !.pending_eof = FALSE]
  <2>1. d = ssh2_channel_check_close(m)
    BY <1>5 DEF ErrorMove
  <2>2. /\ m \in Channel /\ m.closes = c.closes
        /\ m.st = c.st /\ m.tx = c.tx /\ m.remwindow = c.remwindow /\ m.locwindow = c.locwindow
        /\ m.chanreqs = c.chanreqs
    BY DEF Channel
  <2>3. m.zombie /\ m.backlog = 0 /\ ~m.pending_eof
        /\ m.locmaxwin = c.locmaxwin /\ m.throttling_conn = c.throttling_conn
    BY DEF Channel
  <2> HIDE DEF m
  <2>4. d = m
    BY <2>1, <2>2 DEF ssh2_channel_check_close
  <2>5. Local(m, qr)
    BY <1>1, <2>2, <2>3 DEF Local
  <2> QED
    BY <2>2, <2>4, <2>5
<1>6. ~SentMove(c, pr, d, qr)
  BY <1>1 DEF SentMove
<1>7. CASE ThrottleMove(c, pr, d, qr)
  <2>1. PICK t \in BOOLEAN : d = ssh2_channel_check_throttle([c EXCEPT !.throttled = t])
    BY <1>7 DEF ThrottleMove
  <2> DEFINE m == [c EXCEPT !.throttled = t]
             f == m.throttled \/ m.pending_eof \/ "SENT_EOF" \in m.closes
             e == [m EXCEPT !.frozen = f]
  <2>2. /\ m \in Channel /\ m.closes = c.closes /\ m.zombie = c.zombie
        /\ m.st = c.st /\ m.tx = c.tx /\ m.remwindow = c.remwindow /\ m.locwindow = c.locwindow
        /\ m.chanreqs = c.chanreqs
    BY DEF Channel
  <2>3. /\ m.backlog = c.backlog /\ m.pending_eof = c.pending_eof
        /\ m.locmaxwin = c.locmaxwin /\ m.throttling_conn = c.throttling_conn
    BY DEF Channel
  <2>4. d = m \/ d = e
    BY <2>1, Zenon DEF ssh2_channel_check_throttle
  <2> HIDE DEF m
  <2>5. f \in BOOLEAN
    BY <2>2, ChannelType
  <2> HIDE DEF f
  <2>6. /\ e \in Channel /\ e.closes = m.closes /\ e.zombie = m.zombie
        /\ e.st = m.st /\ e.tx = m.tx /\ e.remwindow = m.remwindow /\ e.locwindow = m.locwindow
        /\ e.chanreqs = m.chanreqs
    BY <2>2, <2>5 DEF Channel
  <2>7. /\ e.backlog = m.backlog /\ e.pending_eof = m.pending_eof
        /\ e.locmaxwin = m.locmaxwin /\ e.throttling_conn = m.throttling_conn
    BY <2>2 DEF Channel
  <2> HIDE DEF e
  <2>8. Local(m, qr)
    BY <1>1, <1>2, <2>2, <2>3 DEF Local
  <2>9. Local(e, qr)
    BY <1>1, <2>2, <2>6, <2>7, <2>8 DEF Local
  <2> QED
    BY <2>2, <2>4, <2>6, <2>8, <2>9
<1> QED
  BY <1>3, <1>4, <1>5, <1>6, <1>7 DEF Moves

\* A packet is taken by a channel that is open, CLOSE excepted.
Takes(c, p, d) ==
  \/ p.type = "DATA" /\ \E left \in LeftOf(c, p.n) : d = GotData(c, p.n, left)
  \/ p.type = "WINDOW_ADJUST" /\ d = GotWindowAdjust(c, p)
  \/ p.type = "REQUEST" /\ d = GotRequest(c)
  \/ p.type = "FAILURE" /\ d = GotFailure(c)
  \/ p.type = "EOF" /\ d = GotEof(c)

LEMMA TakesKeeps ==
  ASSUME NEW c, NEW y \in Channel, NEW pr, Sound(c, y, pr), c.st = "open", y.tx # <<>>,
         NEW d, Takes(c, y.tx[1], d)
  PROVE  Sound(d, Taken(y), pr) /\ Follows(c, d) /\ y.tx[1].type # "CLOSE"
<1> DEFINE p == y.tx[1]
<1>1. CASE p.type = "DATA" /\ \E left \in LeftOf(c, p.n) : d = GotData(c, p.n, left)
  BY <1>1, GotDataKeeps
<1>2. CASE p.type = "WINDOW_ADJUST" /\ d = GotWindowAdjust(c, p)
  BY <1>2, GotWindowAdjustKeeps
<1>3. CASE p.type = "REQUEST" /\ d = GotRequest(c)
  BY <1>3, GotRequestKeeps
<1>4. CASE p.type = "FAILURE" /\ d = GotFailure(c)
  BY <1>4, GotFailureKeeps
<1>5. CASE p.type = "EOF" /\ d = GotEof(c)
  BY <1>5, GotEofKeeps
<1> QED
  BY <1>1, <1>2, <1>3, <1>4, <1>5 DEF Takes

LEMMA PromiseTaken ==
  ASSUME NEW q \in Queue, EndsInClose(q), q[1].type # "CLOSE"
  PROVE  EndsInClose(Tail(q))
<1>1. q \in Seq(PacketSet) /\ q # <<>> /\ q[Len(q)].type = "CLOSE"
  BY DEF Queue, EndsInClose
<1>2. Len(q) \in Nat /\ Len(q) # 0 /\ Len(q) # 1
  BY <1>1
<1>3. Tail(q) \in Seq(PacketSet) /\ Len(Tail(q)) = Len(q) - 1
  BY <1>1
<1>4. Tail(q)[Len(q) - 1] = q[Len(q)]
  BY <1>1, <1>2, <1>3
<1>5. Tail(q) # <<>>
  BY <1>2, <1>3
<1> QED
  BY <1>1, <1>3, <1>4, <1>5 DEF EndsInClose

-----------------------------------------------------------------------------
(* An end whose far end is gone                                             *)

LEMMA LeftMoves ==
  ASSUME NEW c \in Channel, NEW pr \in Program, NEW d, NEW qr, Local(c, pr), NEW q, Left(q, c),
         Moves(c, pr, d, qr)
  PROVE  d \in Channel /\ Local(d, qr) /\ Left(q, d)
<1>1. PICK g \in Channel : g.st = "open" /\ g.tx = q /\ Linked(c, g)
  BY DEF Left
<1>2. Sound(d, g, qr) /\ Follows(c, d)
  BY <1>1, MovesKeeps DEF Sound
<1>3. d.st = "open" /\ "SENT_CLOSE" \in d.closes /\ d.tx = <<>>
  BY <1>2 DEF Follows, Left
<1> QED
  BY <1>1, <1>2, <1>3 DEF Left, Sound

LEMMA LeftTakes ==
  ASSUME NEW c \in Channel, NEW pr \in Program, NEW d, Local(c, pr), NEW q, Left(q, c),
         Takes(c, q[1], d)
  PROVE  q # <<>> /\ d \in Channel /\ Local(d, pr) /\ Left(Tail(q), d)
<1>1. PICK g \in Channel : g.st = "open" /\ g.tx = q /\ Linked(c, g)
  BY DEF Left
<1>2. q # <<>> /\ EndsInClose(q) /\ c.st = "open"
  BY DEF Left, EndsInClose
<1>3. Sound(d, Taken(g), pr) /\ Follows(c, d) /\ q[1].type # "CLOSE"
  BY <1>1, <1>2, TakesKeeps DEF Sound
<1>4. d.st = "open" /\ "SENT_CLOSE" \in d.closes /\ d.tx = <<>>
  BY <1>3 DEF Follows, Left
<1>5. q \in Queue
  BY <1>1, ChannelType
<1>6. EndsInClose(Tail(q))
  BY <1>2, <1>3, <1>5, PromiseTaken
<1>7. Taken(g) \in Channel /\ Taken(g).st = "open" /\ Taken(g).tx = Tail(q)
  BY <1>1, <1>2, TakenType
<1> QED
  BY <1>2, <1>3, <1>4, <1>6, <1>7 DEF Left, Sound

LEMMA LeftCloses ==
  ASSUME NEW c \in Channel, NEW pr \in Program, Local(c, pr), NEW q, Left(q, c),
         q[1].type = "CLOSE"
  PROVE  /\ Tail(q) = <<>>
         /\ GotClose(c) \in Channel /\ GotClose(c).st = "none" /\ GotClose(c).tx = <<>>
<1>1. PICK g \in Channel : g.st = "open" /\ g.tx = q /\ Linked(c, g)
  BY DEF Left
<1>2. q # <<>> /\ "SENT_CLOSE" \in c.closes /\ "SENT_EOF" \in c.closes /\ c.tx = <<>>
  BY DEF Left, EndsInClose, Local
<1>3. Tail(q) = <<>>
  BY <1>1, <1>2, LinkedHead, Zenon
<1> DEFINE d == GotClose(c)
<1>4. d \in Channel /\ d.st = "none" /\ d.tx = (<<>> \o <<>>) \o <<>>
  <2>1. LET a == IF "SENT_EOF" \in c.closes THEN <<>> ELSE <<Packet("EOF", 0)>>
            b == IF "SENT_CLOSE" \in c.closes THEN <<>> ELSE <<Packet("CLOSE", 0)>>
        IN d \in Channel /\ d.st = "none" /\ d.tx = (c.tx \o a) \o b
    BY GotCloseIs, Zenon
  <2> HIDE DEF d
  <2> QED
    BY <1>2, <2>1
<1>5. (<<>> \o <<>>) \o <<>> = <<>>
  OBVIOUS
<1> QED
  BY <1>3, <1>4, <1>5

\* What the end that is left may count on.
LEMMA LeftHead ==
  ASSUME NEW c \in Channel, NEW q, Left(q, c)
  PROVE  LET p == q[1]
         IN /\ q \in Queue /\ q # <<>> /\ p \in PacketSet
            /\ p.type \notin {"CHANNEL_OPEN", "OPEN_FAILURE", "OPEN_CONFIRMATION"}
            /\ p.type \in {"DATA", "EOF"} => "RCVD_EOF" \notin c.closes
            /\ p.type = "FAILURE" => c.chanreqs # <<>>
<1>1. PICK g \in Channel : g.st = "open" /\ g.tx = q /\ Linked(c, g)
  BY DEF Left
<1>2. q # <<>> /\ c.st = "open"
  BY DEF Left, EndsInClose
<1>3. q \in Queue
  BY <1>1, ChannelType
<1>4. LET p == g.tx[1]
      IN /\ p \in PacketSet
         /\ p.type \notin {"CHANNEL_OPEN", "OPEN_FAILURE"}
         /\ c.st = "halfopen" <=> p.type = "OPEN_CONFIRMATION"
         /\ p.type \in {"DATA", "EOF"} => "RCVD_EOF" \notin c.closes
         /\ p.type = "FAILURE" => c.chanreqs # <<>>
  BY <1>1, <1>2, LinkedHead, Zenon
<1> QED
  BY <1>1, <1>2, <1>3, <1>4

-----------------------------------------------------------------------------
(* The opening of a channel                                                 *)

LEMMA WindowEmpty ==
  ASSUME NEW q \in Queue, NEW back \in Queue, NEW rem \in Nat, NEW loc \in Int, NEW a \in Nat,
         \A i \in 1..Len(q) : Weighs("data", q[i]) = 0, Adds(back, "grant", a), rem + a <= loc
  PROVE  Window(q, back, rem, loc)
<1>1. Adds(q, "data", 0)
  BY AddsNothing
<1>2. rem + 0 + a <= loc /\ 0 \in Nat
  OBVIOUS
<1> QED
  BY <1>1, <1>2 DEF Window

LEMMA AnsweredEmpty ==
  ASSUME NEW q \in Queue, NEW back \in Queue,
         \A i \in 1..Len(q) : Weighs("request", q[i]) = 0,
         \A i \in 1..Len(back) : Weighs("failure", back[i]) = 0
  PROVE  Answered(q, back, 0)
<1>1. Adds(q, "request", 0) /\ Adds(back, "failure", 0)
  BY AddsNothing
<1>2. 0 + 0 <= 0 /\ 0 \in Nat
  OBVIOUS
<1> QED
  BY <1>1, <1>2 DEF Answered

\* The server answers the CHANNEL_OPEN of a client x.
LEMMA GotOpenLinks ==
  ASSUME NEW c \in Channel, c.tx = <<>>, NEW x \in Channel, NEW pr, Local(x, pr),
         x.st = "halfopen", x.tx = <<Packet("CHANNEL_OPEN", WinSize)>>, NEW qr,
         NEW d, d = GotOpen(c, x.tx[1])
  PROVE  /\ d \in Channel /\ d.st = "open" /\ "SENT_CLOSE" \notin d.closes
         /\ Local(d, qr) /\ Linked(Taken(x), d)
         /\ Taken(x) \in Channel /\ Taken(x).st = "halfopen" /\ Taken(x).tx = <<>>
         /\ Local(Taken(x), pr)
<1> DEFINE z == Taken(x)
           f == Fresh(c)
           n == x.tx[1].n
           e == [f EXCEPT !.st = "open", !.ready = TRUE, !.frozen = FALSE, !.remwindow = n]
           p == Packet("OPEN_CONFIRMATION", WinSize)
           r == <<p>>
<1>1. WinSize \in Nat
  BY SshAssumption
<1>2. n = WinSize /\ x.tx # <<>> /\ Tail(x.tx) = <<>>
  BY DEF Packet
<1>3. d = Push(e, "OPEN_CONFIRMATION", WinSize)
  BY <1>2, Zenon DEF GotOpen
<1>4. /\ f \in Channel /\ f.tx = <<>> /\ f.closes = {} /\ f.chanreqs = <<>> /\ f.locwindow = WinSize
      /\ f.backlog = 0 /\ ~f.zombie /\ ~f.pending_eof /\ f.locmaxwin = WinSize /\ ~f.throttling_conn
  <2>1. c.throttled \in BOOLEAN /\ c.tx \in Queue
    BY ChannelType
  <2> QED
    BY <2>1, FreshIs
<1> HIDE DEF f, n
<1>5. /\ e \in Channel /\ e.st = "open" /\ e.tx = <<>> /\ e.closes = {} /\ e.chanreqs = <<>>
      /\ e.locwindow = WinSize /\ e.remwindow = WinSize
  BY <1>1, <1>2, <1>4 DEF Channel
<1>6. e.backlog = 0 /\ ~e.zombie /\ ~e.pending_eof /\ e.locmaxwin = WinSize /\ ~e.throttling_conn
      /\ ~e.frozen
  BY <1>4 DEF Channel
<1> HIDE DEF e, p, z
<1>7. p \in PacketSet /\ d \in Channel /\ d.tx = e.tx \o r /\ SameButTx(e, d)
  <2>1. "OPEN_CONFIRMATION" \in PacketTypes
    BY DEF PacketTypes
  <2> QED
    <3>1. /\ Packet("OPEN_CONFIRMATION", WinSize) \in PacketSet
          /\ Push(e, "OPEN_CONFIRMATION", WinSize) \in Channel
          /\ SameButTx(e, Push(e, "OPEN_CONFIRMATION", WinSize))
      BY <1>1, <1>5, <2>1, PushFields, Zenon
    <3>2. Push(e, "OPEN_CONFIRMATION", WinSize).tx = Append(e.tx, Packet("OPEN_CONFIRMATION", WinSize))
      BY <1>5 DEF Push, Channel
    <3>3. Append(<<>>, p) = <<>> \o <<p>>
      BY <3>1 DEF p
    <3> QED
      BY <1>3, <1>5, <3>1, <3>2, <3>3 DEF p
<1>8. p.type = "OPEN_CONFIRMATION" /\ p.n = WinSize
  BY DEF p, Packet
<1>9. d.tx = r
  <2>1. d.tx = <<>> \o r
    BY <1>5, <1>7
  <2> QED
    BY <2>1
<1>10. /\ d.st = "open" /\ d.closes = {} /\ d.chanreqs = <<>> /\ d.locwindow = WinSize
       /\ d.remwindow = WinSize /\ d.backlog = 0 /\ ~d.zombie /\ ~d.pending_eof
       /\ d.locmaxwin = WinSize /\ ~d.throttling_conn /\ ~d.frozen
  BY <1>5, <1>6, <1>7 DEF SameButTx
<1>11. Local(d, qr)
  BY <1>1, <1>10 DEF Local
<1>12. z \in Channel /\ z.tx = <<>> /\ z.st = "halfopen" /\ z.remwindow = 0 /\ z.locwindow = WinSize
       /\ z.closes = {} /\ z.chanreqs = <<>>
  <2>1. /\ z \in Channel /\ z.tx = Tail(x.tx) /\ z.st = x.st /\ z.remwindow = x.remwindow
        /\ z.locwindow = x.locwindow /\ z.closes = x.closes /\ z.chanreqs = x.chanreqs
    BY <1>2, TakenType DEF z
  <2> QED
    BY <1>2, <2>1 DEF Local
<1>13. Local(z, pr)
  <2>1. /\ z.zombie = x.zombie /\ z.pending_eof = x.pending_eof /\ z.backlog = x.backlog
        /\ z.locmaxwin = x.locmaxwin /\ z.throttling_conn = x.throttling_conn
        /\ z.locwindow = x.locwindow
    BY DEF z, Taken, Channel
  <2> QED
    BY <1>12, <2>1 DEF Local
<1> DEFINE o == <<>>
<1>14. r \in Queue /\ r # <<>> /\ o \in Queue /\ Len(r) = 1 /\ r[1] = p /\ Len(o) = 0
       /\ \A i \in 1..Len(r) : r[i] = p
  BY <1>7 DEF Queue
<1>15. /\ Weighs("data", p) = 0 /\ Weighs("grant", p) = WinSize /\ Weighs("request", p) = 0
       /\ Weighs("failure", p) = 0
  BY <1>8 DEF Weighs
<1>16. Adds(r, "grant", WinSize)
  BY <1>7, <1>15, AddsOne
<1> HIDE DEF r
<1>17. Adds(o, "grant", 0)
  BY <1>14, AddsNothing
<1> HIDE DEF o
<1>18. Window(o, r, 0, WinSize)
  <2>1. 0 + WinSize <= WinSize /\ 0 \in Nat /\ WinSize \in Int /\ \A i \in 1..Len(o) : Weighs("data", o[i]) = 0
    BY <1>1, <1>14
  <2> QED
    BY <1>1, <1>14, <1>16, <2>1, WindowEmpty
<1>19. Window(r, o, WinSize, WinSize)
  <2>1. WinSize + 0 <= WinSize /\ 0 \in Nat /\ WinSize \in Int /\ \A i \in 1..Len(r) : Weighs("data", r[i]) = 0
    BY <1>1, <1>14, <1>15
  <2> QED
    BY <1>1, <1>14, <1>17, <2>1, WindowEmpty
<1>20. Answered(o, r, 0) /\ Answered(r, o, 0)
  <2>1. /\ \A i \in 1..Len(o) : Weighs("request", o[i]) = 0
        /\ \A i \in 1..Len(o) : Weighs("failure", o[i]) = 0
        /\ \A i \in 1..Len(r) : Weighs("request", r[i]) = 0
        /\ \A i \in 1..Len(r) : Weighs("failure", r[i]) = 0
    BY <1>14, <1>15
  <2> QED
    BY <1>14, <2>1, AnsweredEmpty
<1>21. Stream(o, {}, {}, "open")
  BY <1>14 DEF Stream
<1>22. Stream(r, {}, {}, "halfopen")
  <2>1. \A i \in 1..Len(r) : i = 1 /\ r[i].type = "OPEN_CONFIRMATION"
    BY <1>8, <1>14
  <2>2. r # <<>>
    BY <1>14
  <2> QED
    <3>1. ASSUME NEW i \in 1..Len(r)
          PROVE  /\ r[i].type \notin {"CHANNEL_OPEN", "OPEN_FAILURE"}
                 /\ r[i].type = "OPEN_CONFIRMATION" => i = 1 /\ "halfopen" = "halfopen"
                 /\ r[i].type = "EOF" => "SENT_EOF" \in {}
                 /\ r[i].type = "EOF" => \A j \in (i + 1)..Len(r) : r[j].type \notin {"DATA", "EOF"}
                 /\ r[i].type = "CLOSE" => i = Len(r) /\ "SENT_CLOSE" \in {}
                 /\ r[i].type \in {"DATA", "EOF"} => "RCVD_EOF" \notin {}
      BY <2>1
    <3>2. r[1].type = "OPEN_CONFIRMATION"
      BY <1>8, <1>14
    <3>3. "RCVD_EOF" \in {} => "SENT_EOF" \in {}
      OBVIOUS
    <3> QED
      BY <2>2, <3>1, <3>2, <3>3, Zenon DEF Stream
<1>23. z.tx = o
  BY <1>12 DEF o
<1>24. Len(z.chanreqs) = 0 /\ Len(d.chanreqs) = 0
  BY <1>10, <1>12
<1>25. Linked(z, d)
  BY <1>9, <1>10, <1>12, <1>18, <1>19, <1>20, <1>21, <1>22, <1>23, <1>24 DEF Linked, Towards
<1> QED
  BY <1>7, <1>10, <1>11, <1>12, <1>13, <1>25 DEF z

-----------------------------------------------------------------------------
(* The two ends                                                             *)

Asks(q) == q \o <<Packet("CHANNEL_OPEN", WinSize)>>

Idle(c, s) == c.st = "none" /\ s.st = "none" /\ c.tx = <<>> /\ s.tx = <<>>

\* The server, done with an old channel or about to be, has the request for a new one to read.
Asking(c, s) ==
  /\ c.st = "halfopen" /\ s.tx = <<>>
  /\ \E q \in Queue : /\ c.tx = Asks(q)
                      /\ (s.st = "none" /\ q = <<>>) \/ Left(q, s)

Refused(c, s) ==
  /\ c.st = "halfopen" /\ c.tx = <<>>
  /\ s.st = "none" /\ s.tx = <<Packet("OPEN_FAILURE", 0)>>

Talking(c, s) ==
  /\ c.st # "none" /\ s.st = "open"
  /\ Linked(c, s) /\ Promised(c) /\ Promised(s)
  /\ c.st = "halfopen" => c.tx = <<>>

ClientLeft(c, s) == c.st = "none" /\ Left(c.tx, s)
ServerLeft(c, s) == s.st = "none" /\ Left(s.tx, c)

Related(c, s, asked) ==
  IF asked THEN Asking(c, s)
  ELSE Idle(c, s) \/ Refused(c, s) \/ Talking(c, s) \/ ClientLeft(c, s) \/ ServerLeft(c, s)

LEMMA AsksIs ==
  ASSUME NEW q \in Queue
  PROVE  /\ Asks(q) \in Queue /\ Asks(q) # <<>>
         /\ q # <<>> => Asks(q)[1] = q[1] /\ Tail(Asks(q)) = Asks(Tail(q))
         /\ q = <<>> => Asks(q) = <<Packet("CHANNEL_OPEN", WinSize)>>
<1> DEFINE p == Packet("CHANNEL_OPEN", WinSize)
<1>1. p \in PacketSet
  BY SshAssumption DEF Packet, PacketSet, PacketTypes
<1> HIDE DEF p
<1>2. q \in Seq(PacketSet) /\ <<p>> \in Seq(PacketSet) /\ Len(<<p>>) = 1
  BY <1>1 DEF Queue
<1>3. q \o <<p>> \in Seq(PacketSet) /\ Len(q \o <<p>>) = Len(q) + 1 /\ Len(q) \in Nat
  BY <1>2
<1>4. q \o <<p>> # <<>>
  BY <1>3
<1>5. ASSUME q # <<>>
      PROVE  (q \o <<p>>)[1] = q[1] /\ Tail(q \o <<p>>) = Tail(q) \o <<p>>
  <2> DEFINE s == q \o <<p>>
             u == Tail(q)
             v == u \o <<p>>
  <2>1. Len(q) # 0 /\ u \in Seq(PacketSet) /\ Len(u) = Len(q) - 1
    BY <1>2, <1>5
  <2>2. v \in Seq(PacketSet) /\ Len(v) = Len(q)
    BY <1>2, <1>3, <2>1
  <2>3. Tail(s) \in Seq(PacketSet) /\ Len(Tail(s)) = Len(q)
    BY <1>3
  <2>4. ASSUME NEW i \in 1..Len(q)
        PROVE  Tail(s)[i] = v[i]
    <3>1. Tail(s)[i] = s[i + 1]
      BY <1>3
    <3>2. CASE i = Len(q)
      BY <1>2, <1>3, <2>1, <3>1, <3>2
    <3>3. CASE i < Len(q)
      <4>1. s[i + 1] = q[i + 1]
        BY <1>2, <3>3
      <4>2. v[i] = u[i] /\ u[i] = q[i + 1]
        BY <1>2, <2>1, <3>3
      <4> QED
        BY <3>1, <4>1, <4>2
    <3> QED
      BY <1>3, <3>2, <3>3
  <2>5. Tail(s) = v
    <3> HIDE DEF s, v
    <3> QED
      BY <2>2, <2>3, <2>4, SeqEqual
  <2>6. s[1] = q[1]
    BY <1>2, <2>1
  <2> QED
    BY <2>5, <2>6
<1>6. q = <<>> => q \o <<p>> = <<p>>
  BY <1>2
<1> QED
  BY <1>3, <1>4, <1>5, <1>6 DEF Asks, Queue, p

LEMMA FollowsPromise ==
  ASSUME NEW c, NEW d, Follows(c, d), Promised(c)
  PROVE  Promised(d)
BY DEF Follows, Promised

LEMMA TakenLocal ==
  ASSUME NEW y \in Channel, y.tx # <<>>, NEW pr, Local(y, pr)
  PROVE  Local(Taken(y), pr)
<1>1. /\ Taken(y).st = y.st /\ Taken(y).remwindow = y.remwindow /\ Taken(y).locwindow = y.locwindow
      /\ Taken(y).closes = y.closes /\ Taken(y).chanreqs = y.chanreqs
      /\ Taken(y).zombie = y.zombie
  BY TakenType
<1>2. /\ Taken(y).pending_eof = y.pending_eof /\ Taken(y).backlog = y.backlog
      /\ Taken(y).locmaxwin = y.locmaxwin /\ Taken(y).throttling_conn = y.throttling_conn
      /\ Taken(y).frozen = y.frozen /\ Taken(y).throttled = y.throttled
  BY DEF Taken, Channel
<1> QED
  BY <1>1, <1>2 DEF Local

LEMMA TakenPromise ==
  ASSUME NEW y \in Channel, y.tx # <<>>, Promised(y), y.tx[1].type # "CLOSE"
  PROVE  Promised(Taken(y))
<1>1. Taken(y).tx = Tail(y.tx) /\ Taken(y).closes = y.closes /\ y.tx \in Queue
  BY TakenType, ChannelType
<1>2. EndsInClose(y.tx) => EndsInClose(Tail(y.tx))
  BY <1>1, PromiseTaken
<1> QED
  BY <1>1, <1>2 DEF Promised

LEMMA ClientMoves ==
  ASSUME NEW c \in Channel, NEW s \in Channel, NEW pr \in Program, Local(c, pr), NEW asked \in BOOLEAN,
         Related(c, s, asked), NEW d, NEW qr, Moves(c, pr, d, qr)
  PROVE  d \in Channel /\ Local(d, qr) /\ Related(d, s, asked)
<1>1. c.st # "none"
  BY DEF Local
<1>2. CASE (asked /\ Asking(c, s)) \/ (~asked /\ Refused(c, s))
  <2>1. c.st = "halfopen"
    BY <1>2 DEF Asking, Refused
  <2>2. d \in Channel /\ d.st = c.st /\ d.tx = c.tx /\ Local(d, qr)
    BY <2>1, MovesHalfOpen
  <2>3. Asking(c, s) => Asking(d, s)
    BY <2>2 DEF Asking
  <2>4. Refused(c, s) => Refused(d, s)
    BY <2>2 DEF Refused
  <2> QED
    BY <1>2, <2>2, <2>3, <2>4 DEF Related
<1>3. CASE ~asked /\ Talking(c, s)
  <2>1. Sound(d, s, qr) /\ Follows(c, d)
    BY <1>3, MovesKeeps DEF Sound, Talking
  <2>2. Talking(d, s)
    BY <1>3, <2>1, FollowsPromise DEF Talking, Sound, Follows
  <2> QED
    BY <1>3, <2>1, <2>2 DEF Related, Sound
<1>4. CASE ~asked /\ ServerLeft(c, s)
  <2>1. d \in Channel /\ Local(d, qr) /\ Left(s.tx, d)
    BY <1>4, LeftMoves DEF ServerLeft
  <2> QED
    BY <1>4, <2>1 DEF Related, ServerLeft
<1>5. ~Idle(c, s) /\ ~ClientLeft(c, s)
  BY <1>1 DEF Idle, ClientLeft
<1>6. (asked /\ Asking(c, s)) \/ (~asked /\ (Refused(c, s) \/ Talking(c, s) \/ ServerLeft(c, s)))
  BY <1>5, Zenon DEF Related
<1> QED
  BY <1>2, <1>3, <1>4, <1>6, Zenon

LEMMA ServerMoves ==
  ASSUME NEW c \in Channel, NEW s \in Channel, NEW pr \in Program, Local(s, pr), NEW asked \in BOOLEAN,
         Related(c, s, asked), NEW d, NEW qr, Moves(s, pr, d, qr)
  PROVE  d \in Channel /\ Local(d, qr) /\ Related(c, d, asked)
<1>1. s.st # "none"
  BY DEF Local
<1>2. CASE asked
  <2>1. PICK q \in Queue : c.tx = Asks(q) /\ Left(q, s)
    BY <1>1, <1>2 DEF Related, Asking
  <2>2. d \in Channel /\ Local(d, qr) /\ Left(q, d)
    BY <2>1, LeftMoves
  <2>3. Asking(c, d)
    BY <1>2, <2>1, <2>2 DEF Related, Asking, Left
  <2> QED
    BY <1>2, <2>2, <2>3 DEF Related
<1>3. CASE ~asked /\ Talking(c, s)
  <2>1. Sound(d, c, qr) /\ Follows(s, d)
    BY <1>3, MovesKeeps, LinkedBothWays DEF Sound, Talking
  <2>2. Talking(c, d)
    BY <1>3, <2>1, FollowsPromise, LinkedBothWays DEF Talking, Sound, Follows
  <2> QED
    BY <1>3, <2>1, <2>2 DEF Related, Sound
<1>4. CASE ~asked /\ ClientLeft(c, s)
  <2>1. d \in Channel /\ Local(d, qr) /\ Left(c.tx, d)
    BY <1>4, LeftMoves DEF ClientLeft
  <2> QED
    BY <1>4, <2>1 DEF Related, ClientLeft
<1> QED
  BY <1>1, <1>2, <1>3, <1>4 DEF Related, Idle, ServerLeft, Refused

LEMMA ClientTakes ==
  ASSUME NEW c \in Channel, NEW s \in Channel, NEW pr \in Program, Local(c, pr), c.st = "open",
         NEW asked \in BOOLEAN, Related(c, s, asked), s.tx # <<>>, NEW d, Takes(c, s.tx[1], d)
  PROVE  d \in Channel /\ Local(d, pr) /\ Related(d, Taken(s), asked)
<1>1. ~asked /\ (Talking(c, s) \/ ServerLeft(c, s))
  BY DEF Related, Asking, Idle, Refused, ClientLeft
<1>2. Taken(s).tx = Tail(s.tx) /\ Taken(s).st = s.st
  BY TakenType
<1>3. CASE Talking(c, s)
  <2>1. Sound(d, Taken(s), pr) /\ Follows(c, d) /\ s.tx[1].type # "CLOSE"
    BY <1>3, TakesKeeps DEF Sound, Talking
  <2>2. Promised(Taken(s)) /\ Promised(d)
    BY <1>3, <2>1, TakenPromise, FollowsPromise DEF Talking
  <2>3. Talking(d, Taken(s))
    BY <1>2, <1>3, <2>1, <2>2 DEF Talking, Sound, Follows
  <2> QED
    BY <1>1, <2>1, <2>3 DEF Related, Sound
<1>4. CASE ServerLeft(c, s)
  <2>1. d \in Channel /\ Local(d, pr) /\ Left(Tail(s.tx), d)
    BY <1>4, LeftTakes DEF ServerLeft
  <2>2. ServerLeft(d, Taken(s))
    BY <1>2, <1>4, <2>1 DEF ServerLeft
  <2> QED
    BY <1>1, <2>1, <2>2 DEF Related
<1> QED
  BY <1>1, <1>3, <1>4

LEMMA ServerTakes ==
  ASSUME NEW c \in Channel, NEW s \in Channel, NEW pr \in Program, Local(s, pr), s.st = "open",
         NEW asked \in BOOLEAN, Related(c, s, asked), c.tx # <<>>, NEW d, Takes(s, c.tx[1], d)
  PROVE  d \in Channel /\ Local(d, pr) /\ Related(Taken(c), d, asked)
<1>1. Taken(c).tx = Tail(c.tx) /\ Taken(c).st = c.st
  BY TakenType
<1>2. CASE asked
  <2>1. PICK q \in Queue : c.tx = Asks(q) /\ Left(q, s)
    BY <1>2 DEF Related, Asking
  <2>2. q # <<>>
    BY <2>1 DEF Left, EndsInClose
  <2>3. c.tx[1] = q[1] /\ Tail(c.tx) = Asks(Tail(q)) /\ Tail(q) \in Queue
    BY <2>1, <2>2, AsksIs DEF Queue
  <2>4. d \in Channel /\ Local(d, pr) /\ Left(Tail(q), d)
    BY <2>1, <2>3, LeftTakes
  <2>5. Asking(Taken(c), d)
    BY <1>1, <1>2, <2>3, <2>4 DEF Related, Asking, Left
  <2> QED
    BY <1>2, <2>4, <2>5 DEF Related
<1>3. CASE ~asked /\ Talking(c, s)
  <2>1. Sound(d, Taken(c), pr) /\ Follows(s, d) /\ c.tx[1].type # "CLOSE"
    BY <1>3, TakesKeeps, LinkedBothWays DEF Sound, Talking
  <2>2. Promised(Taken(c)) /\ Promised(d)
    BY <1>3, <2>1, TakenPromise, FollowsPromise DEF Talking
  <2>3. Talking(Taken(c), d)
    BY <1>1, <1>3, <2>1, <2>2, LinkedBothWays DEF Talking, Sound, Follows
  <2> QED
    BY <1>3, <2>1, <2>3 DEF Related, Sound
<1>4. CASE ~asked /\ ClientLeft(c, s)
  <2>1. d \in Channel /\ Local(d, pr) /\ Left(Tail(c.tx), d)
    BY <1>4, LeftTakes DEF ClientLeft
  <2>2. ClientLeft(Taken(c), d)
    BY <1>1, <1>4, <2>1 DEF ClientLeft
  <2> QED
    BY <1>4, <2>1, <2>2 DEF Related
<1> QED
  BY <1>2, <1>3, <1>4 DEF Related, Idle, ServerLeft, Refused

LEMMA ClientCloses ==
  ASSUME NEW c \in Channel, NEW s \in Channel, NEW pr \in Program, Local(c, pr), c.st = "open",
         NEW asked \in BOOLEAN, Related(c, s, asked), s.tx # <<>>, s.tx[1].type = "CLOSE"
  PROVE  /\ GotClose(c) \in Channel /\ GotClose(c).st = "none"
         /\ Related(GotClose(c), Taken(s), asked)
<1>1. ~asked /\ (Talking(c, s) \/ ServerLeft(c, s))
  BY DEF Related, Asking, Idle, Refused, ClientLeft
<1>2. Taken(s).tx = Tail(s.tx) /\ Taken(s).st = s.st
  BY TakenType
<1>3. CASE Talking(c, s)
  <2>1. /\ GotClose(c) \in Channel /\ GotClose(c).st = "none"
        /\ Left(GotClose(c).tx, Taken(s))
    BY <1>3, GotCloseLeaves DEF Talking, Sound
  <2>2. ClientLeft(GotClose(c), Taken(s))
    BY <2>1 DEF ClientLeft
  <2> QED
    BY <1>1, <2>1, <2>2 DEF Related
<1>4. CASE ServerLeft(c, s)
  <2>1. /\ Tail(s.tx) = <<>>
        /\ GotClose(c) \in Channel /\ GotClose(c).st = "none" /\ GotClose(c).tx = <<>>
    BY <1>4, LeftCloses DEF ServerLeft
  <2>2. Idle(GotClose(c), Taken(s))
    BY <1>2, <1>4, <2>1 DEF Idle, ServerLeft
  <2> QED
    BY <1>1, <2>1, <2>2 DEF Related
<1> QED
  BY <1>1, <1>3, <1>4

LEMMA ServerCloses ==
  ASSUME NEW c \in Channel, NEW s \in Channel, NEW pr \in Program, Local(s, pr), s.st = "open",
         NEW asked \in BOOLEAN, Related(c, s, asked), c.tx # <<>>, c.tx[1].type = "CLOSE"
  PROVE  /\ GotClose(s) \in Channel /\ GotClose(s).st = "none"
         /\ Related(Taken(c), GotClose(s), asked)
<1>1. Taken(c).tx = Tail(c.tx) /\ Taken(c).st = c.st
  BY TakenType
<1>2. CASE asked
  <2>1. PICK q \in Queue : c.tx = Asks(q) /\ Left(q, s)
    BY <1>2 DEF Related, Asking
  <2>2. q # <<>>
    BY <2>1 DEF Left, EndsInClose
  <2>3. c.tx[1] = q[1] /\ Tail(c.tx) = Asks(Tail(q))
    BY <2>1, <2>2, AsksIs
  <2>4. /\ Tail(q) = <<>>
        /\ GotClose(s) \in Channel /\ GotClose(s).st = "none" /\ GotClose(s).tx = <<>>
    BY <2>1, <2>3, LeftCloses
  <2>5. Tail(q) \in Queue
    BY <2>2 DEF Queue
  <2>6. Asking(Taken(c), GotClose(s))
    BY <1>1, <1>2, <2>3, <2>4, <2>5 DEF Related, Asking
  <2> QED
    BY <1>2, <2>4, <2>6 DEF Related
<1>3. CASE ~asked /\ Talking(c, s)
  <2>1. c.st = "open"
    BY <1>3, ChannelType DEF Talking
  <2>2. /\ GotClose(s) \in Channel /\ GotClose(s).st = "none"
        /\ Left(GotClose(s).tx, Taken(c))
    BY <1>3, <2>1, GotCloseLeaves, LinkedBothWays DEF Talking, Sound
  <2>3. ServerLeft(Taken(c), GotClose(s))
    BY <2>2 DEF ServerLeft
  <2> QED
    BY <1>3, <2>2, <2>3 DEF Related
<1>4. CASE ~asked /\ ClientLeft(c, s)
  <2>1. /\ Tail(c.tx) = <<>>
        /\ GotClose(s) \in Channel /\ GotClose(s).st = "none" /\ GotClose(s).tx = <<>>
    BY <1>4, LeftCloses DEF ClientLeft
  <2>2. Idle(Taken(c), GotClose(s))
    BY <1>1, <1>4, <2>1 DEF Idle, ClientLeft
  <2> QED
    BY <1>4, <2>1, <2>2 DEF Related
<1> QED
  BY <1>2, <1>3, <1>4 DEF Related, Idle, ServerLeft, Refused

\* What the client finds in the answer to its request.
LEMMA ClientConfirmed ==
  ASSUME NEW c \in Channel, NEW s \in Channel, NEW pr \in Program, Local(c, pr), c.st = "halfopen",
         NEW asked \in BOOLEAN, Related(c, s, asked), s.tx # <<>>,
         s.tx[1].type = "OPEN_CONFIRMATION", NEW d, d = GotOpenConfirmation(c, s.tx[1])
  PROVE  d \in Channel /\ d.st = "open" /\ Local(d, pr) /\ Related(d, Taken(s), asked)
<1>1. ~Refused(c, s)
  BY DEF Refused, Packet
<1>2. ~asked /\ Talking(c, s)
  BY <1>1 DEF Related, Asking, Idle, ClientLeft, ServerLeft, Left
<1>3. Taken(s).st = s.st
  BY TakenType
<1>4. Sound(c, s, pr)
  BY <1>2 DEF Talking, Sound
<1>5. /\ Sound(d, Taken(s), pr) /\ d.st = "open"
      /\ "SENT_CLOSE" \in d.closes => EndsInClose(d.tx)
  BY <1>4, GotOpenConfirmationKeeps
<1>6. Promised(Taken(s))
  BY <1>2, TakenPromise DEF Talking
<1>7. Talking(d, Taken(s))
  BY <1>2, <1>3, <1>5, <1>6 DEF Talking, Sound, Promised
<1> QED
  BY <1>2, <1>5, <1>7 DEF Related, Sound

LEMMA ClientRefused ==
  ASSUME NEW c \in Channel, NEW s \in Channel, c.st = "halfopen",
         NEW asked \in BOOLEAN, Related(c, s, asked), s.tx # <<>>, s.tx[1].type = "OPEN_FAILURE",
         NEW d, d = Destroyed(c)
  PROVE  d \in Channel /\ d.st = "none" /\ Related(d, Taken(s), asked)
<1>1. ~Talking(c, s)
  <2>1. SUFFICES ASSUME Talking(c, s) PROVE FALSE
    OBVIOUS
  <2>2. s.tx[1].type \notin {"CHANNEL_OPEN", "OPEN_FAILURE"}
    BY <2>1, LinkedHead, Zenon DEF Talking
  <2> QED
    BY <2>2
<1>2. ~asked /\ Refused(c, s)
  BY <1>1 DEF Related, Asking, Idle, ClientLeft, ServerLeft, Left
<1>3. Taken(s).tx = Tail(s.tx) /\ Taken(s).st = s.st
  BY TakenType
<1>4. Tail(s.tx) = <<>>
  BY <1>2 DEF Refused
<1>5. d \in Channel /\ d.st = "none" /\ d.tx = c.tx
  <2>1. c.throttled \in BOOLEAN /\ c.tx \in Queue
    BY ChannelType
  <2> QED
    BY <2>1, DestroyedIs
<1>6. Idle(d, Taken(s))
  BY <1>2, <1>3, <1>4, <1>5 DEF Idle, Refused
<1> QED
  BY <1>2, <1>5, <1>6 DEF Related

\* A request that the server finds is the one the client waits with.
LEMMA ServerAsked ==
  ASSUME NEW c \in Channel, NEW s \in Channel, s.st = "none",
         NEW asked \in BOOLEAN, Related(c, s, asked), c.tx # <<>>
  PROVE  /\ asked /\ c.st = "halfopen" /\ s.tx = <<>>
         /\ c.tx = <<Packet("CHANNEL_OPEN", WinSize)>>
<1>1. asked
  BY DEF Related, Idle, Refused, Talking, ClientLeft, ServerLeft, Left
<1>2. PICK q \in Queue : c.tx = Asks(q) /\ q = <<>>
  BY <1>1 DEF Related, Asking, Left
<1>3. c.tx = <<Packet("CHANNEL_OPEN", WinSize)>>
  BY <1>2, AsksIs
<1> QED
  BY <1>1, <1>3 DEF Related, Asking

LEMMA ServerOpens ==
  ASSUME NEW c \in Channel, NEW s \in Channel, NEW pr, Local(c, pr), s.st = "none",
         NEW asked \in BOOLEAN, Related(c, s, asked), c.tx # <<>>, NEW qr,
         NEW d, d = GotOpen(s, c.tx[1])
  PROVE  /\ d \in Channel /\ d.st = "open" /\ Local(d, qr)
         /\ Related(Taken(c), d, FALSE)
<1>1. asked /\ c.st = "halfopen" /\ s.tx = <<>> /\ c.tx = <<Packet("CHANNEL_OPEN", WinSize)>>
  BY ServerAsked
<1>2. /\ d \in Channel /\ d.st = "open" /\ "SENT_CLOSE" \notin d.closes
      /\ Local(d, qr) /\ Linked(Taken(c), d)
      /\ Taken(c) \in Channel /\ Taken(c).st = "halfopen" /\ Taken(c).tx = <<>>
      /\ Local(Taken(c), pr)
  BY <1>1, GotOpenLinks
<1>3. Promised(d) /\ Promised(Taken(c))
  BY <1>2 DEF Promised, Local
<1>4. Talking(Taken(c), d)
  BY <1>2, <1>3 DEF Talking
<1> QED
  BY <1>2, <1>4 DEF Related

LEMMA ServerRefuses ==
  ASSUME NEW c \in Channel, NEW s \in Channel, s.st = "none",
         NEW asked \in BOOLEAN, Related(c, s, asked), c.tx # <<>>,
         NEW d, d = Push(s, "OPEN_FAILURE", 0)
  PROVE  /\ d \in Channel /\ d.st = "none"
         /\ Related(Taken(c), d, FALSE)
<1>1. asked /\ c.st = "halfopen" /\ s.tx = <<>> /\ c.tx = <<Packet("CHANNEL_OPEN", WinSize)>>
  BY ServerAsked
<1>2. d \in Channel /\ SameButTx(s, d)
  <2>1. "OPEN_FAILURE" \in PacketTypes /\ 0 \in Nat
    BY DEF PacketTypes
  <2> QED
    BY <2>1, PushFields, Zenon
<1>3. d.tx = Append(s.tx, Packet("OPEN_FAILURE", 0))
  BY DEF Push, Channel
<1>4. d.tx = <<Packet("OPEN_FAILURE", 0)>> /\ Tail(c.tx) = <<>>
  BY <1>1, <1>3
<1>5. Taken(c).tx = <<>> /\ Taken(c).st = "halfopen"
  BY <1>1, <1>4, TakenType
<1>6. Refused(Taken(c), d)
  BY <1>2, <1>4, <1>5 DEF Refused, SameButTx
<1> QED
  BY <1>2, <1>6 DEF Related, SameButTx

LEMMA ClientAsks ==
  ASSUME NEW c \in Channel, NEW s \in Channel, c.st = "none", Related(c, s, FALSE), NEW pr,
         NEW d, d = Push(Fresh(c), "CHANNEL_OPEN", WinSize)
  PROVE  d \in Channel /\ d.st = "halfopen" /\ Local(d, pr) /\ Related(d, s, TRUE)
<1> DEFINE f == Fresh(c)
           p == Packet("CHANNEL_OPEN", WinSize)
<1>1. WinSize \in Nat /\ c.tx \in Queue /\ c.throttled \in BOOLEAN
  BY SshAssumption, ChannelType
<1>2. /\ f \in Channel /\ f.st = "halfopen" /\ f.tx = c.tx
      /\ f.closes = {} /\ f.chanreqs = <<>> /\ f.remwindow = 0 /\ f.locwindow = WinSize
      /\ f.backlog = 0 /\ ~f.zombie /\ ~f.pending_eof /\ f.locmaxwin = WinSize
      /\ ~f.throttling_conn
  BY <1>1, FreshIs
<1>3. d = Push(f, "CHANNEL_OPEN", WinSize)
  OBVIOUS
<1> HIDE DEF f
<1>4. d \in Channel /\ SameButTx(f, d)
  <2>1. "CHANNEL_OPEN" \in PacketTypes
    BY DEF PacketTypes
  <2>2. /\ Push(f, "CHANNEL_OPEN", WinSize) \in Channel
        /\ SameButTx(f, Push(f, "CHANNEL_OPEN", WinSize))
    BY <1>1, <1>2, <2>1, PushFields, Zenon
  <2> QED
    BY <1>3, <2>2
<1>5. d.tx = Append(f.tx, p)
  BY <1>2, <1>3 DEF Push, Channel
<1>6. Append(f.tx, p) = f.tx \o <<p>>
  <2> DEFINE q == f.tx
  <2>1. q \in Seq(PacketSet) /\ p \in PacketSet
    BY <1>1, <1>2 DEF Queue, Packet, PacketSet, PacketTypes
  <2> HIDE DEF q, p
  <2>2. Append(q, p) = q \o <<p>>
    BY <2>1
  <2> QED
    BY <2>2 DEF q
<1>7. d.tx = Asks(c.tx)
  BY <1>2, <1>5, <1>6 DEF Asks
<1>8. d.st = "halfopen" /\ Local(d, pr)
  BY <1>1, <1>2, <1>4 DEF SameButTx, Local
<1>9. \/ c.tx = <<>> /\ s.st = "none" /\ s.tx = <<>>
      \/ Left(c.tx, s) /\ s.tx = <<>>
  BY DEF Related, Idle, Refused, Talking, ClientLeft, ServerLeft, Left
<1>10. Asking(d, s)
  BY <1>1, <1>7, <1>8, <1>9 DEF Asking
<1> QED
  BY <1>4, <1>8, <1>10 DEF Related

\* Every packet that has come is one that its end can take.
LEMMA ClientHead ==
  ASSUME NEW c \in Channel, NEW s \in Channel, NEW asked \in BOOLEAN, Related(c, s, asked),
         s.tx # <<>>
  PROVE  LET p == s.tx[1]
         IN /\ p \in PacketSet /\ p.type # "CHANNEL_OPEN"
            /\ p.type \in {"OPEN_CONFIRMATION", "OPEN_FAILURE"} => c.st = "halfopen"
            /\ p.type \notin {"OPEN_CONFIRMATION", "OPEN_FAILURE"} => c.st = "open"
            /\ p.type = "FAILURE" => c.chanreqs # <<>>
            /\ p.type \in {"DATA", "EOF"} => "RCVD_EOF" \notin c.closes
<1> DEFINE p == s.tx[1]
<1>1. ~asked /\ (Refused(c, s) \/ Talking(c, s) \/ ServerLeft(c, s))
  BY DEF Related, Asking, Idle, ClientLeft, Left
<1>2. CASE Refused(c, s)
  BY <1>2 DEF Refused, Packet, PacketSet, PacketTypes
<1>3. CASE Talking(c, s)
  <2>1. /\ p \in PacketSet
        /\ p.type \notin {"CHANNEL_OPEN", "OPEN_FAILURE"}
        /\ c.st = "halfopen" <=> p.type = "OPEN_CONFIRMATION"
        /\ p.type \in {"DATA", "EOF"} => "RCVD_EOF" \notin c.closes
        /\ p.type = "FAILURE" => c.chanreqs # <<>>
    BY <1>3, LinkedHead, Zenon DEF Talking
  <2>2. c.st = "halfopen" \/ c.st = "open"
    BY <1>3, ChannelType DEF Talking
  <2> HIDE DEF p
  <2>3. /\ p.type # "CHANNEL_OPEN"
        /\ p.type \in {"OPEN_CONFIRMATION", "OPEN_FAILURE"} => c.st = "halfopen"
        /\ p.type \notin {"OPEN_CONFIRMATION", "OPEN_FAILURE"} => c.st = "open"
    BY <2>1, <2>2
  <2> QED
    BY <2>1, <2>3 DEF p
<1>4. CASE ServerLeft(c, s)
  <2>1. /\ p \in PacketSet
        /\ p.type \notin {"CHANNEL_OPEN", "OPEN_FAILURE", "OPEN_CONFIRMATION"}
        /\ p.type \in {"DATA", "EOF"} => "RCVD_EOF" \notin c.closes
        /\ p.type = "FAILURE" => c.chanreqs # <<>>
    BY <1>4, LeftHead, Zenon DEF ServerLeft
  <2>2. c.st = "open"
    BY <1>4 DEF ServerLeft, Left
  <2> QED
    BY <2>1, <2>2
<1> QED
  BY <1>1, <1>2, <1>3, <1>4

LEMMA ServerHead ==
  ASSUME NEW c \in Channel, NEW s \in Channel, NEW asked \in BOOLEAN, Related(c, s, asked),
         c.tx # <<>>
  PROVE  LET p == c.tx[1]
         IN /\ p \in PacketSet /\ p.type \notin {"OPEN_CONFIRMATION", "OPEN_FAILURE"}
            /\ p.type = "CHANNEL_OPEN" => s.st = "none"
            /\ p.type # "CHANNEL_OPEN" => s.st = "open"
            /\ p.type = "FAILURE" => s.chanreqs # <<>>
            /\ p.type \in {"DATA", "EOF"} => "RCVD_EOF" \notin s.closes
<1> DEFINE p == c.tx[1]
<1>1. CASE s.st = "none"
  <2>1. c.tx = <<Packet("CHANNEL_OPEN", WinSize)>>
    BY <1>1, ServerAsked
  <2>2. p = Packet("CHANNEL_OPEN", WinSize)
    BY <2>1
  <2> QED
    BY <1>1, <2>2, SshAssumption DEF Packet, PacketSet, PacketTypes
<1>2. CASE asked /\ s.st # "none"
  <2>1. PICK q \in Queue : c.tx = Asks(q) /\ Left(q, s)
    BY <1>2 DEF Related, Asking
  <2>2. q # <<>> /\ s.st = "open"
    BY <2>1 DEF Left, EndsInClose
  <2>3. c.tx[1] = q[1]
    BY <2>1, <2>2, AsksIs
  <2>4. /\ p \in PacketSet
        /\ p.type \notin {"CHANNEL_OPEN", "OPEN_FAILURE", "OPEN_CONFIRMATION"}
        /\ p.type \in {"DATA", "EOF"} => "RCVD_EOF" \notin s.closes
        /\ p.type = "FAILURE" => s.chanreqs # <<>>
    BY <2>1, <2>3, LeftHead, Zenon
  <2> QED
    BY <2>2, <2>4
<1>3. CASE ~asked /\ Talking(c, s)
  <2>1. /\ p \in PacketSet
        /\ p.type \notin {"CHANNEL_OPEN", "OPEN_FAILURE"}
        /\ s.st = "halfopen" <=> p.type = "OPEN_CONFIRMATION"
        /\ p.type \in {"DATA", "EOF"} => "RCVD_EOF" \notin s.closes
        /\ p.type = "FAILURE" => s.chanreqs # <<>>
    BY <1>3, LinkedHead, LinkedBothWays, Zenon DEF Talking
  <2>2. s.st = "open"
    BY <1>3 DEF Talking
  <2> QED
    BY <2>1, <2>2
<1>4. CASE ~asked /\ ClientLeft(c, s)
  <2>1. /\ p \in PacketSet
        /\ p.type \notin {"CHANNEL_OPEN", "OPEN_FAILURE", "OPEN_CONFIRMATION"}
        /\ p.type \in {"DATA", "EOF"} => "RCVD_EOF" \notin s.closes
        /\ p.type = "FAILURE" => s.chanreqs # <<>>
    BY <1>4, LeftHead, Zenon DEF ClientLeft
  <2>2. s.st = "open"
    BY <1>4 DEF ClientLeft, Left
  <2> QED
    BY <2>1, <2>2
<1> QED
  BY <1>1, <1>2, <1>3, <1>4 DEF Related, Idle, ServerLeft, Refused

-----------------------------------------------------------------------------
(* The invariant                                                            *)

Typed ==
  /\ ch \in [Ends -> Channel] /\ prog \in [Ends -> Program] /\ before \in Program
  /\ opens \in 0..MaxOpens /\ answered \in 0..opens
  /\ breaks \in 0..MaxBreaks /\ backups \in 0..MaxBackups

\* What is known of one end, the n-th connection of which this is.
Kept(c, pr, n) ==
  IF c.st = "none" THEN c.backlog = 0 ELSE Local(c, pr) /\ n > 0

Situation == Related(ch[Client], ch[Server], opens # answered)

IInv ==
  /\ TypeOK
  /\ \A e \in Ends : Kept(ch[e], prog[e], Number(e))
  /\ Situation
  /\ opens = answered \/ opens = answered + 1

LEMMA TypeOKIs == TypeOK <=> Typed
BY DEF TypeOK, Typed, Channel, Program, Queue, PacketSet

LEMMA EndsAre ==
  /\ Ends = {Client, Server} /\ Client # Server
  /\ Client \in Ends /\ Server \in Ends
  /\ Other(Client) = Server /\ Other(Server) = Client
  /\ Number(Client) = opens /\ Number(Server) = answered
BY DEF Ends, Client, Server, Other, Number

LEMMA HeadIsFirst ==
  ASSUME NEW q \in Queue, q # <<>>
  PROVE  Head(q) = q[1]
BY DEF Queue

LEMMA GoneBacklog ==
  ASSUME NEW c
  PROVE  Destroyed(c).backlog = 0 /\ GotClose(c).backlog = 0
BY DEF Destroyed, GotClose, Fresh

LEMMA HandledIs ==
  ASSUME Typed, NEW e \in Ends, Waiting(e) # <<>>, NEW d \in Channel, Handled(e, d)
  PROVE  /\ ch' \in [Ends -> Channel] /\ ch'[e] = d /\ ch'[Other(e)] = Taken(ch[Other(e)])
         /\ Waiting(e) \in Queue /\ Head(Waiting(e)) = Waiting(e)[1]
<1> DEFINE o == Other(e)
           y == ch[o]
           z == Taken(y)
<1>1. o \in Ends /\ o # e /\ y \in Channel /\ y.tx # <<>> /\ Waiting(e) = y.tx
  BY EndsAre DEF Typed, Waiting
<1>2. z \in Channel /\ y.tx \in Queue
  BY <1>1, TakenType, ChannelType
<1>3. ch' = [ch EXCEPT ![e] = d, ![o] = z]
  <2>1. ch' = [ch EXCEPT ![e] = d, ![o].tx = Tail(@)]
    BY DEF Handled
  <2> QED
    BY <1>1, <2>1 DEF Taken, Typed
<1> HIDE DEF z, y, o
<1>4. ch' \in [Ends -> Channel] /\ ch'[e] = d /\ ch'[o] = z
  BY <1>1, <1>2, <1>3 DEF Typed
<1> QED
  BY <1>1, <1>2, <1>4, HeadIsFirst DEF z, y, o

LEMMA KeptIsLocal ==
  ASSUME NEW c, NEW pr, NEW n, Kept(c, pr, n), c.st # "none"
  PROVE  Local(c, pr) /\ n > 0
BY DEF Kept

LEMMA LocalIsKept ==
  ASSUME NEW c, NEW pr, NEW n, Local(c, pr), n > 0
  PROVE  Kept(c, pr, n)
BY DEF Kept, Local

LEMMA GoneIsKept ==
  ASSUME NEW c, NEW pr, NEW n, c.st = "none", c.backlog = 0
  PROVE  Kept(c, pr, n)
BY DEF Kept

\* All that has to be shown of a step.
LEMMA IInvNext ==
  ASSUME ch' \in [Ends -> Channel], prog' \in [Ends -> Program], before' \in Program,
         opens' \in 0..MaxOpens, answered' \in 0..opens', breaks' \in 0..MaxBreaks,
         backups' \in 0..MaxBackups,
         Kept(ch'[Client], prog'[Client], opens'), Kept(ch'[Server], prog'[Server], answered'),
         NEW asked, asked = (opens' # answered'), Related(ch'[Client], ch'[Server], asked),
         opens' = answered' \/ opens' = answered' + 1
  PROVE  IInv'
<1>1. TypeOK'
  BY DEF TypeOK, Channel, Program, Queue, PacketSet
<1>2. Situation'
  BY DEF Situation
<1>3. \A e \in Ends : Kept(ch[e], prog[e], Number(e))'
  BY EndsAre DEF Number
<1> QED
  BY <1>1, <1>2, <1>3 DEF IInv

\* A socket does something to the channel of end e.
LEMMA IInvMoves ==
  ASSUME IInv, NEW e \in Ends, NEW d, NEW qr, Moves(ch[e], prog[e], d, qr), ch[e].st # "none",
         ch' = [ch EXCEPT ![e] = d], prog' = [prog EXCEPT ![e] = qr],
         before' = before, opens' = opens, answered' = answered,
         breaks' \in 0..MaxBreaks, backups' \in 0..MaxBackups
  PROVE  IInv'
<1> DEFINE c == ch[Client]
           s == ch[Server]
           asked == opens # answered
<1>1. /\ Typed /\ c \in Channel /\ s \in Channel
      /\ prog[Client] \in Program /\ prog[Server] \in Program
  BY TypeOKIs, EndsAre DEF IInv, Typed
<1>2. /\ Kept(c, prog[Client], opens) /\ Kept(s, prog[Server], answered)
      /\ Related(c, s, asked) /\ asked \in BOOLEAN
  BY EndsAre DEF IInv, Situation
<1>3. qr \in Program
  BY <1>1, EndsAre, MovesProgram
<1>4. opens \in 0..MaxOpens /\ answered \in 0..opens /\ (opens = answered \/ opens = answered + 1)
      /\ before \in Program
  BY <1>1 DEF Typed, IInv
<1>5. asked = (opens' # answered')
  OBVIOUS
<1>6. ch \in [Ends -> Channel] /\ prog \in [Ends -> Program]
  BY <1>1 DEF Typed
<1> HIDE DEF asked
<1>7. CASE e = Client
  <2>1. Local(c, prog[Client]) /\ opens > 0
    BY <1>2, <1>7, KeptIsLocal
  <2>2. d \in Channel /\ Local(d, qr) /\ Related(d, s, asked)
    BY <1>1, <1>2, <1>7, <2>1, ClientMoves
  <2>3. /\ ch' \in [Ends -> Channel] /\ prog' \in [Ends -> Program]
        /\ ch'[Client] = d /\ ch'[Server] = s /\ prog'[Client] = qr /\ prog'[Server] = prog[Server]
    BY <1>3, <1>6, <1>7, <2>2, EndsAre
  <2>4. Kept(d, qr, opens)
    BY <2>1, <2>2, LocalIsKept
  <2> HIDE DEF c, s
  <2> QED
    BY <1>2, <1>4, <1>5, <2>2, <2>3, <2>4, IInvNext
<1>8. CASE e = Server
  <2>1. Local(s, prog[Server]) /\ answered > 0
    BY <1>2, <1>8, KeptIsLocal
  <2>2. d \in Channel /\ Local(d, qr) /\ Related(c, d, asked)
    BY <1>1, <1>2, <1>8, <2>1, ServerMoves
  <2>3. /\ ch' \in [Ends -> Channel] /\ prog' \in [Ends -> Program]
        /\ ch'[Client] = c /\ ch'[Server] = d /\ prog'[Client] = prog[Client] /\ prog'[Server] = qr
    BY <1>3, <1>6, <1>8, <2>2, EndsAre
  <2>4. Kept(d, qr, answered)
    BY <2>1, <2>2, LocalIsKept
  <2> HIDE DEF c, s
  <2> QED
    BY <1>2, <1>4, <1>5, <2>2, <2>3, <2>4, IInvNext
<1> QED
  BY <1>7, <1>8, EndsAre

\* End e takes a packet, CLOSE excepted, and its channel stays.
LEMMA IInvTakes ==
  ASSUME IInv, NEW e \in Ends, ch[e].st = "open", Waiting(e) # <<>>,
         NEW d, Takes(ch[e], Waiting(e)[1], d), Handled(e, d),
         NEW qr \in Program, prog' = [prog EXCEPT ![e] = qr], qr.ended = prog[e].ended,
         before' = before, UNCHANGED Counters
  PROVE  IInv'
<1> DEFINE c == ch[Client]
           s == ch[Server]
           asked == opens # answered
<1>1. /\ Typed /\ c \in Channel /\ s \in Channel
      /\ prog[Client] \in Program /\ prog[Server] \in Program
  BY TypeOKIs, EndsAre DEF IInv, Typed
<1>2. /\ Kept(c, prog[Client], opens) /\ Kept(s, prog[Server], answered)
      /\ Related(c, s, asked) /\ asked \in BOOLEAN
  BY EndsAre DEF IInv, Situation
<1>3. opens \in 0..MaxOpens /\ answered \in 0..opens /\ (opens = answered \/ opens = answered + 1)
      /\ before \in Program /\ breaks \in 0..MaxBreaks /\ backups \in 0..MaxBackups
  BY <1>1 DEF Typed, IInv
<1>4. opens' = opens /\ answered' = answered /\ breaks' = breaks /\ backups' = backups
  BY DEF Counters
<1>5. asked = (opens' # answered')
  BY <1>4
<1>6. prog \in [Ends -> Program]
  BY <1>1 DEF Typed
<1> HIDE DEF asked
<1>7. CASE e = Client
  <2>1. Local(c, prog[Client]) /\ opens > 0
    BY <1>2, <1>7, KeptIsLocal
  <2>2. Waiting(e) = s.tx
    BY <1>7, EndsAre DEF Waiting
  <2>3. d \in Channel /\ Local(d, prog[Client]) /\ Related(d, Taken(s), asked)
    BY <1>1, <1>2, <1>7, <2>1, <2>2, ClientTakes
  <2>4. ch' \in [Ends -> Channel] /\ ch'[Client] = d /\ ch'[Server] = Taken(s)
    BY <1>1, <1>7, <2>3, HandledIs, EndsAre
  <2>5. prog' \in [Ends -> Program] /\ prog'[Client] = qr /\ prog'[Server] = prog[Server]
    BY <1>6, <1>7, EndsAre
  <2>6. Kept(d, qr, opens)
    BY <1>7, <2>1, <2>3, LocalOnward, LocalIsKept
  <2>7. Kept(Taken(s), prog[Server], answered)
    <3>1. s.tx # <<>>
      BY <2>2
    <3>2. Taken(s).st = s.st /\ Taken(s).backlog = s.backlog
      BY <1>1, <3>1 DEF Taken, Channel
    <3> QED
      BY <1>1, <1>2, <3>1, <3>2, TakenLocal DEF Kept
  <2> HIDE DEF c, s
  <2> QED
    BY <1>3, <1>4, <1>5, <2>3, <2>4, <2>5, <2>6, <2>7, IInvNext
<1>8. CASE e = Server
  <2>1. Local(s, prog[Server]) /\ answered > 0
    BY <1>2, <1>8, KeptIsLocal
  <2>2. Waiting(e) = c.tx
    BY <1>8, EndsAre DEF Waiting
  <2>3. d \in Channel /\ Local(d, prog[Server]) /\ Related(Taken(c), d, asked)
    BY <1>1, <1>2, <1>8, <2>1, <2>2, ServerTakes
  <2>4. ch' \in [Ends -> Channel] /\ ch'[Server] = d /\ ch'[Client] = Taken(c)
    BY <1>1, <1>8, <2>3, HandledIs, EndsAre
  <2>5. prog' \in [Ends -> Program] /\ prog'[Server] = qr /\ prog'[Client] = prog[Client]
    BY <1>6, <1>8, EndsAre
  <2>6. Kept(d, qr, answered)
    BY <1>8, <2>1, <2>3, LocalOnward, LocalIsKept
  <2>7. Kept(Taken(c), prog[Client], opens)
    <3>1. c.tx # <<>>
      BY <2>2
    <3>2. Taken(c).st = c.st /\ Taken(c).backlog = c.backlog
      BY <1>1, <3>1 DEF Taken, Channel
    <3> QED
      BY <1>1, <1>2, <3>1, <3>2, TakenLocal DEF Kept
  <2> HIDE DEF c, s
  <2> QED
    BY <1>3, <1>4, <1>5, <2>3, <2>4, <2>5, <2>6, <2>7, IInvNext
<1> QED
  BY <1>7, <1>8, EndsAre

LEMMA TakenKept ==
  ASSUME NEW y \in Channel, y.tx # <<>>, NEW pr, NEW n, Kept(y, pr, n)
  PROVE  Kept(Taken(y), pr, n)
<1>1. Taken(y).st = y.st /\ Taken(y).backlog = y.backlog
  BY DEF Taken, Channel
<1> QED
  BY <1>1, TakenLocal DEF Kept

\* End e takes CLOSE, and its channel is gone.
LEMMA IInvCloses ==
  ASSUME IInv, NEW e \in Ends, ch[e].st = "open", Waiting(e) # <<>>,
         Waiting(e)[1].type = "CLOSE", Handled(e, GotClose(ch[e])),
         prog' \in [Ends -> Program], prog'[Other(e)] = prog[Other(e)],
         before' = before, UNCHANGED Counters
  PROVE  IInv'
<1> DEFINE c == ch[Client]
           s == ch[Server]
           asked == opens # answered
           d == GotClose(ch[e])
<1>1. /\ Typed /\ c \in Channel /\ s \in Channel
      /\ prog[Client] \in Program /\ prog[Server] \in Program
  BY TypeOKIs, EndsAre DEF IInv, Typed
<1>2. /\ Kept(c, prog[Client], opens) /\ Kept(s, prog[Server], answered)
      /\ Related(c, s, asked) /\ asked \in BOOLEAN
  BY EndsAre DEF IInv, Situation
<1>3. opens \in 0..MaxOpens /\ answered \in 0..opens /\ (opens = answered \/ opens = answered + 1)
      /\ before \in Program /\ breaks \in 0..MaxBreaks /\ backups \in 0..MaxBackups
  BY <1>1 DEF Typed, IInv
<1>4. opens' = opens /\ answered' = answered /\ breaks' = breaks /\ backups' = backups
  BY DEF Counters
<1>5. asked = (opens' # answered')
  BY <1>4
<1>6. d.backlog = 0
  BY GoneBacklog
<1> HIDE DEF asked
<1>7. CASE e = Client
  <2>1. Local(c, prog[Client])
    BY <1>2, <1>7, KeptIsLocal
  <2>2. Waiting(e) = s.tx
    BY <1>7, EndsAre DEF Waiting
  <2>3. d \in Channel /\ d.st = "none" /\ Related(d, Taken(s), asked)
    BY <1>1, <1>2, <1>7, <2>1, <2>2, ClientCloses
  <2>4. ch' \in [Ends -> Channel] /\ ch'[Client] = d /\ ch'[Server] = Taken(s)
    BY <1>1, <1>7, <2>3, HandledIs, EndsAre
  <2>5. prog'[Server] = prog[Server]
    BY <1>7, EndsAre
  <2>6. Kept(d, prog'[Client], opens)
    BY <1>6, <2>3, GoneIsKept
  <2>7. Kept(Taken(s), prog[Server], answered)
    BY <1>1, <1>2, <2>2, TakenKept
  <2> HIDE DEF c, s, d
  <2> QED
    BY <1>3, <1>4, <1>5, <2>3, <2>4, <2>5, <2>6, <2>7, IInvNext
<1>8. CASE e = Server
  <2>1. Local(s, prog[Server])
    BY <1>2, <1>8, KeptIsLocal
  <2>2. Waiting(e) = c.tx
    BY <1>8, EndsAre DEF Waiting
  <2>3. d \in Channel /\ d.st = "none" /\ Related(Taken(c), d, asked)
    BY <1>1, <1>2, <1>8, <2>1, <2>2, ServerCloses
  <2>4. ch' \in [Ends -> Channel] /\ ch'[Server] = d /\ ch'[Client] = Taken(c)
    BY <1>1, <1>8, <2>3, HandledIs, EndsAre
  <2>5. prog'[Client] = prog[Client]
    BY <1>8, EndsAre
  <2>6. Kept(d, prog'[Server], answered)
    BY <1>6, <2>3, GoneIsKept
  <2>7. Kept(Taken(c), prog[Client], opens)
    BY <1>1, <1>2, <2>2, TakenKept
  <2> HIDE DEF c, s, d
  <2> QED
    BY <1>3, <1>4, <1>5, <2>3, <2>4, <2>5, <2>6, <2>7, IInvNext
<1> QED
  BY <1>7, <1>8, EndsAre

LEMMA NewcomerType == Newcomer \in Program
BY DEF Newcomer, Program

\* The step that the answer to a request takes at the client.
LEMMA IInvAnswer ==
  ASSUME IInv, ReceiveOpenConfirmation \/ ReceiveOpenFailure
  PROVE  IInv'
<1> DEFINE c == ch[Client]
           s == ch[Server]
           asked == opens # answered
<1>1. /\ Typed /\ c \in Channel /\ s \in Channel
      /\ prog[Client] \in Program /\ prog[Server] \in Program
  BY TypeOKIs, EndsAre DEF IInv, Typed
<1>2. /\ Kept(c, prog[Client], opens) /\ Kept(s, prog[Server], answered)
      /\ Related(c, s, asked) /\ asked \in BOOLEAN
  BY EndsAre DEF IInv, Situation
<1>3. opens \in 0..MaxOpens /\ answered \in 0..opens /\ (opens = answered \/ opens = answered + 1)
      /\ before \in Program /\ breaks \in 0..MaxBreaks /\ backups \in 0..MaxBackups
      /\ prog \in [Ends -> Program]
  BY <1>1 DEF Typed, IInv
<1>4. opens' = opens /\ answered' = answered /\ breaks' = breaks /\ backups' = backups
      /\ prog' = prog /\ before' = before
  BY DEF Counters, ReceiveOpenConfirmation, ReceiveOpenFailure
<1>5. asked = (opens' # answered')
  BY <1>4
<1>6. Waiting(Client) = s.tx /\ s.tx # <<>> /\ c.st = "halfopen"
  BY EndsAre DEF Waiting, HeadIs, ReceiveOpenConfirmation, ReceiveOpenFailure
<1>7. Head(Waiting(Client)) = s.tx[1]
  BY <1>1, <1>6, ChannelType, HeadIsFirst
<1>8. Kept(Taken(s), prog[Server], answered)
  BY <1>1, <1>2, <1>6, TakenKept
<1>9. Local(c, prog[Client]) /\ opens > 0
  BY <1>2, <1>6, KeptIsLocal
<1> HIDE DEF asked
<1>10. CASE ReceiveOpenConfirmation
  <2> DEFINE d == GotOpenConfirmation(c, s.tx[1])
  <2>1. s.tx[1].type = "OPEN_CONFIRMATION" /\ Handled(Client, d)
    BY <1>7, <1>10 DEF ReceiveOpenConfirmation, HeadIs
  <2>2. d \in Channel /\ d.st = "open" /\ Local(d, prog[Client]) /\ Related(d, Taken(s), asked)
    BY <1>1, <1>2, <1>6, <1>9, <2>1, ClientConfirmed
  <2> HIDE DEF d
  <2>3. ch' \in [Ends -> Channel] /\ ch'[Client] = d /\ ch'[Server] = Taken(s)
    BY <1>1, <1>6, <2>1, <2>2, HandledIs, EndsAre
  <2>4. Kept(d, prog[Client], opens)
    BY <1>9, <2>2, LocalIsKept
  <2> HIDE DEF c, s
  <2> QED
    BY <1>3, <1>4, <1>5, <1>8, <2>2, <2>3, <2>4, IInvNext
<1>11. CASE ReceiveOpenFailure
  <2> DEFINE d == Destroyed(c)
  <2>1. s.tx[1].type = "OPEN_FAILURE" /\ Handled(Client, d)
    BY <1>7, <1>11 DEF ReceiveOpenFailure, HeadIs
  <2>2. d \in Channel /\ d.st = "none" /\ Related(d, Taken(s), asked)
    BY <1>1, <1>2, <1>6, <2>1, ClientRefused
  <2>3. d.backlog = 0
    BY GoneBacklog
  <2> HIDE DEF d
  <2>4. ch' \in [Ends -> Channel] /\ ch'[Client] = d /\ ch'[Server] = Taken(s)
    BY <1>1, <1>6, <2>1, <2>2, HandledIs, EndsAre
  <2>5. Kept(d, prog[Client], opens)
    BY <2>2, <2>3, GoneIsKept
  <2> HIDE DEF c, s
  <2> QED
    BY <1>3, <1>4, <1>5, <1>8, <2>2, <2>4, <2>5, IInvNext
<1> QED
  BY <1>10, <1>11

LEMMA IInvReceiveOpen ==
  ASSUME IInv, ReceiveOpen
  PROVE  IInv'
<1> DEFINE c == ch[Client]
           s == ch[Server]
           asked == opens # answered
           n == answered + 1
<1>1. /\ Typed /\ c \in Channel /\ s \in Channel
      /\ prog[Client] \in Program /\ prog[Server] \in Program
  BY TypeOKIs, EndsAre DEF IInv, Typed
<1>2. /\ Kept(c, prog[Client], opens) /\ Kept(s, prog[Server], answered)
      /\ Related(c, s, asked) /\ asked \in BOOLEAN
  BY EndsAre DEF IInv, Situation
<1>3. opens \in 0..MaxOpens /\ answered \in 0..opens /\ (opens = answered \/ opens = answered + 1)
      /\ breaks \in 0..MaxBreaks /\ backups \in 0..MaxBackups
      /\ prog \in [Ends -> Program] /\ MaxOpens \in Nat
  BY <1>1, SshAssumption DEF Typed, IInv
<1>4. opens' = opens /\ answered' = n /\ breaks' = breaks /\ backups' = backups
      /\ prog' = [prog EXCEPT ![Server] = Newcomer] /\ before' = Newcomer
  BY DEF ReceiveOpen
<1>5. Waiting(Server) = c.tx /\ c.tx # <<>> /\ s.st = "none"
  BY EndsAre DEF Waiting, HeadIs, ReceiveOpen
<1>6. Head(Waiting(Server)) = c.tx[1]
  BY <1>1, <1>5, ChannelType, HeadIsFirst
<1>7. asked /\ c.st = "halfopen"
  BY <1>1, <1>2, <1>5, ServerAsked
<1>8. n = opens /\ n \in 0..opens /\ n > 0
  BY <1>3, <1>7
<1>9. /\ prog' \in [Ends -> Program] /\ before' \in Program
      /\ prog'[Client] = prog[Client] /\ prog'[Server] = Newcomer
  BY <1>3, <1>4, NewcomerType, EndsAre
<1>10. Kept(Taken(c), prog[Client], opens)
  BY <1>1, <1>2, <1>5, TakenKept
<1>11. Local(c, prog[Client])
  BY <1>2, <1>7, KeptIsLocal
<1>12. FALSE = (opens' # answered')
  BY <1>4, <1>8
<1>13. CASE Handled(Server, GotOpen(s, c.tx[1]))
  <2> DEFINE d == GotOpen(s, c.tx[1])
  <2>1. d \in Channel /\ d.st = "open" /\ Local(d, Newcomer) /\ Related(Taken(c), d, FALSE)
    BY <1>1, <1>2, <1>5, <1>11, ServerOpens
  <2> HIDE DEF d
  <2>2. ch' \in [Ends -> Channel] /\ ch'[Server] = d /\ ch'[Client] = Taken(c)
    BY <1>1, <1>5, <1>13, <2>1, HandledIs, EndsAre DEF d
  <2>3. Kept(d, Newcomer, n)
    BY <1>8, <2>1, LocalIsKept
  <2> HIDE DEF c, s, asked, n
  <2> QED
    BY <1>3, <1>4, <1>8, <1>9, <1>10, <1>12, <2>1, <2>2, <2>3, IInvNext
<1>14. CASE Handled(Server, Push(s, "OPEN_FAILURE", 0))
  <2> DEFINE d == Push(s, "OPEN_FAILURE", 0)
  <2>1. d \in Channel /\ d.st = "none" /\ Related(Taken(c), d, FALSE)
    BY <1>1, <1>2, <1>5, ServerRefuses
  <2>2. d.backlog = 0
    BY <1>1, <1>2, <1>5 DEF Push, Channel, Kept
  <2> HIDE DEF d
  <2>3. ch' \in [Ends -> Channel] /\ ch'[Server] = d /\ ch'[Client] = Taken(c)
    BY <1>1, <1>5, <1>14, <2>1, HandledIs, EndsAre DEF d
  <2>4. Kept(d, Newcomer, n)
    BY <2>1, <2>2, GoneIsKept
  <2> HIDE DEF c, s, asked, n
  <2> QED
    BY <1>3, <1>4, <1>8, <1>9, <1>10, <1>12, <2>1, <2>3, <2>4, IInvNext
<1>15. Handled(Server, GotOpen(s, c.tx[1])) \/ Handled(Server, Push(s, "OPEN_FAILURE", 0))
  BY <1>6 DEF ReceiveOpen
<1> QED
  BY <1>13, <1>14, <1>15

LEMMA IInvAccept ==
  ASSUME IInv, Accept
  PROVE  IInv'
<1> DEFINE c == ch[Client]
           s == ch[Server]
           asked == opens # answered
           d == Push(Fresh(c), "CHANNEL_OPEN", WinSize)
           n == opens + 1
<1>1. /\ Typed /\ c \in Channel /\ s \in Channel
      /\ prog[Client] \in Program /\ prog[Server] \in Program
  BY TypeOKIs, EndsAre DEF IInv, Typed
<1>2. /\ Kept(s, prog[Server], answered)
      /\ Related(c, s, asked) /\ asked \in BOOLEAN
  BY EndsAre DEF IInv, Situation
<1>3. opens \in 0..MaxOpens /\ answered \in 0..opens /\ (opens = answered \/ opens = answered + 1)
      /\ breaks \in 0..MaxBreaks /\ backups \in 0..MaxBackups
      /\ prog \in [Ends -> Program] /\ ch \in [Ends -> Channel] /\ MaxOpens \in Nat
  BY <1>1, SshAssumption DEF Typed, IInv
<1>4. /\ c.st = "none" /\ opens < MaxOpens /\ opens' = n /\ answered' = answered
      /\ ch' = [ch EXCEPT ![Client] = d] /\ prog' = [prog EXCEPT ![Client] = Newcomer]
      /\ before' = prog[Client] /\ breaks' = breaks /\ backups' = backups
  <2>1. ch' = [ch EXCEPT ![Client] = d]
    BY <1>3, EndsAre DEF Accept
  <2> QED
    BY <2>1 DEF Accept
<1>5. asked = FALSE
  <2>1. ~Asking(c, s)
    BY <1>4 DEF Asking
  <2> QED
    BY <1>2, <2>1 DEF Related
<1>6. opens = answered /\ n \in 0..MaxOpens /\ n > 0 /\ answered \in 0..n /\ n = answered + 1
      /\ TRUE = (n # answered)
  BY <1>3, <1>4, <1>5
<1>7. Related(c, s, FALSE)
  BY <1>2, <1>5
<1>8. d \in Channel /\ d.st = "halfopen" /\ Local(d, Newcomer) /\ Related(d, s, TRUE)
  BY <1>1, <1>4, <1>7, ClientAsks
<1> HIDE DEF d
<1>9. Kept(d, Newcomer, n)
  BY <1>6, <1>8, LocalIsKept
<1>10. /\ ch' \in [Ends -> Channel] /\ ch'[Client] = d /\ ch'[Server] = s
       /\ prog' \in [Ends -> Program] /\ before' \in Program
       /\ prog'[Client] = Newcomer /\ prog'[Server] = prog[Server]
  BY <1>1, <1>3, <1>4, <1>8, NewcomerType, EndsAre
<1> HIDE DEF c, s, asked, n
<1> QED
  BY <1>2, <1>3, <1>4, <1>6, <1>8, <1>9, <1>10, IInvNext

LEMMA IInvThrottles ==
  ASSUME IInv, ThrottleAll \/ UnthrottleAll
  PROVE  IInv'
<1> DEFINE c == ch[Client]
           s == ch[Server]
           asked == opens # answered
<1>1. /\ Typed /\ c \in Channel /\ s \in Channel
      /\ prog[Client] \in Program /\ prog[Server] \in Program
  BY TypeOKIs, EndsAre DEF IInv, Typed
<1>2. /\ Kept(c, prog[Client], opens) /\ Kept(s, prog[Server], answered)
      /\ Related(c, s, asked) /\ asked \in BOOLEAN
  BY EndsAre DEF IInv, Situation
<1>3. opens \in 0..MaxOpens /\ answered \in 0..opens /\ (opens = answered \/ opens = answered + 1)
      /\ breaks \in 0..MaxBreaks /\ backups \in 0..MaxBackups /\ before \in Program
      /\ prog \in [Ends -> Program] /\ ch \in [Ends -> Channel] /\ MaxBackups \in Nat
  BY <1>1, SshAssumption DEF Typed, IInv
<1>4. /\ prog' = prog /\ before' = before /\ opens' = opens /\ answered' = answered
      /\ breaks' = breaks /\ backups' \in 0..MaxBackups
  BY <1>3 DEF ThrottleAll, UnthrottleAll, Counters
<1>5. PICK t \in BOOLEAN :
        ch' = [ch EXCEPT ![Client] = ssh2_channel_check_throttle([c EXCEPT !.throttled = t])]
  <2>1. CASE ThrottleAll
    <3>1. ch' = [ch EXCEPT ![Client] = ssh2_channel_check_throttle([c EXCEPT !.throttled = TRUE])]
      BY <1>3, <2>1, EndsAre DEF ThrottleAll
    <3> QED
      BY <3>1
  <2>2. CASE UnthrottleAll
    <3>1. ch' = [ch EXCEPT ![Client] = ssh2_channel_check_throttle([c EXCEPT !.throttled = FALSE])]
      BY <1>3, <2>2, EndsAre DEF UnthrottleAll
    <3> QED
      BY <3>1
  <2> QED
    BY <2>1, <2>2
<1> DEFINE m == [c EXCEPT !.throttled = t]
           d == ssh2_channel_check_throttle(m)
<1>6. CASE c.st # "none"
  <2>1. Moves(c, prog[Client], d, prog[Client])
    BY <1>5, Zenon DEF Moves, ThrottleMove
  <2>2. prog' = [prog EXCEPT ![Client] = prog[Client]]
    BY <1>3, <1>4
  <2>3. ch' = [ch EXCEPT ![Client] = d]
    BY <1>5
  <2>4. breaks' \in 0..MaxBreaks
    BY <1>3, <1>4
  <2> HIDE DEF d
  <2> QED
    BY <1>4, <1>6, <2>1, <2>2, <2>3, <2>4, EndsAre, IInvMoves
<1>7. CASE c.st = "none"
  <2>1. m \in Channel /\ m.st = "none" /\ m.tx = c.tx /\ m.backlog = c.backlog
    BY <1>1, <1>7 DEF Channel
  <2> HIDE DEF m
  <2>2. d = m
    BY <2>1 DEF ssh2_channel_check_throttle
  <2>3. ch' = [ch EXCEPT ![Client] = m]
    BY <1>5, <2>2 DEF m
  <2> HIDE DEF d
  <2>4. ch' \in [Ends -> Channel] /\ ch'[Client] = m /\ ch'[Server] = s
    BY <1>3, <2>1, <2>3, EndsAre
  <2>5. Kept(m, prog[Client], opens)
    <3>1. c.backlog = 0
      BY <1>2, <1>7 DEF Kept
    <3> QED
      BY <2>1, <3>1, GoneIsKept
  <2>6. Related(m, s, asked)
    <3>1. ~Asking(c, s) /\ ~Refused(c, s) /\ ~Talking(c, s) /\ ~ServerLeft(c, s)
      BY <1>7 DEF Asking, Refused, Talking, ServerLeft, Left
    <3>2. Idle(c, s) => Idle(m, s)
      BY <2>1 DEF Idle
    <3>3. ClientLeft(c, s) => ClientLeft(m, s)
      BY <2>1 DEF ClientLeft
    <3> QED
      BY <1>2, <3>1, <3>2, <3>3, Zenon DEF Related
  <2>7. asked = (opens' # answered')
    BY <1>4
  <2> HIDE DEF c, s, asked
  <2> QED
    BY <1>2, <1>3, <1>4, <2>4, <2>5, <2>6, <2>7, IInvNext
<1> QED
  BY <1>6, <1>7

\* Each action of a socket is one of the moves.
LEMMA SocketMoves ==
  ASSUME IInv, NEW e \in Ends, SocketData(e) \/ SocketEof(e) \/ SocketError(e) \/ SocketSent(e)
  PROVE  /\ ch[e].st # "none"
         /\ \E d, qr : /\ Moves(ch[e], prog[e], d, qr)
                       /\ ch' = [ch EXCEPT ![e] = d] /\ prog' = [prog EXCEPT ![e] = qr]
         /\ before' = before /\ opens' = opens /\ answered' = answered
         /\ breaks' \in 0..MaxBreaks /\ backups' = backups
<1> DEFINE c == ch[e]
           pr == prog[e]
<1>1. /\ ch \in [Ends -> Channel] /\ prog \in [Ends -> Program] /\ c \in Channel /\ pr \in Program
      /\ breaks \in 0..MaxBreaks /\ MaxBreaks \in Nat
  BY TypeOKIs, SshAssumption DEF IInv, Typed
<1>2. Kept(c, pr, Number(e))
  BY DEF IInv
<1>3. CASE SocketData(e)
  <2>1. PICK n \in Nat : /\ prog' = [prog EXCEPT ![e].wrote = @ + n]
                         /\ ch' = [ch EXCEPT ![e] = pfd_receive(c, n)]
    <3>1. PICK n \in 1..Minimum(Chunk, MaxData[Number(e)][e] - prog[e].wrote) :
            /\ prog' = [prog EXCEPT ![e].wrote = @ + n]
            /\ ch' = [ch EXCEPT ![e] = pfd_receive(@, n)]
      BY <1>3, Zenon DEF SocketData
    <3>2. n \in Nat
      OBVIOUS
    <3> QED
      BY <3>1, <3>2
  <2> DEFINE qr == [pr EXCEPT !.wrote = @ + n]
             d == pfd_receive(c, n)
  <2>2. ch' = [ch EXCEPT ![e] = d] /\ prog' = [prog EXCEPT ![e] = qr]
    BY <1>1, <2>1
  <2>3. ~c.zombie /\ ~c.frozen /\ ~pr.ended /\ c.st # "none"
    BY <1>3 DEF SocketData, Readable
  <2>4. Moves(c, pr, d, qr)
    BY <2>3, Zenon DEF Moves, DataMove
  <2>5. before' = before /\ opens' = opens /\ answered' = answered /\ breaks' = breaks /\ backups' = backups
    BY <1>3 DEF SocketData, Counters
  <2> HIDE DEF d, qr
  <2> QED
    BY <1>1, <2>2, <2>3, <2>4, <2>5
<1>4. CASE SocketEof(e)
  <2> DEFINE qr == [pr EXCEPT !.ended = TRUE]
             d == ssh2channel_write_eof(c)
  <2>1. ch' = [ch EXCEPT ![e] = d] /\ prog' = [prog EXCEPT ![e] = qr]
    BY <1>1, <1>4 DEF SocketEof
  <2>2. ~c.zombie /\ ~c.frozen /\ ~pr.ended /\ c.st # "none"
    BY <1>4 DEF SocketEof, Readable
  <2>3. Moves(c, pr, d, qr)
    BY <2>2, Zenon DEF Moves, EofMove
  <2>4. before' = before /\ opens' = opens /\ answered' = answered /\ breaks' = breaks /\ backups' = backups
    BY <1>4 DEF SocketEof, Counters
  <2> HIDE DEF d, qr
  <2> QED
    BY <1>1, <2>1, <2>2, <2>3, <2>4
<1>5. CASE SocketError(e)
  <2> DEFINE qr == [pr EXCEPT !.broken = TRUE]
             d == ssh2_channel_check_close([c EXCEPT !.zombie = TRUE, !.ready = FALSE,
                                                     !.frozen = TRUE, !.backlog = 0,
                                                     !.pending_eof = FALSE])
  <2>1. ch' = [ch EXCEPT ![e] = d] /\ prog' = [prog EXCEPT ![e] = qr]
    BY <1>1, <1>5 DEF SocketError
  <2>2. ~c.zombie /\ c.st # "none"
    BY <1>5 DEF SocketError
  <2>3. Moves(c, pr, d, qr)
    BY <2>2, Zenon DEF Moves, ErrorMove
  <2>4. before' = before /\ opens' = opens /\ answered' = answered /\ breaks' \in 0..MaxBreaks
        /\ backups' = backups
    BY <1>1, <1>5 DEF SocketError
  <2> HIDE DEF d, qr
  <2> QED
    BY <1>1, <2>1, <2>2, <2>3, <2>4
<1>6. CASE SocketSent(e)
  <2> DEFINE d == Unthrottled(c, 0)
             qr == [pr EXCEPT !.got = @ + c.backlog, !.sawEnd = @ \/ "RCVD_EOF" \in c.closes]
  <2>1. ch' = [ch EXCEPT ![e] = d] /\ prog' = [prog EXCEPT ![e] = qr]
    <3>1. prog' = [prog EXCEPT ![e].got = @ + c.backlog,
                               ![e].sawEnd = @ \/ "RCVD_EOF" \in c.closes]
      BY <1>6 DEF SocketSent
    <3> QED
      BY <1>1, <1>6, <3>1 DEF SocketSent
  <2>2. c.backlog > 0
    BY <1>6 DEF SocketSent
  <2>3. c.st # "none"
    BY <1>2, <2>2 DEF Kept
  <2>4. Moves(c, pr, d, qr)
    BY <2>2, Zenon DEF Moves, SentMove
  <2>5. before' = before /\ opens' = opens /\ answered' = answered /\ breaks' = breaks /\ backups' = backups
    BY <1>6 DEF SocketSent, Counters
  <2> HIDE DEF d, qr
  <2> QED
    BY <1>1, <2>1, <2>3, <2>4, <2>5
<1> QED
  BY <1>3, <1>4, <1>5, <1>6

LEMMA IInvSockets ==
  ASSUME IInv, NEW e \in Ends, SocketData(e) \/ SocketEof(e) \/ SocketError(e) \/ SocketSent(e)
  PROVE  IInv'
<1>1. /\ ch[e].st # "none"
      /\ before' = before /\ opens' = opens /\ answered' = answered
      /\ breaks' \in 0..MaxBreaks /\ backups' = backups
  BY SocketMoves
<1>2. PICK d, qr : /\ Moves(ch[e], prog[e], d, qr)
                   /\ ch' = [ch EXCEPT ![e] = d] /\ prog' = [prog EXCEPT ![e] = qr]
  BY SocketMoves
<1>3. backups' \in 0..MaxBackups
  BY <1>1, TypeOKIs DEF IInv, Typed
<1> QED
  BY <1>1, <1>2, <1>3, IInvMoves

LEMMA WaitingIs ==
  ASSUME Typed, NEW e \in Ends, Waiting(e) # <<>>
  PROVE  /\ Waiting(e) \in Queue /\ Head(Waiting(e)) = Waiting(e)[1]
         /\ Waiting(e)[1] \in PacketSet /\ Waiting(e)[1].n \in Nat
<1>1. ch[Other(e)] \in Channel
  BY EndsAre DEF Typed
<1>2. Waiting(e) \in Queue
  BY <1>1, ChannelType DEF Waiting
<1>3. Len(Waiting(e)) \in Nat /\ Len(Waiting(e)) # 0
  BY <1>2 DEF Queue
<1>4. 1 \in 1..Len(Waiting(e))
  BY <1>3
<1> QED
  BY <1>2, <1>4, HeadIsFirst, PacketOf

LEMMA IInvReceiveData ==
  ASSUME IInv, NEW e \in Ends, ReceiveData(e)
  PROVE  IInv'
<1> DEFINE c == ch[e]
           pr == prog[e]
           p == Waiting(e)[1]
<1>1. Typed /\ prog \in [Ends -> Program] /\ pr \in Program /\ c \in Channel
  BY TypeOKIs DEF IInv, Typed
<1>2. Waiting(e) # <<>> /\ c.st = "open"
  BY DEF ReceiveData, HeadIs
<1>3. Head(Waiting(e)) = p /\ p.n \in Nat
  BY <1>1, <1>2, WaitingIs
<1>4. p.type = "DATA"
  BY <1>3 DEF ReceiveData, HeadIs
<1>5. PICK left \in LeftOf(c, p.n) :
        /\ Handled(e, GotData(c, p.n, left))
        /\ prog' = [prog EXCEPT ![e].got = IF c.zombie THEN @ ELSE @ + (c.backlog + p.n - left)]
  BY <1>3 DEF ReceiveData
<1>6. Takes(c, p, GotData(c, p.n, left))
  BY <1>4, <1>5, Zenon DEF Takes
<1> DEFINE more == IF c.zombie THEN pr.got ELSE pr.got + (c.backlog + p.n - left)
           qr == [pr EXCEPT !.got = more]
<1>7. more \in Nat
  <2>1. pr.got \in Nat /\ c.backlog \in Nat
    BY <1>1, ChannelType DEF Program
  <2>2. left = 0 \/ left = c.backlog + p.n
    BY <1>5 DEF LeftOf
  <2> QED
    BY <1>3, <2>1, <2>2
<1>8. prog' = [prog EXCEPT ![e] = qr]
  BY <1>1, <1>5
<1> HIDE DEF more
<1>9. qr \in Program /\ qr.ended = pr.ended
  BY <1>1, <1>7 DEF Program
<1>10. before' = before /\ UNCHANGED Counters
  BY DEF ReceiveData
<1> HIDE DEF qr, p
<1> QED
  BY <1>2, <1>5, <1>6, <1>8, <1>9, <1>10, IInvTakes DEF p

LEMMA IInvReceiveControl ==
  ASSUME IInv, NEW e \in Ends, ReceiveControl(e)
  PROVE  IInv'
<1> DEFINE c == ch[e]
           p == Waiting(e)[1]
<1>1. Typed /\ prog \in [Ends -> Program] /\ prog[e] \in Program
  BY TypeOKIs DEF IInv, Typed
<1>2. Waiting(e) # <<>> /\ c.st = "open"
  BY DEF ReceiveControl, HeadIs
<1>3. Head(Waiting(e)) = p
  BY <1>1, <1>2, WaitingIs
<1>4. PICK d : Takes(c, p, d) /\ Handled(e, d)
  <2>1. \/ p.type = "WINDOW_ADJUST" /\ Handled(e, GotWindowAdjust(c, p))
        \/ p.type = "REQUEST" /\ Handled(e, GotRequest(c))
        \/ p.type = "FAILURE" /\ Handled(e, GotFailure(c))
    BY <1>3 DEF ReceiveControl, HeadIs
  <2>2. CASE p.type = "WINDOW_ADJUST" /\ Handled(e, GotWindowAdjust(c, p))
    BY <2>2, Zenon DEF Takes
  <2>3. CASE p.type = "REQUEST" /\ Handled(e, GotRequest(c))
    BY <2>3, Zenon DEF Takes
  <2>4. CASE p.type = "FAILURE" /\ Handled(e, GotFailure(c))
    BY <2>4, Zenon DEF Takes
  <2> QED
    BY <2>1, <2>2, <2>3, <2>4
<1>5. prog' = [prog EXCEPT ![e] = prog[e]] /\ before' = before /\ UNCHANGED Counters
  BY <1>1 DEF ReceiveControl
<1> QED
  BY <1>1, <1>2, <1>4, <1>5, IInvTakes

LEMMA IInvReceiveEnd ==
  ASSUME IInv, NEW e \in Ends, ReceiveEnd(e)
  PROVE  IInv'
<1> DEFINE c == ch[e]
           pr == prog[e]
           p == Waiting(e)[1]
           saw == pr.sawEnd \/ ((p.type = "EOF" => c.backlog = 0) /\ ~c.zombie)
           qr == [pr EXCEPT !.sawEnd = saw]
<1>1. Typed /\ prog \in [Ends -> Program] /\ pr \in Program
  BY TypeOKIs DEF IInv, Typed
<1>2. Waiting(e) # <<>> /\ c.st = "open"
  BY DEF ReceiveEnd, HeadIs
<1>3. Head(Waiting(e)) = p
  BY <1>1, <1>2, WaitingIs
<1>4. prog' = [prog EXCEPT ![e] = qr]
  <2>1. prog' = [prog EXCEPT ![e].sawEnd = saw]
    BY <1>1, <1>3 DEF ReceiveEnd, ShowsEnd, HeadIs
  <2> QED
    BY <1>1, <2>1
<1>5. saw \in BOOLEAN
  OBVIOUS
<1> HIDE DEF saw
<1>6. qr \in Program /\ qr.ended = pr.ended
  BY <1>1, <1>5 DEF Program
<1>7. before' = before /\ UNCHANGED Counters
  BY DEF ReceiveEnd
<1>8. \/ p.type = "EOF" /\ Handled(e, GotEof(c))
      \/ p.type = "CLOSE" /\ Handled(e, GotClose(c))
  BY <1>3 DEF ReceiveEnd, HeadIs
<1>9. CASE p.type = "EOF" /\ Handled(e, GotEof(c))
  <2>1. Takes(c, p, GotEof(c))
    BY <1>9, Zenon DEF Takes
  <2> HIDE DEF qr, p
  <2> QED
    BY <1>2, <1>4, <1>6, <1>7, <1>9, <2>1, IInvTakes DEF p
<1>10. CASE p.type = "CLOSE" /\ Handled(e, GotClose(c))
  <2>1. prog' \in [Ends -> Program] /\ prog'[Other(e)] = prog[Other(e)]
    <3> HIDE DEF qr
    <3> QED
      BY <1>1, <1>4, <1>6, EndsAre
  <2> HIDE DEF qr, p
  <2> QED
    BY <1>2, <1>7, <1>10, <2>1, IInvCloses DEF p
<1> QED
  BY <1>8, <1>9, <1>10

LEMMA IInvStep ==
  ASSUME IInv, Next
  PROVE  IInv'
<1>1. CASE Accept
  BY <1>1, IInvAccept
<1>2. CASE ThrottleAll \/ UnthrottleAll
  BY <1>2, IInvThrottles
<1>3. ASSUME NEW e \in Ends, SocketData(e) \/ SocketEof(e) \/ SocketError(e) \/ SocketSent(e)
      PROVE  IInv'
  BY <1>3, IInvSockets
<1>4. ASSUME NEW e \in Ends, Receive(e)
      PROVE  IInv'
  <2>1. CASE ReceiveOpen
    BY <2>1, IInvReceiveOpen
  <2>2. CASE ReceiveOpenConfirmation \/ ReceiveOpenFailure
    BY <2>2, IInvAnswer
  <2>3. CASE ReceiveData(e)
    BY <2>3, IInvReceiveData
  <2>4. CASE ReceiveControl(e)
    BY <2>4, IInvReceiveControl
  <2>5. CASE ReceiveEnd(e)
    BY <2>5, IInvReceiveEnd
  <2> QED
    BY <1>4, <2>1, <2>2, <2>3, <2>4, <2>5 DEF Receive
<1> QED
  BY <1>1, <1>2, <1>3, <1>4 DEF Next

LEMMA IInvStutter ==
  ASSUME IInv, UNCHANGED vars
  PROVE  IInv'
<1>1. /\ ch' = ch /\ prog' = prog /\ before' = before /\ opens' = opens /\ answered' = answered
      /\ breaks' = breaks /\ backups' = backups
  BY DEF vars
<1> QED
  BY <1>1 DEF IInv, TypeOK, Situation, Number

LEMMA IInvInit == Init => IInv
<1> SUFFICES ASSUME Init PROVE IInv
  OBVIOUS
<1> DEFINE b == [throttled |-> FALSE, tx |-> <<>>]
           d == Destroyed(b)
           q == <<>>
<1>1. q \in Queue /\ b.tx = q /\ b.throttled \in BOOLEAN
  BY DEF Queue
<1>2. d \in Channel /\ d.st = "none" /\ d.tx = q /\ d.backlog = 0
  <2> HIDE DEF b, q
  <2> QED
    BY <1>1, DestroyedIs, GoneBacklog
<1>3. /\ ch = [e \in Ends |-> d] /\ prog = [e \in Ends |-> Newcomer] /\ before = Newcomer
      /\ opens = 0 /\ answered = 0 /\ breaks = 0 /\ backups = 0
  BY DEF Init
<1> HIDE DEF d, b
<1>4. Typed
  BY <1>2, <1>3, NewcomerType, SshAssumption DEF Typed
<1>5. \A e \in Ends : Kept(ch[e], prog[e], Number(e))
  BY <1>2, <1>3 DEF Kept
<1>6. Situation
  <2>1. Idle(ch[Client], ch[Server])
    BY <1>2, <1>3, EndsAre DEF Idle
  <2>2. ~(opens # answered)
    BY <1>3
  <2> QED
    BY <2>1, <2>2 DEF Situation, Related
<1> QED
  BY <1>3, <1>4, <1>5, <1>6, TypeOKIs DEF IInv

LEMMA Invariance == Spec => []IInv
<1>1. IInv /\ [Next]_vars => IInv'
  BY IInvStep, IInvStutter
<1> QED
  BY <1>1, IInvInit, PTL DEF Spec

-----------------------------------------------------------------------------
(* ... and what a channel does to the bytes that it is given                *)

\* Of a channel that is open, what the other end and the program learn of a change
\* from c to d: bytes go from the buffer into packets, and none goes after an EOF.
Goes(c, d) ==
  /\ d \in Channel /\ d.st = c.st /\ d.zombie = c.zombie /\ d.ready = c.ready
  /\ d.backlog = c.backlog
  /\ "RCVD_EOF" \in d.closes <=> "RCVD_EOF" \in c.closes
  /\ "SENT_EOF" \in c.closes => "SENT_EOF" \in d.closes
  /\ "SENT_EOF" \in d.closes => "SENT_EOF" \in c.closes \/ c.zombie \/ d.out = 0
  /\ \E r \in Queue, n \in Nat :
       /\ d.tx = c.tx \o r /\ Adds(r, "data", n)
       /\ d.sent = c.sent + n /\ c.out = d.out + n
       /\ n # 0 => "SENT_EOF" \notin c.closes
       /\ NoEof(r) \/ "SENT_EOF" \in d.closes

LEMMA NoEofConcat ==
  ASSUME NEW q \in Queue, NEW r \in Queue, NoEof(q), NoEof(r)
  PROVE  NoEof(q \o r)
<1> SUFFICES ASSUME NEW i \in 1..Len(q \o r) PROVE (q \o r)[i].type # "EOF"
  BY DEF NoEof
<1>1. q \in Seq(PacketSet) /\ r \in Seq(PacketSet)
  BY DEF Queue
<1>2. Len(q \o r) = Len(q) + Len(r) /\ Len(q) \in Nat /\ Len(r) \in Nat
  BY <1>1
<1>3. CASE i <= Len(q)
  <2>1. i \in 1..Len(q) /\ (q \o r)[i] = q[i]
    BY <1>1, <1>2, <1>3
  <2> QED
    BY <2>1 DEF NoEof
<1>4. CASE ~(i <= Len(q))
  <2>1. i - Len(q) \in 1..Len(r) /\ (q \o r)[i] = r[i - Len(q)]
    BY <1>1, <1>2, <1>4
  <2> QED
    BY <2>1 DEF NoEof
<1> QED
  BY <1>3, <1>4

LEMMA NothingAdds ==
  /\ <<>> \in Queue /\ NoEof(<<>>)
  /\ \A k : Adds(<<>>, k, 0)
  /\ \A q \in Queue : q \o <<>> = q
<1>1. <<>> \in Queue /\ Len(<<>>) = 0
  BY DEF Queue
<1>2. NoEof(<<>>)
  BY <1>1 DEF NoEof
<1>3. \A k : Adds(<<>>, k, 0)
  BY <1>1, AddsNothing
<1>4. \A q \in Queue : q \o <<>> = q
  BY DEF Queue
<1> QED
  BY <1>1, <1>2, <1>3, <1>4

LEMMA GoesTrans ==
  ASSUME NEW c \in Channel, NEW d, NEW e, Goes(c, d), Goes(d, e)
  PROVE  Goes(c, e)
<1>1. PICK q \in Queue, m \in Nat :
        /\ d.tx = c.tx \o q /\ Adds(q, "data", m)
        /\ d.sent = c.sent + m /\ c.out = d.out + m
        /\ m # 0 => "SENT_EOF" \notin c.closes
        /\ NoEof(q) \/ "SENT_EOF" \in d.closes
  BY DEF Goes
<1>2. PICK r \in Queue, n \in Nat :
        /\ e.tx = d.tx \o r /\ Adds(r, "data", n)
        /\ e.sent = d.sent + n /\ d.out = e.out + n
        /\ n # 0 => "SENT_EOF" \notin d.closes
        /\ NoEof(r) \/ "SENT_EOF" \in e.closes
  BY DEF Goes
<1>3. d \in Channel /\ e \in Channel
  BY DEF Goes
<1>4. c.tx \in Queue /\ c.sent \in Nat /\ c.out \in Nat /\ d.out \in Nat /\ e.out \in Nat
      /\ d.sent \in Nat /\ e.sent \in Nat
  BY <1>3, ChannelType
<1> DEFINE s == q \o r
<1>5. e.tx = c.tx \o s /\ s \in Queue
  <2> DEFINE z == c.tx
  <2>1. z \in Seq(PacketSet) /\ q \in Seq(PacketSet) /\ r \in Seq(PacketSet)
    BY <1>4 DEF Queue
  <2>2. e.tx = (z \o q) \o r
    BY <1>1, <1>2
  <2> HIDE DEF z
  <2>3. (z \o q) \o r = z \o (q \o r)
    BY <2>1, ThreeQueues
  <2>4. q \o r \in Queue
    BY <2>1 DEF Queue
  <2> QED
    BY <2>2, <2>3, <2>4 DEF z
<1>6. n # 0 => NoEof(q) /\ "SENT_EOF" \notin c.closes
  BY <1>1, <1>2 DEF Goes
<1>7. Adds(s, "data", m + n)
  <2>1. Adds(q, "data", m) /\ Adds(r, "data", n) /\ (n # 0 => NoEof(q))
    BY <1>1, <1>2, <1>6
  <2> QED
    BY <2>1, AddsConcat
<1>8. m + n \in Nat /\ e.sent = c.sent + (m + n) /\ c.out = e.out + (m + n)
  <2>1. /\ d.sent = c.sent + m /\ c.out = d.out + m
        /\ e.sent = d.sent + n /\ d.out = e.out + n
    BY <1>1, <1>2
  <2>2. e.sent = c.sent + (m + n)
    BY <1>4, <2>1
  <2>3. c.out = e.out + (m + n)
    BY <1>4, <2>1
  <2> QED
    BY <2>2, <2>3
<1>9. m + n # 0 => "SENT_EOF" \notin c.closes
  <2>1. m + n # 0 => m # 0 \/ n # 0
    OBVIOUS
  <2> QED
    BY <1>1, <1>6, <2>1
<1>10. NoEof(s) \/ "SENT_EOF" \in e.closes
  <2>1. "SENT_EOF" \in d.closes => "SENT_EOF" \in e.closes
    BY DEF Goes
  <2>2. NoEof(q) /\ NoEof(r) => NoEof(s)
    BY NoEofConcat
  <2> QED
    BY <1>1, <1>2, <2>1, <2>2
<1>11. "SENT_EOF" \in e.closes => "SENT_EOF" \in c.closes \/ c.zombie \/ e.out = 0
  <2>1. d.out = 0 => e.out = 0
    BY <1>2, <1>4
  <2>2. "SENT_EOF" \in d.closes => "SENT_EOF" \in c.closes \/ c.zombie \/ d.out = 0
    BY DEF Goes
  <2>3. "SENT_EOF" \in e.closes => "SENT_EOF" \in d.closes \/ d.zombie \/ e.out = 0
    BY DEF Goes
  <2>4. d.zombie = c.zombie
    BY DEF Goes
  <2> QED
    BY <2>1, <2>2, <2>3, <2>4
<1>12. /\ e \in Channel /\ e.st = c.st /\ e.zombie = c.zombie /\ e.ready = c.ready
       /\ e.backlog = c.backlog
       /\ "RCVD_EOF" \in e.closes <=> "RCVD_EOF" \in c.closes
       /\ "SENT_EOF" \in c.closes => "SENT_EOF" \in e.closes
  BY DEF Goes
<1> HIDE DEF s
<1> QED
  BY <1>5, <1>7, <1>8, <1>9, <1>10, <1>11, <1>12 DEF Goes

\* A change that touches none of that.
LEMMA GoesMarks ==
  ASSUME NEW c \in Channel, NEW d \in Channel, d.st = c.st, d.zombie = c.zombie, d.ready = c.ready,
         d.backlog = c.backlog, d.closes = c.closes, d.out = c.out, d.sent = c.sent, d.tx = c.tx
  PROVE  Goes(c, d)
<1>1. c.tx \in Queue /\ c.sent \in Nat /\ c.out \in Nat
  BY ChannelType
<1>2. d.tx = c.tx \o <<>> /\ d.sent = c.sent + 0 /\ c.out = d.out + 0 /\ 0 \in Nat
  BY <1>1, NothingAdds
<1> QED
  BY <1>2, NothingAdds DEF Goes

LEMMA GoesSame ==
  ASSUME NEW c \in Channel
  PROVE  Goes(c, c)
BY GoesMarks

\* One packet that carries no data is sent, an EOF only by a channel that marks it.
LEMMA GoesPush ==
  ASSUME NEW c \in Channel, NEW m \in Channel, m.st = c.st, m.zombie = c.zombie, m.ready = c.ready,
         m.backlog = c.backlog, m.out = c.out, m.sent = c.sent, m.tx = c.tx,
         "RCVD_EOF" \in m.closes <=> "RCVD_EOF" \in c.closes,
         "SENT_EOF" \in c.closes => "SENT_EOF" \in m.closes,
         "SENT_EOF" \in m.closes => "SENT_EOF" \in c.closes \/ c.zombie \/ c.out = 0,
         NEW type \in PacketTypes, type # "DATA", type = "EOF" => "SENT_EOF" \in m.closes
  PROVE  Goes(c, Push(m, type, 0))
<1> DEFINE p == Packet(type, 0)
           d == Push(m, type, 0)
           r == <<p>>
<1>1. p \in PacketSet /\ p.type = type /\ p.n = 0
  BY DEF Packet, PacketSet
<1>2. d \in Channel /\ d.tx = m.tx \o r /\ SameButTx(m, d)
  <2>1. 0 \in Nat
    OBVIOUS
  <2> QED
    BY <2>1, PushFields, Zenon
<1> HIDE DEF d
<1>3. /\ d.st = c.st /\ d.zombie = c.zombie /\ d.ready = c.ready /\ d.out = c.out /\ d.sent = c.sent
      /\ d.backlog = c.backlog /\ d.closes = m.closes /\ d.tx = c.tx \o r
  BY <1>2 DEF SameButTx
<1>4. Weighs("data", p) = 0
  BY <1>1 DEF Weighs
<1> HIDE DEF p
<1>5. r \in Queue /\ Adds(r, "data", 0)
  BY <1>1, <1>4, AddsOne
<1>6. NoEof(r) \/ "SENT_EOF" \in d.closes
  <2>1. r \in Seq(PacketSet) /\ Len(r) = 1 /\ r[1] = p
    BY <1>1
  <2>2. type # "EOF" => NoEof(r)
    BY <1>1, <2>1 DEF NoEof
  <2> QED
    BY <1>3, <2>2
<1>7. c.sent \in Nat /\ c.out \in Nat
  BY ChannelType
<1>8. d.sent = c.sent + 0 /\ c.out = d.out + 0 /\ 0 \in Nat
  BY <1>3, <1>7
<1> HIDE DEF r
<1>9. Goes(c, d)
  BY <1>2, <1>3, <1>5, <1>6, <1>8 DEF Goes
<1> QED
  BY <1>9 DEF d

LEMMA CheckCloseGoes ==
  ASSUME NEW c \in Channel
  PROVE  Goes(c, ssh2_channel_check_close(c))
<1> DEFINE m == [c EXCEPT !.closes = @ \cup {"SENT_EOF", "SENT_CLOSE"}]
           d == Push(m, "CLOSE", 0)
<1>1. CASE ~(c.st = "open" /\ "SENT_CLOSE" \notin c.closes /\ c.chanreqs = <<>> /\ WantClose(c))
  <2>1. ssh2_channel_check_close(c) = c
    BY <1>1 DEF ssh2_channel_check_close
  <2> QED
    BY <2>1, GoesSame
<1>2. CASE c.st = "open" /\ "SENT_CLOSE" \notin c.closes /\ c.chanreqs = <<>> /\ WantClose(c)
  <2>1. ssh2_channel_check_close(c) = d
    BY <1>2 DEF ssh2_channel_check_close
  <2>2. /\ m \in Channel /\ m.closes = c.closes \cup {"SENT_EOF", "SENT_CLOSE"}
        /\ m.st = c.st /\ m.tx = c.tx /\ m.out = c.out /\ m.sent = c.sent
        /\ m.zombie = c.zombie /\ m.ready = c.ready /\ m.backlog = c.backlog
    BY DEF Channel, Closes
  <2>3. c.zombie \/ "SENT_EOF" \in c.closes
    BY <1>2 DEF WantClose
  <2>4. "CLOSE" \in PacketTypes
    BY DEF PacketTypes
  <2> HIDE DEF m
  <2>5. Goes(c, d)
    BY <2>2, <2>3, <2>4, GoesPush
  <2> QED
    BY <2>1, <2>5
<1> QED
  BY <1>1, <1>2

LEMMA TryEofGoes ==
  ASSUME NEW c \in Channel
  PROVE  Goes(c, ssh2_channel_try_eof(c))
<1> DEFINE m == [c EXCEPT !.pending_eof = FALSE, !.closes = @ \cup {"SENT_EOF"}]
           d == Push(m, "EOF", 0)
           e == ssh2_channel_check_close(d)
<1>1. CASE c.st = "halfopen" \/ c.out > 0
  <2>1. ssh2_channel_try_eof(c) = c
    BY <1>1 DEF ssh2_channel_try_eof
  <2> QED
    BY <2>1, GoesSame
<1>2. CASE ~(c.st = "halfopen" \/ c.out > 0)
  <2>1. ssh2_channel_try_eof(c) = e
    BY <1>2 DEF ssh2_channel_try_eof
  <2>2. /\ m \in Channel /\ m.closes = c.closes \cup {"SENT_EOF"}
        /\ m.st = c.st /\ m.tx = c.tx /\ m.out = c.out /\ m.sent = c.sent
        /\ m.zombie = c.zombie /\ m.ready = c.ready /\ m.backlog = c.backlog
    BY DEF Channel, Closes
  <2>3. c.out = 0
    BY <1>2, ChannelType
  <2>4. "EOF" \in PacketTypes
    BY DEF PacketTypes
  <2> HIDE DEF m
  <2>5. Goes(c, d)
    BY <2>2, <2>3, <2>4, GoesPush
  <2>6. d \in Channel
    BY <2>5 DEF Goes
  <2> HIDE DEF d
  <2>7. Goes(d, e)
    BY <2>6, CheckCloseGoes
  <2> HIDE DEF e
  <2> QED
    BY <2>1, <2>5, <2>7, GoesTrans
<1> QED
  BY <1>1, <1>2

LEMMA WriteEofGoes ==
  ASSUME NEW c \in Channel
  PROVE  Goes(c, ssh2channel_write_eof(c))
<1> DEFINE m == [c EXCEPT !.pending_eof = TRUE]
<1>1. CASE "SENT_EOF" \in c.closes
  BY <1>1, GoesSame DEF ssh2channel_write_eof
<1>2. CASE "SENT_EOF" \notin c.closes
  <2>1. ssh2channel_write_eof(c) = ssh2_channel_try_eof(m)
    BY <1>2 DEF ssh2channel_write_eof
  <2>2. /\ m \in Channel /\ m.st = c.st /\ m.zombie = c.zombie /\ m.ready = c.ready
        /\ m.backlog = c.backlog /\ m.closes = c.closes /\ m.out = c.out /\ m.sent = c.sent /\ m.tx = c.tx
    BY DEF Channel
  <2> HIDE DEF m
  <2>3. Goes(c, m)
    BY <2>2, GoesMarks
  <2> QED
    BY <2>1, <2>2, <2>3, TryEofGoes, GoesTrans
<1> QED
  BY <1>1, <1>2

LEMMA SendBufferedGoes ==
  ASSUME NEW c \in Channel, "SENT_EOF" \notin c.closes
  PROVE  Goes(c, SendBuffered(c))
<1> DEFINE d == SendBuffered(c)
           total == Minimum(c.out, c.remwindow)
<1>1. /\ d \in Channel /\ total \in Nat
      /\ d.out = c.out - total /\ d.sent = c.sent + total /\ d.remwindow = c.remwindow - total
      /\ SameButTx([c EXCEPT !.out = d.out, !.sent = d.sent, !.remwindow = d.remwindow], d)
  BY SendBufferedIs, Zenon
<1>2. PICK r \in Queue : /\ d.tx = c.tx \o r
                         /\ \A i \in 1..Len(r) : r[i].type = "DATA"
                         /\ Adds(r, "data", total)
  BY SendBufferedIs, Zenon
<1> HIDE DEF d, total
<1>3. /\ d.st = c.st /\ d.zombie = c.zombie /\ d.ready = c.ready /\ d.closes = c.closes
      /\ d.backlog = c.backlog
  BY <1>1 DEF SameButTx, Channel
<1>4. c.out = d.out + total
  BY <1>1, ChannelType
<1>5. NoEof(r)
  BY <1>2 DEF NoEof
<1>6. Goes(c, d)
  BY <1>1, <1>2, <1>3, <1>4, <1>5 DEF Goes
<1> QED
  BY <1>6 DEF d

LEMMA TrySendGoes ==
  ASSUME NEW c \in Channel, "SENT_EOF" \notin c.closes
  PROVE  Goes(c, ssh2_try_send(c))
<1> DEFINE d == SendBuffered(c)
           e == ssh2_channel_try_eof(d)
<1>1. Goes(c, d)
  BY SendBufferedGoes
<1>2. \/ ssh2_try_send(c) = c \/ ssh2_try_send(c) = d \/ ssh2_try_send(c) = e
  BY Zenon DEF ssh2_try_send
<1> HIDE DEF d
<1>3. d \in Channel
  BY <1>1 DEF Goes
<1>4. Goes(d, e)
  BY <1>3, TryEofGoes
<1> HIDE DEF e
<1>5. Goes(c, e)
  BY <1>1, <1>4, GoesTrans
<1> QED
  BY <1>1, <1>2, <1>5, GoesSame

LEMMA CheckThrottleGoes ==
  ASSUME NEW c \in Channel
  PROVE  Goes(c, ssh2_channel_check_throttle(c))
<1> DEFINE frozen == c.throttled \/ c.pending_eof \/ "SENT_EOF" \in c.closes
           d == [c EXCEPT !.frozen = frozen]
<1>1. ssh2_channel_check_throttle(c) = c \/ ssh2_channel_check_throttle(c) = d
  BY Zenon DEF ssh2_channel_check_throttle
<1>2. frozen \in BOOLEAN
  BY ChannelType
<1> HIDE DEF frozen
<1>3. /\ d \in Channel /\ d.st = c.st /\ d.zombie = c.zombie /\ d.ready = c.ready
      /\ d.closes = c.closes /\ d.out = c.out /\ d.sent = c.sent /\ d.tx = c.tx
      /\ d.backlog = c.backlog
  BY <1>2 DEF Channel
<1> HIDE DEF d
<1>4. Goes(c, d)
  BY <1>3, GoesMarks
<1> QED
  BY <1>1, <1>4, GoesSame

LEMMA TrySendAndUnthrottleGoes ==
  ASSUME NEW c \in Channel
  PROVE  Goes(c, ssh2_try_send_and_unthrottle(c))
<1> DEFINE d == ssh2_try_send(c)
           e == ssh2_channel_check_throttle(d)
<1>1. CASE "SENT_EOF" \in c.closes
  BY <1>1, GoesSame DEF ssh2_try_send_and_unthrottle
<1>2. CASE "SENT_EOF" \notin c.closes
  <2>1. ssh2_try_send_and_unthrottle(c) = d \/ ssh2_try_send_and_unthrottle(c) = e
    BY <1>2, Zenon DEF ssh2_try_send_and_unthrottle
  <2>2. Goes(c, d)
    BY <1>2, TrySendGoes
  <2> HIDE DEF d
  <2>3. d \in Channel
    BY <2>2 DEF Goes
  <2>4. Goes(d, e)
    BY <2>3, CheckThrottleGoes
  <2> HIDE DEF e
  <2>5. Goes(c, e)
    BY <2>2, <2>4, GoesTrans
  <2> QED
    BY <2>1, <2>2, <2>5
<1> QED
  BY <1>1, <1>2

LEMMA SetWindowGoes ==
  ASSUME NEW c \in Channel, NEW newwin \in Nat
  PROVE  Goes(c, ssh2_set_window(c, newwin))
<1> DEFINE more == newwin - c.locwindow
           wide == newwin = c.locmaxwin
           r == (IF wide THEN <<Packet("REQUEST", 0)>> ELSE <<>>) \o <<Packet("WINDOW_ADJUST", more)>>
           q == (c.tx \o (IF wide THEN <<Packet("REQUEST", 0)>> ELSE <<>>))
                  \o <<Packet("WINDOW_ADJUST", more)>>
           reqs == IF wide THEN Append(c.chanreqs, more) ELSE c.chanreqs
           rem == IF wide THEN c.remlocwin ELSE newwin
           throttle == IF ~wide THEN "THROTTLED"
                       ELSE IF c.throttle_state = "UNTHROTTLED" THEN c.throttle_state ELSE "UNTHROTTLING"
           d == [c EXCEPT !.locwindow = newwin, !.tx = q, !.chanreqs = reqs, !.remlocwin = rem,
                          !.throttle_state = throttle]
           keep == {"RCVD_EOF", "SENT_CLOSE"} \cap c.closes # {} \/ newwin \div 2 < c.locwindow
<1>1. ssh2_set_window(c, newwin) = IF keep THEN c ELSE d
  BY Zenon DEF ssh2_set_window
<1>2. CASE keep
  <2>1. ssh2_set_window(c, newwin) = c
    BY <1>1, <1>2
  <2> QED
    BY <2>1, GoesSame
<1>3. CASE ~keep
  <2>1. c.locwindow \in Int /\ c.chanreqs \in Seq(Nat) /\ c.tx \in Seq(PacketSet)
        /\ c.remlocwin \in Int
        /\ c.throttle_state \in {"THROTTLED", "UNTHROTTLING", "UNTHROTTLED"}
    BY ChannelType DEF Queue
  <2>2. more \in Nat
    <3>1. ~(newwin \div 2 < c.locwindow)
      BY <1>3
    <3> QED
      BY <2>1, <3>1
  <2> HIDE DEF more, keep
  <2>3. r \in Queue /\ Adds(r, "data", 0) /\ \A i \in 1..Len(r) : r[i].type \in {"REQUEST", "WINDOW_ADJUST"}
    <3> HIDE DEF wide
    <3> QED
      BY <2>2, GrantPackets
  <2>4. q = c.tx \o r /\ c.tx \o r \in Queue
    <3> DEFINE a == IF wide THEN <<Packet("REQUEST", 0)>> ELSE <<>>
               b == <<Packet("WINDOW_ADJUST", more)>>
               z == c.tx
    <3>1. a \in Seq(PacketSet) /\ b \in Seq(PacketSet)
      <4>1. Packet("REQUEST", 0) \in PacketSet /\ Packet("WINDOW_ADJUST", more) \in PacketSet
        BY <2>2 DEF Packet, PacketSet, PacketTypes
      <4>2. <<Packet("REQUEST", 0)>> \in Seq(PacketSet) /\ b \in Seq(PacketSet) /\ <<>> \in Seq(PacketSet)
        BY <4>1
      <4> QED
        BY <4>2
    <3>2. z \in Seq(PacketSet) /\ q = (z \o a) \o b /\ r = a \o b
      BY <2>1
    <3> HIDE DEF a, b, q, r, z
    <3>3. (z \o a) \o b = z \o (a \o b) /\ z \o (a \o b) \in Seq(PacketSet)
      BY <3>1, <3>2, ThreeQueues
    <3> QED
      BY <3>2, <3>3 DEF Queue, z
  <2> HIDE DEF r
  <2>5. reqs \in Seq(Nat)
    <3> DEFINE s == c.chanreqs
    <3>1. s \in Seq(Nat)
      BY <2>1
    <3>2. reqs = IF wide THEN Append(s, more) ELSE s
      OBVIOUS
    <3> HIDE DEF s, reqs, wide
    <3>3. Append(s, more) \in Seq(Nat)
      BY <2>2, <3>1
    <3> QED
      BY <3>1, <3>2, <3>3
  <2>6. rem \in Int /\ throttle \in {"THROTTLED", "UNTHROTTLING", "UNTHROTTLED"}
    BY <2>1
  <2>7. newwin \in Int /\ q \in Queue
    <3> HIDE DEF q
    <3>1. q \in Queue
      BY <2>4
    <3> QED
      BY <3>1
  <2> HIDE DEF q, reqs, rem, throttle, wide
  <2>8. d \in Channel
    BY <2>5, <2>6, <2>7 DEF Channel
  <2>9. /\ d.st = c.st /\ d.zombie = c.zombie /\ d.ready = c.ready
        /\ d.closes = c.closes /\ d.out = c.out /\ d.sent = c.sent /\ d.tx = q
        /\ d.backlog = c.backlog
    BY <2>8 DEF Channel
  <2> HIDE DEF d
  <2>10. d.sent = c.sent + 0 /\ c.out = d.out + 0 /\ 0 \in Nat
    BY <2>9, ChannelType
  <2>11. NoEof(r)
    BY <2>3 DEF NoEof
  <2>12. Goes(c, d)
    BY <2>3, <2>4, <2>8, <2>9, <2>10, <2>11 DEF Goes
  <2> QED
    BY <1>1, <1>3, <2>12
<1> QED
  BY <1>2, <1>3

LEMMA GotDataGoes ==
  ASSUME NEW c \in Channel, NEW n \in Nat, NEW left \in Nat
  PROVE  Goes([c EXCEPT !.backlog = left], GotData(c, n, left)) /\ GotData(c, n, left).backlog = left
<1> DEFINE maxwin == Grown(c, n)
           throttling == c.throttling_conn \/ left > maxwin
           w == c.locwindow - n
           rw == c.remlocwin - n
           b == [c EXCEPT !.backlog = left]
           d == [c EXCEPT !.locwindow = w, !.remlocwin = rw, !.backlog = left, !.locmaxwin = maxwin,
                          !.throttling_conn = throttling]
           e == ssh2_set_window(d, maxwin - left)
<1>1. maxwin \in Nat
  BY GrownIs
<1>2. throttling \in BOOLEAN /\ w \in Int /\ rw \in Int
  BY ChannelType
<1>3. d = [c EXCEPT !.locwindow = @ - n, !.remlocwin = @ - n, !.backlog = left,
                    !.locmaxwin = maxwin, !.throttling_conn = @ \/ left > maxwin]
  BY DEF Channel
<1>4. GotData(c, n, left) = IF left < maxwin THEN e ELSE d
  BY <1>3, Zenon DEF GotData
<1> HIDE DEF maxwin, throttling, w, rw
<1>5. b \in Channel /\ d \in Channel
  BY <1>1, <1>2 DEF Channel
<1>6. /\ d.st = b.st /\ d.zombie = b.zombie /\ d.ready = b.ready
      /\ d.closes = b.closes /\ d.out = b.out /\ d.sent = b.sent /\ d.tx = b.tx
      /\ d.backlog = b.backlog /\ b.backlog = left
  BY <1>1, <1>2 DEF Channel
<1> HIDE DEF b, d
<1>7. Goes(b, d)
  BY <1>5, <1>6, GoesMarks
<1>8. CASE left < maxwin
  <2>1. maxwin - left \in Nat
    BY <1>1, <1>8
  <2>2. Goes(d, e)
    BY <1>5, <2>1, SetWindowGoes
  <2> HIDE DEF e
  <2>3. Goes(b, e) /\ e.backlog = left
    BY <1>5, <1>6, <1>7, <2>2, GoesTrans DEF Goes
  <2> QED
    BY <1>4, <1>8, <2>3 DEF b
<1>9. CASE ~(left < maxwin)
  BY <1>4, <1>6, <1>7, <1>9 DEF b
<1> QED
  BY <1>8, <1>9

LEMMA UnthrottledGoes ==
  ASSUME NEW c \in Channel
  PROVE  Goes([c EXCEPT !.backlog = 0], Unthrottled(c, 0)) /\ Unthrottled(c, 0).backlog = 0
<1> DEFINE maxwin == c.locmaxwin
           throttling == c.throttling_conn /\ 0 > c.locmaxwin
           b == [c EXCEPT !.backlog = 0]
           d == [c EXCEPT !.backlog = 0, !.throttling_conn = throttling]
           e == ssh2_set_window(d, maxwin - 0)
<1>1. maxwin \in Nat /\ maxwin - 0 \in Nat
  BY ChannelType
<1>2. throttling \in BOOLEAN
  BY ChannelType
<1>3. Unthrottled(c, 0) = IF 0 < maxwin THEN e ELSE d
  BY Zenon DEF Unthrottled
<1> HIDE DEF maxwin, throttling
<1>4. b \in Channel /\ d \in Channel
  BY <1>2 DEF Channel
<1>5. /\ d.st = b.st /\ d.zombie = b.zombie /\ d.ready = b.ready
      /\ d.closes = b.closes /\ d.out = b.out /\ d.sent = b.sent /\ d.tx = b.tx
      /\ d.backlog = b.backlog /\ b.backlog = 0
  BY <1>2 DEF Channel
<1> HIDE DEF b, d
<1>6. Goes(b, d)
  BY <1>4, <1>5, GoesMarks
<1>7. Goes(d, e)
  BY <1>1, <1>4, SetWindowGoes
<1> HIDE DEF e
<1>8. Goes(b, e) /\ e.backlog = 0
  BY <1>4, <1>5, <1>6, <1>7, GoesTrans DEF Goes
<1> QED
  BY <1>3, <1>5, <1>6, <1>8 DEF b

LEMMA GotWindowAdjustGoes ==
  ASSUME NEW c \in Channel, NEW p, p.n \in Nat
  PROVE  Goes(c, GotWindowAdjust(c, p))
<1> DEFINE rem == c.remwindow + p.n
           d == [c EXCEPT !.remwindow = rem]
           e == ssh2_try_send_and_unthrottle(d)
<1>1. GotWindowAdjust(c, p) = c \/ GotWindowAdjust(c, p) = e
  BY DEF GotWindowAdjust
<1>2. rem \in Nat
  BY ChannelType
<1> HIDE DEF rem
<1>3. d \in Channel
  BY <1>2 DEF Channel
<1>4. /\ d.st = c.st /\ d.zombie = c.zombie /\ d.ready = c.ready
      /\ d.closes = c.closes /\ d.out = c.out /\ d.sent = c.sent /\ d.tx = c.tx
      /\ d.backlog = c.backlog
  BY <1>3 DEF Channel
<1> HIDE DEF d
<1>5. Goes(c, d) /\ Goes(d, e)
  BY <1>3, <1>4, GoesMarks, TrySendAndUnthrottleGoes
<1> HIDE DEF e
<1>6. Goes(c, e)
  BY <1>5, GoesTrans
<1> QED
  BY <1>1, <1>6, GoesSame

LEMMA GotRequestGoes ==
  ASSUME NEW c \in Channel
  PROVE  Goes(c, GotRequest(c))
<1> DEFINE d == Push(c, "FAILURE", 0)
<1>1. GotRequest(c) = c \/ GotRequest(c) = d
  BY DEF GotRequest
<1>2. "FAILURE" \in PacketTypes
  BY DEF PacketTypes
<1>3. Goes(c, d)
  BY <1>2, GoesPush
<1> QED
  BY <1>1, <1>3, GoesSame

LEMMA GotFailureGoes ==
  ASSUME NEW c \in Channel, c.chanreqs # <<>>
  PROVE  Goes(c, GotFailure(c))
<1> DEFINE rl == c.remlocwin + Head(c.chanreqs)
           reqs == Tail(c.chanreqs)
           throttle == IF c.throttle_state = "UNTHROTTLING" THEN "UNTHROTTLED" ELSE c.throttle_state
           d == [c EXCEPT !.remlocwin = rl, !.chanreqs = reqs, !.throttle_state = throttle]
           e == ssh2_channel_check_close(d)
<1>1. rl \in Int /\ reqs \in Seq(Nat)
  <2> DEFINE s == c.chanreqs
  <2>1. s \in Seq(Nat) /\ s # <<>> /\ c.remlocwin \in Int
    BY ChannelType
  <2> HIDE DEF s
  <2>2. Head(s) \in Nat /\ Tail(s) \in Seq(Nat)
    BY <2>1
  <2> QED
    BY <2>1, <2>2 DEF s
<1>2. throttle \in {"THROTTLED", "UNTHROTTLING", "UNTHROTTLED"}
  BY ChannelType
<1>3. GotFailure(c) = e
  BY Zenon DEF GotFailure
<1> HIDE DEF rl, reqs, throttle
<1>4. d \in Channel
  BY <1>1, <1>2 DEF Channel
<1>5. /\ d.st = c.st /\ d.zombie = c.zombie /\ d.ready = c.ready
      /\ d.closes = c.closes /\ d.out = c.out /\ d.sent = c.sent /\ d.tx = c.tx
      /\ d.backlog = c.backlog
  BY <1>4 DEF Channel
<1> HIDE DEF d
<1>6. Goes(c, d) /\ Goes(d, e)
  BY <1>4, <1>5, GoesMarks, CheckCloseGoes
<1> HIDE DEF e
<1> QED
  BY <1>3, <1>6, GoesTrans

\* All packets that are taken, EOF excepted.
LEMMA TakesGoes ==
  ASSUME NEW c \in Channel, NEW p \in PacketSet, NEW d, Takes(c, p, d), p.type # "EOF",
         p.type = "FAILURE" => c.chanreqs # <<>>
  PROVE  /\ Goes([c EXCEPT !.backlog = d.backlog], d)
         /\ d.backlog = c.backlog \/ (p.type = "DATA" /\ d.backlog \in LeftOf(c, p.n))
<1>1. p.n \in Nat
  BY DEF PacketSet
<1>2. CASE p.type = "DATA" /\ \E left \in LeftOf(c, p.n) : d = GotData(c, p.n, left)
  <2>1. PICK left \in LeftOf(c, p.n) : d = GotData(c, p.n, left)
    BY <1>2
  <2>2. left \in Nat
    BY <1>1, ChannelType DEF LeftOf
  <2> QED
    BY <1>1, <1>2, <2>1, <2>2, GotDataGoes
<1>3. ASSUME Goes(c, d)
      PROVE  Goes([c EXCEPT !.backlog = d.backlog], d) /\ d.backlog = c.backlog
  <2>1. d.backlog = c.backlog
    BY <1>3 DEF Goes
  <2>2. [c EXCEPT !.backlog = d.backlog] = c
    BY <2>1 DEF Channel
  <2> QED
    BY <1>3, <2>1, <2>2
<1>4. CASE p.type = "WINDOW_ADJUST" /\ d = GotWindowAdjust(c, p)
  BY <1>1, <1>3, <1>4, GotWindowAdjustGoes
<1>5. CASE p.type = "REQUEST" /\ d = GotRequest(c)
  BY <1>3, <1>5, GotRequestGoes
<1>6. CASE p.type = "FAILURE" /\ d = GotFailure(c)
  BY <1>3, <1>6, GotFailureGoes
<1> QED
  BY <1>2, <1>4, <1>5, <1>6 DEF Takes

-----------------------------------------------------------------------------
(* The forwarded pipe: what a step looks like to the two programs           *)

\* What a program did and saw may change from p to r in one of these ways, while
\* the other program is where it was, at q.
Writes(p, r) == ~p.ended /\ ~p.broken /\ \E n \in Nat \ {0} : r = [p EXCEPT !.wrote = @ + n]
Finishes(p, r) == ~p.ended /\ r = [p EXCEPT !.ended = TRUE]
Breaks(p, r) == ~p.broken /\ r = [p EXCEPT !.broken = TRUE]
Hears(p, q, r) ==
  ~p.sawEnd /\ \E n \in Nat \ {0} : p.got + n <= q.wrote /\ r = [p EXCEPT !.got = @ + n]
HearsEnd(p, q, r) ==
  /\ ~p.sawEnd
  /\ \E g \in p.got..q.wrote :
       /\ q.broken \/ (q.ended /\ (p.ended \/ g = q.wrote))
       /\ r = [p EXCEPT !.got = g, !.sawEnd = TRUE]

\* The programs are through with the connection, or it has not begun.
Over(p, q) ==
  \/ p = Newcomer /\ q = Newcomer
  \/ p.broken \/ q.broken
  \/ p.ended /\ q.ended

\* A program whose channel is gone has been told so.
Shut(p) == p = Newcomer \/ p.broken \/ p.sawEnd

LEMMA SeenStays ==
  ASSUME Seen(Client)' = Seen(Client), Seen(Server)' = Seen(Server)
  PROVE  [Pipe!Next]_(Pipe!vars)
<1>1. \A e \in Ends : Seen(e)' = Seen(e)
  BY DEF Ends
<1>2. UNCHANGED Pipe!vars
  BY <1>1, Zenon DEF Pipe!vars
<1> QED
  BY <1>2

\* The variables of the pipe, and what a change at one end is to them.
Wrote  == [x \in Ends |-> Seen(x).wrote]
Got    == [x \in Ends |-> Seen(x).got]
Ended  == [x \in Ends |-> Seen(x).ended]
SawEnd == [x \in Ends |-> Seen(x).sawEnd]
Broken == [x \in Ends |-> Seen(x).broken]

LEMMA SeenSteps ==
  ASSUME NEW e \in Ends, Seen(e) \in Program, Seen(Other(e))' = Seen(Other(e)),
         \/ Writes(Seen(e), Seen(e)') \/ Finishes(Seen(e), Seen(e)')
         \/ Breaks(Seen(e), Seen(e)') \/ Hears(Seen(e), Seen(Other(e)), Seen(e)')
         \/ HearsEnd(Seen(e), Seen(Other(e)), Seen(e)'),
         Seen(Other(e)) \in Program
  PROVE  [Pipe!Next]_(Pipe!vars)
<1> DEFINE p == Seen(e)
           q == Seen(Other(e))
           r == Seen(e)'
<1>1. \A x \in Ends : x # e => Seen(x)' = Seen(x)
  BY EndsAre
<1>2. Other(e) \in Ends
  BY EndsAre
<1>3. /\ p.wrote \in Nat /\ p.got \in Nat /\ q.wrote \in Nat
  BY DEF Program
<1>4. CASE Writes(p, r)
  <2>1. PICK n \in Nat \ {0} : r = [p EXCEPT !.wrote = @ + n]
    BY <1>4 DEF Writes
  <2>2. /\ r.wrote = p.wrote + n /\ r.got = p.got /\ r.ended = p.ended
        /\ r.sawEnd = p.sawEnd /\ r.broken = p.broken
    BY <2>1 DEF Program
  <2>3. Wrote'[e] > Wrote[e] /\ ~Ended[e] /\ ~Broken[e]
    <3>1. Wrote'[e] = p.wrote + n /\ Wrote[e] = p.wrote
      BY <2>2 DEF Wrote
    <3>2. ~Ended[e] /\ ~Broken[e]
      BY <1>4, Zenon DEF Ended, Broken, Writes
    <3> QED
      BY <1>3, <3>1, <3>2
  <2>4. Wrote' = [Wrote EXCEPT ![e] = Wrote'[e]] /\ Got' = Got /\ Ended' = Ended /\ SawEnd' = SawEnd /\ Broken' = Broken
    BY <1>1, <2>2 DEF Wrote, Got, Ended, SawEnd, Broken
  <2>5. Pipe!Write(e)
    BY <2>3, <2>4, Zenon DEF Pipe!Write, Wrote, Got, Ended, SawEnd, Broken
  <2> QED
    BY <2>5, Zenon DEF Pipe!Next
<1>5. CASE Finishes(p, r)
  <2>1. /\ r.wrote = p.wrote /\ r.got = p.got /\ r.ended
        /\ r.sawEnd = p.sawEnd /\ r.broken = p.broken
    BY <1>5 DEF Program, Finishes
  <2>2. ~Ended[e]
    BY <1>5 DEF Ended, Finishes
  <2>3. Wrote' = Wrote /\ Got' = Got /\ Ended' = [Ended EXCEPT ![e] = TRUE] /\ SawEnd' = SawEnd /\ Broken' = Broken
    <3>1. Wrote' = Wrote /\ Got' = Got /\ SawEnd' = SawEnd /\ Broken' = Broken
      BY <1>1, <2>1 DEF Wrote, Got, SawEnd, Broken
    <3>2. r.ended = TRUE
      BY <1>5 DEF Program, Finishes
    <3>3. Ended' = [Ended EXCEPT ![e] = TRUE]
      BY <1>1, <3>2 DEF Ended
    <3> QED
      BY <3>1, <3>3
  <2>4. Pipe!Finish(e)
    BY <2>2, <2>3, Zenon DEF Pipe!Finish, Wrote, Got, Ended, SawEnd, Broken
  <2> QED
    BY <2>4, Zenon DEF Pipe!Next
<1>6. CASE Breaks(p, r)
  <2>1. /\ r.wrote = p.wrote /\ r.got = p.got /\ r.ended = p.ended
        /\ r.sawEnd = p.sawEnd
    BY <1>6 DEF Program, Breaks
  <2>2. ~Broken[e]
    BY <1>6 DEF Broken, Breaks
  <2>3. Wrote' = Wrote /\ Got' = Got /\ Ended' = Ended /\ SawEnd' = SawEnd /\ Broken' = [Broken EXCEPT ![e] = TRUE]
    <3>1. Wrote' = Wrote /\ Got' = Got /\ SawEnd' = SawEnd /\ Ended' = Ended
      BY <1>1, <2>1 DEF Wrote, Got, SawEnd, Ended
    <3>2. r.broken = TRUE
      BY <1>6 DEF Program, Breaks
    <3>3. Broken' = [Broken EXCEPT ![e] = TRUE]
      BY <1>1, <3>2 DEF Broken
    <3> QED
      BY <3>1, <3>3
  <2>4. Pipe!Break(e)
    BY <2>2, <2>3, Zenon DEF Pipe!Break, Wrote, Got, Ended, SawEnd, Broken
  <2> QED
    BY <2>4, Zenon DEF Pipe!Next
<1>7. CASE Hears(p, q, r)
  <2>1. PICK n \in Nat \ {0} : p.got + n <= q.wrote /\ r = [p EXCEPT !.got = @ + n]
    BY <1>7 DEF Hears
  <2>2. /\ r.wrote = p.wrote /\ r.got = p.got + n /\ r.ended = p.ended
        /\ r.sawEnd = p.sawEnd /\ r.broken = p.broken
    BY <2>1 DEF Program
  <2>3. ~SawEnd[e] /\ n \in 1..(Wrote[Other(e)] - Got[e])
    <3>1. Wrote[Other(e)] = q.wrote /\ Got[e] = p.got
      BY <1>2 DEF Wrote, Got
    <3>2. n \in 1..(q.wrote - p.got)
      BY <1>3, <2>1
    <3> QED
      BY <1>7, <3>1, <3>2 DEF SawEnd, Hears
  <2>4. Wrote' = Wrote /\ Got' = [Got EXCEPT ![e] = @ + n] /\ Ended' = Ended /\ SawEnd' = SawEnd /\ Broken' = Broken
    BY <1>1, <2>2 DEF Wrote, Got, Ended, SawEnd, Broken
  <2>5. Pipe!Deliver(e)
    BY <2>3, <2>4, Zenon DEF Pipe!Deliver, Wrote, Got, Ended, SawEnd, Broken
  <2> QED
    BY <2>5, Zenon DEF Pipe!Next
<1>8. CASE HearsEnd(p, q, r)
  <2>1. PICK g \in p.got..q.wrote :
          /\ q.broken \/ (q.ended /\ (p.ended \/ g = q.wrote))
          /\ r = [p EXCEPT !.got = g, !.sawEnd = TRUE]
    BY <1>8 DEF HearsEnd
  <2>2. /\ r.wrote = p.wrote /\ r.got = g /\ r.ended = p.ended
        /\ r.broken = p.broken /\ r.sawEnd = TRUE
    BY <2>1 DEF Program
  <2>3. /\ ~SawEnd[e] /\ g \in Got[e]..Wrote[Other(e)]
        /\ Broken[Other(e)] \/ (Ended[Other(e)] /\ (Ended[e] \/ g = Wrote[Other(e)]))
    <3>1. ~SawEnd[e]
      BY <1>8, Zenon DEF SawEnd, HearsEnd
    <3>2. Got[e] = p.got /\ Wrote[Other(e)] = q.wrote
      BY <1>2 DEF Got, Wrote
    <3>3. Broken[Other(e)] = q.broken /\ Ended[Other(e)] = q.ended /\ Ended[e] = p.ended
      BY <1>2 DEF Broken, Ended
    <3> QED
      BY <2>1, <3>1, <3>2, <3>3
  <2>4. /\ Wrote' = Wrote /\ Got' = [Got EXCEPT ![e] = g] /\ Ended' = Ended
        /\ SawEnd' = [SawEnd EXCEPT ![e] = TRUE] /\ Broken' = Broken
    <3>1. Wrote' = Wrote /\ Broken' = Broken /\ Ended' = Ended
      BY <1>1, <2>2 DEF Wrote, Broken, Ended
    <3>2. Got' = [Got EXCEPT ![e] = g]
      BY <1>1, <2>2 DEF Got
    <3>3. SawEnd' = [SawEnd EXCEPT ![e] = TRUE]
      BY <1>1, <2>2 DEF SawEnd
    <3> QED
      BY <3>1, <3>2, <3>3
  <2>5. Pipe!ShowEnd(e)
    BY <2>3, <2>4, Zenon DEF Pipe!ShowEnd, Wrote, Got, Ended, SawEnd, Broken
  <2> QED
    BY <2>5, Zenon DEF Pipe!Next
<1> QED
  BY <1>4, <1>5, <1>6, <1>7, <1>8

\* A new connection, seen by both programs at once.
LEMMA SeenRenews ==
  ASSUME Over(Seen(Client), Seen(Server)), Shut(Seen(Client)), Shut(Seen(Server)),
         Seen(Client)' = Newcomer, Seen(Server)' = Newcomer
  PROVE  [Pipe!Next]_(Pipe!vars)
<1>1. CASE Seen(Client) = Newcomer /\ Seen(Server) = Newcomer
  BY <1>1, SeenStays
<1>2. CASE ~(Seen(Client) = Newcomer /\ Seen(Server) = Newcomer)
  <2>1. (\E x \in Ends : Broken[x]) \/ (\A x \in Ends : Ended[x] /\ SawEnd[x])
    <3>1. CASE Seen(Client).broken \/ Seen(Server).broken
      BY <3>1, EndsAre DEF Broken
    <3>2. CASE ~Seen(Client).broken /\ ~Seen(Server).broken
      <4>1. Seen(Client).ended /\ Seen(Server).ended
        BY <1>2, <3>2 DEF Over
      <4>2. Seen(Client).sawEnd /\ Seen(Server).sawEnd
        BY <3>2, <4>1 DEF Shut, Newcomer
      <4> QED
        BY <4>1, <4>2, EndsAre DEF Ended, SawEnd
    <3> QED
      BY <3>1, <3>2
  <2>2. \A x \in Ends : Seen(x)' = Newcomer
    BY EndsAre
  <2>3. /\ Wrote' = [x \in Ends |-> 0] /\ Got' = [x \in Ends |-> 0]
        /\ Ended' = [x \in Ends |-> FALSE] /\ SawEnd' = [x \in Ends |-> FALSE]
        /\ Broken' = [x \in Ends |-> FALSE]
    <3>1. Newcomer.wrote = 0 /\ Newcomer.got = 0
      BY DEF Newcomer
    <3>2. Newcomer.ended = FALSE /\ Newcomer.sawEnd = FALSE /\ Newcomer.broken = FALSE
      BY DEF Newcomer
    <3> QED
      BY <2>2, <3>1, <3>2, Zenon DEF Wrote, Got, Ended, SawEnd, Broken
  <2>4. Pipe!Renew
    BY <2>1, <2>3, Zenon DEF Pipe!Renew, Pipe!Zero, Pipe!No, Wrote, Got, Ended, SawEnd, Broken
  <2> QED
    BY <2>4, Zenon DEF Pipe!Next
<1> QED
  BY <1>1, <1>2

-----------------------------------------------------------------------------
(* What a live end knows of its program, and the two ends of each other     *)

Own(c, pr) ==
  /\ c.zombie <=> pr.broken
  /\ c.st = "open" /\ ~c.zombie => c.ready
  /\ pr.wrote = c.sent + c.out
  /\ ~c.zombie => (pr.sawEnd <=> "RCVD_EOF" \in c.closes /\ c.backlog = 0)
  /\ c.zombie => c.backlog = 0
  /\ ~c.zombie /\ "SENT_EOF" \in c.closes => c.out = 0
  /\ c.st = "halfopen" =>
       /\ c.frozen /\ c.sent = 0 /\ c.out = 0
       /\ pr.got = 0 /\ ~pr.ended /\ ~pr.sawEnd

\* What x has sent was read by the program at y, or waits in its socket, or is on its way.
Given(x, y, py) ==
  y.zombie \/ \E d \in Nat : Adds(x.tx, "data", d) /\ py.got + y.backlog + d = x.sent

\* Once y has heard the other one out, what its program has not read of it is in its socket.
Heard(y, py, px) ==
  ~y.zombie /\ "RCVD_EOF" \in y.closes =>
    /\ py.got + y.backlog <= px.wrote
    /\ px.broken \/ (px.ended /\ py.got + y.backlog = px.wrote)

\* What c has sent is on its way in d, as far as it was sent by this change.
Carries(c, d) ==
  \E r \in Queue, n \in Nat :
    /\ d.tx = c.tx \o r /\ Adds(r, "data", n)
    /\ d.sent = c.sent + n
    /\ n # 0 => "SENT_EOF" \notin c.closes

LEMMA NothingIsNothing ==
  ASSUME NEW k, NEW v, Adds(<<>>, k, v)
  PROVE  v = 0
<1>1. Len(<<>>) + 1 = 1
  OBVIOUS
<1> QED
  BY <1>1 DEF Adds

LEMMA ProgramType ==
  ASSUME NEW p \in Program
  PROVE  /\ p.wrote \in Nat /\ p.got \in Nat
         /\ p.ended \in BOOLEAN /\ p.sawEnd \in BOOLEAN /\ p.broken \in BOOLEAN
BY DEF Program

LEMMA GoesCarries ==
  ASSUME NEW c, NEW m, NEW d, Goes(m, d), m.tx = c.tx, m.sent = c.sent, m.closes = c.closes
  PROVE  Carries(c, d)
<1>1. PICK r \in Queue, n \in Nat :
        /\ d.tx = m.tx \o r /\ Adds(r, "data", n)
        /\ d.sent = m.sent + n /\ m.out = d.out + n
        /\ n # 0 => "SENT_EOF" \notin m.closes
        /\ NoEof(r) \/ "SENT_EOF" \in d.closes
  BY DEF Goes
<1> QED
  BY <1>1 DEF Carries

LEMMA GoesOwn ==
  ASSUME NEW c \in Channel, NEW pr \in Program, c.st = "open", Own(c, pr), NEW d, Goes(c, d)
  PROVE  Own(d, pr)
<1>1. /\ d \in Channel /\ d.st = c.st /\ d.zombie = c.zombie /\ d.ready = c.ready
      /\ d.backlog = c.backlog
      /\ "RCVD_EOF" \in d.closes <=> "RCVD_EOF" \in c.closes
      /\ "SENT_EOF" \in d.closes => "SENT_EOF" \in c.closes \/ c.zombie \/ d.out = 0
  BY DEF Goes
<1>2. PICK n \in Nat :
        /\ d.sent = c.sent + n /\ c.out = d.out + n
        /\ n # 0 => "SENT_EOF" \notin c.closes
  BY DEF Goes
<1>3. c.sent \in Nat /\ c.out \in Nat /\ d.sent \in Nat /\ d.out \in Nat /\ pr.wrote \in Nat
  BY <1>1, ChannelType, ProgramType
<1>4. pr.wrote = d.sent + d.out
  <2>1. pr.wrote = c.sent + c.out
    BY DEF Own
  <2> QED
    BY <1>2, <1>3, <2>1
<1>5. ~d.zombie /\ "SENT_EOF" \in d.closes => d.out = 0
  <2>1. ~c.zombie /\ "SENT_EOF" \in c.closes => c.out = 0
    BY DEF Own
  <2>2. c.out = 0 => d.out = 0
    BY <1>2, <1>3
  <2> QED
    BY <1>1, <2>1, <2>2
<1>6. /\ d.zombie <=> pr.broken
      /\ d.st = "open" /\ ~d.zombie => d.ready
      /\ ~d.zombie => (pr.sawEnd <=> "RCVD_EOF" \in d.closes /\ d.backlog = 0)
      /\ d.zombie => d.backlog = 0
  BY <1>1 DEF Own
<1> QED
  BY <1>1, <1>4, <1>5, <1>6 DEF Own

LEMMA GivenSends ==
  ASSUME NEW c \in Channel, NEW d, Carries(c, d), "SENT_EOF" \notin c.closes => NoEof(c.tx),
         NEW y \in Channel, NEW z, NEW py \in Program, Given(c, y, py),
         y.zombie => z.zombie, z.backlog = y.backlog
  PROVE  Given(d, z, py)
<1>1. PICK r \in Queue, n \in Nat :
        /\ d.tx = c.tx \o r /\ Adds(r, "data", n)
        /\ d.sent = c.sent + n
        /\ n # 0 => "SENT_EOF" \notin c.closes
  BY DEF Carries
<1>2. CASE y.zombie
  BY <1>2 DEF Given
<1>3. CASE ~y.zombie
  <2>1. PICK k \in Nat : Adds(c.tx, "data", k) /\ py.got + y.backlog + k = c.sent
    BY <1>3 DEF Given
  <2>2. c.tx \in Queue /\ c.sent \in Nat /\ py.got \in Nat /\ y.backlog \in Nat
    BY ChannelType, ProgramType
  <2>3. n # 0 => NoEof(c.tx)
    BY <1>1
  <2>4. Adds(d.tx, "data", k + n)
    <3>1. Adds(c.tx \o r, "data", k + n)
      BY <1>1, <2>1, <2>2, <2>3, AddsConcat
    <3> QED
      BY <1>1, <3>1
  <2>5. k + n \in Nat /\ py.got + z.backlog + (k + n) = d.sent
    <3>1. d.sent = c.sent + n
      BY <1>1
    <3> QED
      BY <2>1, <2>2, <3>1
  <2> QED
    BY <2>4, <2>5 DEF Given
<1> QED
  BY <1>2, <1>3

LEMMA GivenTakes ==
  ASSUME NEW y \in Channel, y.tx # <<>>, NEW c \in Channel, NEW pr \in Program, Given(y, c, pr),
         NEW d \in Channel, NEW qr \in Program, c.zombie => d.zombie,
         ~c.zombie => qr.got + d.backlog = pr.got + c.backlog + Weighs("data", y.tx[1])
  PROVE  Given(Taken(y), d, qr)
<1>1. CASE c.zombie
  BY <1>1 DEF Given
<1>2. CASE ~c.zombie
  <2>1. PICK k \in Nat : Adds(y.tx, "data", k) /\ pr.got + c.backlog + k = y.sent
    BY <1>2 DEF Given
  <2>2. y.tx \in Queue /\ y.sent \in Nat /\ pr.got \in Nat /\ c.backlog \in Nat
        /\ qr.got \in Nat /\ d.backlog \in Nat
    BY ChannelType, ProgramType
  <2> DEFINE w == Weighs("data", y.tx[1])
  <2>3. w \in Nat /\ w <= k /\ Adds(Tail(y.tx), "data", k - w)
    BY <2>1, <2>2, AddsTail
  <2>4. Taken(y).tx = Tail(y.tx) /\ Taken(y).sent = y.sent
    BY TakenType
  <2>5. qr.got + d.backlog = pr.got + c.backlog + w
    BY <1>2
  <2> HIDE DEF w
  <2>6. k - w \in Nat /\ qr.got + d.backlog + (k - w) = y.sent
    BY <2>1, <2>2, <2>3, <2>5
  <2> QED
    BY <2>3, <2>4, <2>6 DEF Given
<1> QED
  BY <1>1, <1>2

\* What a socket does, as the programs see it.
LEMMA OpenMoves ==
  ASSUME NEW c \in Channel, NEW pr \in Program, c.st = "open", Own(c, pr), Local(c, pr),
         NEW d, NEW qr, Moves(c, pr, d, qr)
  PROVE  /\ d \in Channel /\ d.st = c.st /\ Own(d, qr) /\ Carries(c, d)
         /\ c.zombie => d.zombie
         /\ "RCVD_EOF" \in d.closes <=> "RCVD_EOF" \in c.closes
         /\ d.zombie \/ qr.got + d.backlog = pr.got + c.backlog
         /\ \/ qr = pr \/ Breaks(pr, qr)
            \/ ~c.zombie /\ ~pr.ended /\ (Writes(pr, qr) \/ Finishes(pr, qr))
            \/ SentMove(c, pr, d, qr)
<1>1. c.out \in Nat /\ c.sent \in Nat /\ pr.wrote \in Nat /\ pr.wrote = c.sent + c.out
  BY ChannelType, ProgramType DEF Own
<1> DEFINE Fine == /\ d \in Channel /\ d.st = c.st /\ Own(d, qr) /\ Carries(c, d)
                   /\ c.zombie => d.zombie
                   /\ "RCVD_EOF" \in d.closes <=> "RCVD_EOF" \in c.closes
<1>2. ASSUME NEW m \in Channel, m.st = c.st, Own(m, qr), Goes(m, d), qr \in Program,
             m.tx = c.tx, m.sent = c.sent, m.closes = c.closes, c.zombie => m.zombie
      PROVE  Fine /\ d.backlog = m.backlog /\ d.zombie = m.zombie
  <2>1. /\ d \in Channel /\ d.st = c.st /\ (c.zombie => d.zombie) /\ d.backlog = m.backlog
        /\ d.zombie = m.zombie
        /\ "RCVD_EOF" \in d.closes <=> "RCVD_EOF" \in c.closes
    BY <1>2 DEF Goes
  <2>2. Own(d, qr)
    BY <1>2, GoesOwn
  <2>3. Carries(c, d)
    BY <1>2, GoesCarries
  <2> QED
    BY <2>1, <2>2, <2>3
<1>3. qr \in Program
  BY MovesProgram
<1>4. CASE DataMove(c, pr, d, qr)
  <2>1. PICK n \in Nat : qr = [pr EXCEPT !.wrote = @ + n] /\ d = pfd_receive(c, n)
    BY <1>4 DEF DataMove
  <2> DEFINE total == c.out + n
             m == [c EXCEPT !.out = total]
  <2>2. ~c.zombie /\ ~pr.ended /\ c.ready /\ ~pr.broken /\ "SENT_EOF" \notin c.closes
    BY <1>4 DEF DataMove, Own, Local
  <2>3. m = [c EXCEPT !.out = @ + n]
    BY DEF Channel
  <2>4. d = ssh2_try_send(m)
    BY <2>1, <2>2, <2>3 DEF pfd_receive
  <2>5. total \in Nat
    BY <1>1
  <2>6. qr.wrote = pr.wrote + n /\ qr.got = pr.got /\ qr.ended = pr.ended /\ qr.sawEnd = pr.sawEnd
        /\ qr.broken = pr.broken
    BY <2>1 DEF Program
  <2>7. qr.wrote = c.sent + total
    BY <1>1, <2>6
  <2> HIDE DEF total
  <2>8. m \in Channel
    BY <2>5 DEF Channel
  <2>9. /\ m.st = c.st /\ m.zombie = c.zombie /\ m.ready = c.ready /\ m.closes = c.closes
        /\ m.sent = c.sent /\ m.tx = c.tx /\ m.out = total /\ m.backlog = c.backlog
    BY <2>5 DEF Channel
  <2> HIDE DEF m
  <2>10. Own(m, qr)
    BY <2>2, <2>6, <2>7, <2>9 DEF Own
  <2>11. Goes(m, d)
    BY <2>2, <2>4, <2>8, <2>9, TrySendGoes
  <2>12. Fine /\ (d.zombie \/ d.backlog = c.backlog)
    BY <1>2, <1>3, <2>8, <2>9, <2>10, <2>11
  <2>13. qr = pr \/ Writes(pr, qr)
    <3>1. CASE n = 0
      <4>1. pr.wrote + n = pr.wrote
        BY <1>1, <3>1
      <4>2. qr = [pr EXCEPT !.wrote = pr.wrote]
        BY <2>1, <4>1 DEF Program
      <4> QED
        BY <4>2 DEF Program
    <3>2. CASE n # 0
      BY <2>1, <2>2, <3>2 DEF Writes
    <3> QED
      BY <3>1, <3>2
  <2> QED
    BY <2>2, <2>6, <2>12, <2>13
<1>5. CASE EofMove(c, pr, d, qr)
  <2>1. ~c.zombie /\ ~pr.ended /\ qr = [pr EXCEPT !.ended = TRUE] /\ d = ssh2channel_write_eof(c)
    BY <1>5 DEF EofMove
  <2>2. qr.wrote = pr.wrote /\ qr.got = pr.got /\ qr.sawEnd = pr.sawEnd /\ qr.broken = pr.broken
    BY <2>1 DEF Program
  <2>3. Own(c, qr)
    BY <2>2 DEF Own
  <2>4. Goes(c, d)
    BY <2>1, WriteEofGoes
  <2>5. Fine /\ (d.zombie \/ d.backlog = c.backlog)
    BY <1>2, <1>3, <2>3, <2>4
  <2>6. Finishes(pr, qr)
    BY <2>1 DEF Finishes
  <2> QED
    BY <2>1, <2>2, <2>5, <2>6
<1>6. CASE ErrorMove(c, pr, d, qr)
  <2> DEFINE m == [c EXCEPT !.zombie = TRUE, !.ready = FALSE, !.frozen = TRUE,
                            !.backlog = 0, !.pending_eof = FALSE]
  <2>1. ~c.zombie /\ qr = [pr EXCEPT !.broken = TRUE] /\ d = ssh2_channel_check_close(m)
    BY <1>6 DEF ErrorMove
  <2>2. /\ qr.wrote = pr.wrote /\ qr.got = pr.got /\ qr.sawEnd = pr.sawEnd /\ qr.ended = pr.ended
        /\ qr.broken
    BY <2>1 DEF Program
  <2>3. /\ m \in Channel /\ m.st = c.st /\ m.closes = c.closes
        /\ m.sent = c.sent /\ m.tx = c.tx /\ m.out = c.out
    BY DEF Channel
  <2>4. m.zombie /\ m.backlog = 0
    BY DEF Channel
  <2> HIDE DEF m
  <2>5. Own(m, qr)
    BY <1>1, <2>2, <2>3, <2>4 DEF Own
  <2>6. Goes(m, d)
    BY <2>1, <2>3, CheckCloseGoes
  <2>7. Fine /\ (d.zombie \/ d.backlog = c.backlog)
    BY <1>2, <1>3, <2>3, <2>4, <2>5, <2>6
  <2>8. ~pr.broken
    BY <2>1 DEF Own
  <2>9. Breaks(pr, qr)
    BY <2>1, <2>8 DEF Breaks
  <2> QED
    BY <2>2, <2>7, <2>9
<1>7. CASE SentMove(c, pr, d, qr)
  <2> DEFINE m == [c EXCEPT !.backlog = 0]
             g == pr.got + c.backlog
             saw == pr.sawEnd \/ "RCVD_EOF" \in c.closes
  <2>1. /\ c.backlog > 0 /\ ~c.zombie /\ d = Unthrottled(c, 0)
        /\ qr = [pr EXCEPT !.got = g, !.sawEnd = saw]
    BY <1>7 DEF SentMove, Own, Program
  <2>2. /\ m \in Channel /\ m.st = c.st /\ m.zombie = c.zombie /\ m.ready = c.ready
        /\ m.closes = c.closes /\ m.out = c.out /\ m.sent = c.sent /\ m.tx = c.tx
        /\ m.backlog = 0
    BY DEF Channel
  <2>3. Goes(m, d) /\ d.backlog = 0
    BY <2>1, UnthrottledGoes
  <2>4. qr.wrote = pr.wrote /\ qr.ended = pr.ended /\ qr.broken = pr.broken /\ qr.got = g
        /\ qr.sawEnd = saw
    BY <2>1 DEF Program
  <2>5. ~pr.sawEnd
    BY <2>1, ChannelType DEF Own
  <2>6. Own(m, qr)
    BY <2>1, <2>2, <2>4, <2>5 DEF Own, Local
  <2>7. qr.got + d.backlog = pr.got + c.backlog
    BY <2>3, <2>4, ChannelType, ProgramType
  <2> HIDE DEF m, g, saw
  <2>8. Fine
    BY <1>2, <1>3, <2>2, <2>3, <2>6
  <2> QED
    BY <1>7, <2>7, <2>8
<1>8. CASE ThrottleMove(c, pr, d, qr)
  <2>1. PICK t \in BOOLEAN : d = ssh2_channel_check_throttle([c EXCEPT !.throttled = t])
    BY <1>8 DEF ThrottleMove
  <2>2. qr = pr
    BY <1>8 DEF ThrottleMove
  <2> DEFINE m == [c EXCEPT !.throttled = t]
  <2>3. /\ m \in Channel /\ m.st = c.st /\ m.zombie = c.zombie /\ m.ready = c.ready
        /\ m.closes = c.closes /\ m.out = c.out /\ m.sent = c.sent /\ m.tx = c.tx
        /\ m.backlog = c.backlog
    BY DEF Channel
  <2>4. Goes(m, d)
    BY <2>1, <2>3, CheckThrottleGoes
  <2> HIDE DEF m
  <2>5. Goes(c, m)
    BY <2>3, GoesMarks
  <2>6. Goes(c, d)
    BY <2>4, <2>5, GoesTrans
  <2>7. Fine /\ (d.zombie \/ d.backlog = c.backlog)
    BY <1>2, <1>3, <2>2, <2>6
  <2> QED
    BY <2>2, <2>7
<1> QED
  BY <1>4, <1>5, <1>6, <1>7, <1>8 DEF Moves

LEMMA SameCarries ==
  ASSUME NEW c \in Channel, NEW d, d.tx = c.tx, d.sent = c.sent
  PROVE  Carries(c, d)
<1>1. c.tx \in Queue /\ c.sent \in Nat
  BY ChannelType
<1>2. d.tx = c.tx \o <<>> /\ d.sent = c.sent + 0 /\ 0 \in Nat
  BY <1>1, NothingAdds
<1> QED
  BY <1>2, NothingAdds DEF Carries

\* While the channel waits for its confirmation, the socket can but break.
LEMMA HalfOpenMoves ==
  ASSUME NEW c \in Channel, NEW pr \in Program, c.st = "halfopen", Own(c, pr), Local(c, pr),
         NEW d, NEW qr, Moves(c, pr, d, qr), ~ThrottleMove(c, pr, d, qr)
  PROVE  /\ d \in Channel /\ d.st = c.st /\ Own(d, qr) /\ Carries(c, d)
         /\ d.zombie
<1>1. c.frozen /\ c.backlog = 0
  BY DEF Own, Local
<1>2. ErrorMove(c, pr, d, qr)
  BY <1>1 DEF Moves, DataMove, EofMove, SentMove
<1> DEFINE m == [c EXCEPT !.zombie = TRUE, !.ready = FALSE, !.frozen = TRUE,
                          !.backlog = 0, !.pending_eof = FALSE]
<1>3. qr = [pr EXCEPT !.broken = TRUE] /\ d = ssh2_channel_check_close(m)
  BY <1>2 DEF ErrorMove
<1>4. /\ qr.wrote = pr.wrote /\ qr.got = pr.got /\ qr.sawEnd = pr.sawEnd /\ qr.ended = pr.ended
      /\ qr.broken
  BY <1>3 DEF Program
<1>5. /\ m \in Channel /\ m.st = c.st /\ m.closes = c.closes
      /\ m.sent = c.sent /\ m.tx = c.tx /\ m.out = c.out
  BY DEF Channel
<1>6. m.zombie /\ m.frozen /\ m.backlog = 0
  BY DEF Channel
<1> HIDE DEF m
<1>7. d = m
  BY <1>3, <1>5 DEF ssh2_channel_check_close
<1>8. Own(m, qr)
  BY <1>4, <1>5, <1>6 DEF Own
<1>9. Carries(c, m)
  BY <1>5, SameCarries
<1> QED
  BY <1>4, <1>5, <1>6, <1>7, <1>8, <1>9

\* What a program is told when its channel c takes the packet p and becomes d: what the
\* socket passes on, and the end if nothing waits in the socket before it.
Told(c, p, d, pr, qr) ==
  \/ /\ p.type = "DATA"
     /\ qr = [pr EXCEPT !.got = IF c.zombie THEN @ ELSE @ + (c.backlog + p.n - d.backlog)]
  \/ p.type = "EOF" /\ qr = [pr EXCEPT !.sawEnd = @ \/ (c.backlog = 0 /\ ~c.zombie)]
  \/ p.type \notin {"DATA", "EOF"} /\ qr = pr

LEMMA ToldFields ==
  ASSUME NEW c \in Channel, NEW p \in PacketSet, NEW pr \in Program, NEW d \in Channel,
         d.backlog = c.backlog \/ (p.type = "DATA" /\ d.backlog \in LeftOf(c, p.n)),
         NEW qr, Told(c, p, d, pr, qr)
  PROVE  /\ qr \in Program /\ qr.wrote = pr.wrote /\ qr.ended = pr.ended /\ qr.broken = pr.broken
         /\ c.zombie => qr = pr
         /\ ~c.zombie => qr.got + d.backlog = pr.got + c.backlog + Weighs("data", p)
         /\ p.type = "DATA" => /\ qr.sawEnd = pr.sawEnd /\ qr.got >= pr.got
                               /\ qr = [pr EXCEPT !.got = qr.got]
         /\ p.type = "EOF" => /\ qr.sawEnd = (pr.sawEnd \/ (c.backlog = 0 /\ ~c.zombie))
                              /\ qr = [pr EXCEPT !.sawEnd = qr.sawEnd]
         /\ p.type \notin {"DATA", "EOF"} => qr = pr
<1>1. p.n \in Nat /\ pr.got \in Nat /\ c.backlog \in Nat /\ d.backlog \in Nat
  BY ChannelType, ProgramType DEF PacketSet
<1>2. CASE p.type = "DATA" /\ qr = [pr EXCEPT !.got = IF c.zombie THEN @ ELSE @ + (c.backlog + p.n - d.backlog)]
  <2> DEFINE g == IF c.zombie THEN pr.got ELSE pr.got + (c.backlog + p.n - d.backlog)
  <2>1. d.backlog = c.backlog \/ d.backlog = 0 \/ d.backlog = c.backlog + p.n
    BY DEF LeftOf
  <2>2. /\ g \in Nat /\ g >= pr.got
        /\ c.zombie => g = pr.got
        /\ ~c.zombie => g + d.backlog = pr.got + c.backlog + p.n
    BY <1>1, <2>1
  <2>3. qr = [pr EXCEPT !.got = g]
    BY <1>2 DEF Program
  <2>4. Weighs("data", p) = p.n
    BY <1>2 DEF Weighs
  <2> HIDE DEF g
  <2>5. /\ qr \in Program /\ qr.wrote = pr.wrote /\ qr.ended = pr.ended /\ qr.broken = pr.broken
        /\ qr.got = g /\ qr.sawEnd = pr.sawEnd
    BY <2>2, <2>3 DEF Program
  <2>6. g = pr.got => qr = pr
    BY <2>3 DEF Program
  <2> QED
    BY <1>2, <2>2, <2>3, <2>4, <2>5, <2>6
<1>3. CASE p.type = "EOF" /\ qr = [pr EXCEPT !.sawEnd = @ \/ (c.backlog = 0 /\ ~c.zombie)]
  <2> DEFINE s == pr.sawEnd \/ (c.backlog = 0 /\ ~c.zombie)
  <2>1. s \in BOOLEAN
    OBVIOUS
  <2>2. qr = [pr EXCEPT !.sawEnd = s]
    BY <1>3 DEF Program
  <2>3. c.zombie => s = pr.sawEnd
    BY ProgramType
  <2>4. Weighs("data", p) = 0
    BY <1>3 DEF Weighs
  <2> HIDE DEF s
  <2>5. /\ qr \in Program /\ qr.wrote = pr.wrote /\ qr.ended = pr.ended /\ qr.broken = pr.broken
        /\ qr.got = pr.got /\ qr.sawEnd = s
    BY <2>1, <2>2 DEF Program
  <2>6. s = pr.sawEnd => qr = pr
    BY <2>2 DEF Program
  <2>7. qr.got + d.backlog = pr.got + c.backlog + 0
    BY <1>1, <1>3, <2>5
  <2>8. qr = [pr EXCEPT !.sawEnd = qr.sawEnd]
    BY <2>2, <2>5
  <2>9. qr.sawEnd = (pr.sawEnd \/ (c.backlog = 0 /\ ~c.zombie))
    BY <2>5 DEF s
  <2> QED
    BY <1>3, <2>3, <2>4, <2>5, <2>6, <2>7, <2>8, <2>9
<1>4. CASE p.type \notin {"DATA", "EOF"} /\ qr = pr
  <2>1. Weighs("data", p) = 0
    BY <1>4 DEF Weighs
  <2>2. qr.got + d.backlog = pr.got + c.backlog + 0
    BY <1>1, <1>4
  <2> QED
    BY <1>4, <2>1, <2>2
<1> QED
  BY <1>2, <1>3, <1>4 DEF Told

LEMMA TakesOwn ==
  ASSUME NEW c \in Channel, NEW pr \in Program, c.st = "open", Own(c, pr), NEW p \in PacketSet,
         p.type \in {"DATA", "EOF"} => "RCVD_EOF" \notin c.closes,
         p.type = "FAILURE" => c.chanreqs # <<>>,
         NEW d, Takes(c, p, d), NEW qr, Told(c, p, d, pr, qr)
  PROVE  /\ d \in Channel /\ d.st = c.st /\ d.zombie = c.zombie
         /\ d.backlog = c.backlog \/ (p.type = "DATA" /\ d.backlog \in LeftOf(c, p.n))
         /\ p.type # "EOF" => ("RCVD_EOF" \in d.closes <=> "RCVD_EOF" \in c.closes)
         /\ Own(d, qr) /\ Carries(c, d)
<1>1. c.backlog \in Nat /\ c.zombie \in BOOLEAN
  BY ChannelType
<1>2. CASE p.type # "EOF"
  <2> DEFINE m == [c EXCEPT !.backlog = d.backlog]
  <2>1. /\ Goes(m, d)
        /\ d.backlog = c.backlog \/ (p.type = "DATA" /\ d.backlog \in LeftOf(c, p.n))
    BY <1>2, TakesGoes
  <2>2. d \in Channel
    BY <2>1 DEF Goes
  <2>3. d.backlog \in Nat
    BY <2>2, ChannelType
  <2>4. /\ m \in Channel /\ m.st = c.st /\ m.zombie = c.zombie /\ m.ready = c.ready
        /\ m.closes = c.closes /\ m.out = c.out /\ m.sent = c.sent /\ m.tx = c.tx
        /\ m.backlog = d.backlog
    BY <2>3 DEF Channel
  <2> HIDE DEF m
  <2>5. /\ qr \in Program /\ qr.wrote = pr.wrote /\ qr.ended = pr.ended /\ qr.broken = pr.broken
        /\ qr.sawEnd = pr.sawEnd
    BY <1>2, <2>1, <2>2, ToldFields
  <2>6. Own(m, qr)
    <3>1. CASE p.type = "DATA"
      <4>1. c.zombie => c.backlog = 0
        BY DEF Own
      <4>2. c.zombie => d.backlog = 0
        BY <2>1, <4>1 DEF LeftOf
      <4>3. ~c.zombie => ~pr.sawEnd /\ "RCVD_EOF" \notin c.closes
        BY <3>1 DEF Own
      <4> QED
        BY <2>4, <2>5, <4>2, <4>3 DEF Own
    <3>2. CASE p.type # "DATA"
      <4>1. d.backlog = c.backlog
        BY <2>1, <3>2
      <4> QED
        BY <2>4, <2>5, <4>1 DEF Own
    <3> QED
      BY <3>1, <3>2
  <2>7. Own(d, qr)
    BY <2>1, <2>4, <2>5, <2>6, GoesOwn
  <2>8. Carries(c, d)
    BY <2>1, <2>4, GoesCarries
  <2>9. "RCVD_EOF" \in d.closes <=> "RCVD_EOF" \in c.closes
    BY <2>1, <2>4 DEF Goes
  <2> QED
    BY <2>1, <2>2, <2>4, <2>7, <2>8, <2>9 DEF Goes
<1>3. CASE p.type = "EOF"
  <2> DEFINE then == c.closes \cup {"RCVD_EOF"}
             m == [c EXCEPT !.closes = then]
  <2>1. d = GotEof(c)
    BY <1>3 DEF Takes
  <2>2. m = [c EXCEPT !.closes = @ \cup {"RCVD_EOF"}]
    BY DEF Channel
  <2>3. d = ssh2_channel_check_close(m)
    BY <1>3, <2>1, <2>2, Zenon DEF GotEof
  <2>4. then \in SUBSET Closes
    BY ChannelType DEF Closes
  <2>5. /\ "SENT_EOF" \in then <=> "SENT_EOF" \in c.closes
        /\ "RCVD_EOF" \in then
    OBVIOUS
  <2> HIDE DEF then
  <2>6. m \in Channel
    BY <2>4 DEF Channel
  <2>7. /\ m.st = c.st /\ m.zombie = c.zombie /\ m.ready = c.ready /\ m.closes = then
        /\ m.sent = c.sent /\ m.tx = c.tx /\ m.out = c.out /\ m.backlog = c.backlog
    BY <2>6 DEF Channel
  <2> HIDE DEF m
  <2>8. Goes(m, d)
    BY <2>3, <2>6, CheckCloseGoes
  <2>9. d \in Channel /\ d.backlog = c.backlog
    BY <2>7, <2>8 DEF Goes
  <2>10. /\ qr \in Program /\ qr.wrote = pr.wrote /\ qr.ended = pr.ended /\ qr.broken = pr.broken
         /\ qr.sawEnd = (pr.sawEnd \/ (c.backlog = 0 /\ ~c.zombie))
    BY <1>3, <2>9, ToldFields
  <2>11. Own(m, qr)
    <3>1. ~c.zombie => ~pr.sawEnd
      BY <1>3 DEF Own
    <3>2. ~c.zombie => (qr.sawEnd <=> c.backlog = 0)
      BY <2>10, <3>1
    <3> QED
      BY <1>1, <2>5, <2>7, <2>10, <3>2 DEF Own
  <2>12. Own(d, qr)
    BY <2>6, <2>7, <2>8, <2>10, <2>11, GoesOwn
  <2>13. Carries(c, d)
    <3>1. PICK r \in Queue, n \in Nat :
            /\ d.tx = m.tx \o r /\ Adds(r, "data", n)
            /\ d.sent = m.sent + n /\ m.out = d.out + n
            /\ n # 0 => "SENT_EOF" \notin m.closes
            /\ NoEof(r) \/ "SENT_EOF" \in d.closes
      BY <2>8 DEF Goes
    <3> QED
      BY <2>5, <2>7, <3>1 DEF Carries
  <2> QED
    BY <1>3, <2>7, <2>8, <2>9, <2>12, <2>13 DEF Goes
<1> QED
  BY <1>2, <1>3

\* What is held of an end that has heard the other one out goes on to hold of it as long as
\* what its socket passes on is what it has ...
LEMMA HeardKept ==
  ASSUME NEW c, NEW pr, NEW px, Heard(c, pr, px), NEW d, NEW qr, c.zombie => d.zombie,
         "RCVD_EOF" \in d.closes => "RCVD_EOF" \in c.closes,
         d.zombie \/ qr.got + d.backlog = pr.got + c.backlog
  PROVE  Heard(d, qr, px)
BY DEF Heard

\* ... and whatever the other program does: it has nothing left to say.
LEMMA HeardStays ==
  ASSUME NEW y, NEW py, NEW p \in Program, Heard(y, py, p), NEW q, NEW r,
         \/ r = p \/ Writes(p, r) \/ Finishes(p, r) \/ Breaks(p, r)
         \/ Hears(p, q, r) \/ HearsEnd(p, q, r),
         NEW z, z.zombie = y.zombie, z.closes = y.closes, z.backlog = y.backlog
  PROVE  Heard(z, py, r)
<1> SUFFICES ASSUME ~y.zombie, "RCVD_EOF" \in y.closes
             PROVE  /\ py.got + y.backlog <= r.wrote
                    /\ r.broken \/ (r.ended /\ py.got + y.backlog = r.wrote)
  BY DEF Heard
<1>1. /\ py.got + y.backlog <= p.wrote
      /\ p.broken \/ (p.ended /\ py.got + y.backlog = p.wrote)
  BY DEF Heard
<1>2. ~Writes(p, r)
  BY <1>1 DEF Writes
<1>3. CASE r = p
  BY <1>1, <1>3
<1>4. CASE Finishes(p, r)
  <2>1. r.wrote = p.wrote /\ r.broken = p.broken /\ ~p.ended
    BY <1>4 DEF Finishes, Program
  <2> QED
    BY <1>1, <2>1
<1>5. CASE Breaks(p, r)
  <2>1. r.wrote = p.wrote /\ r.broken
    BY <1>5 DEF Breaks, Program
  <2> QED
    BY <1>1, <2>1
<1>6. CASE Hears(p, q, r)
  <2>1. r.wrote = p.wrote /\ r.broken = p.broken /\ r.ended = p.ended
    BY <1>6 DEF Hears, Program
  <2> QED
    BY <1>1, <2>1
<1>7. CASE HearsEnd(p, q, r)
  <2>1. r.wrote = p.wrote /\ r.broken = p.broken /\ r.ended = p.ended
    BY <1>7 DEF HearsEnd, Program
  <2> QED
    BY <1>1, <2>1
<1> QED
  BY <1>2, <1>3, <1>4, <1>5, <1>6, <1>7

\* What the program at c is told is what a stream that comes from the program at y says.
LEMMA ToldRightly ==
  ASSUME NEW c \in Channel, NEW pr \in Program, c.st = "open", Own(c, pr),
         NEW y \in Channel, NEW py \in Program, Own(y, py), Local(y, py), Given(y, c, pr),
         Heard(c, pr, py), y.tx # <<>>, y.tx[1] \in PacketSet,
         y.tx[1].type \in {"DATA", "EOF"} => "RCVD_EOF" \notin c.closes,
         y.tx[1].type = "EOF" => "SENT_EOF" \in y.closes,
         y.tx[1].type = "FAILURE" => c.chanreqs # <<>>,
         NEW d, Takes(c, y.tx[1], d), NEW qr, Told(c, y.tx[1], d, pr, qr)
  PROVE  /\ qr = pr \/ Hears(pr, py, qr) \/ HearsEnd(pr, py, qr)
         /\ Heard(d, qr, py)
<1> DEFINE p == y.tx[1]
<1>1. /\ d \in Channel /\ d.zombie = c.zombie
      /\ d.backlog = c.backlog \/ (p.type = "DATA" /\ d.backlog \in LeftOf(c, p.n))
      /\ p.type # "EOF" => ("RCVD_EOF" \in d.closes <=> "RCVD_EOF" \in c.closes)
  BY TakesOwn
<1>2. /\ qr \in Program
      /\ c.zombie => qr = pr
      /\ ~c.zombie => qr.got + d.backlog = pr.got + c.backlog + Weighs("data", p)
      /\ p.type = "DATA" => qr.got >= pr.got /\ qr = [pr EXCEPT !.got = qr.got]
      /\ p.type = "EOF" => /\ qr.sawEnd = (pr.sawEnd \/ (c.backlog = 0 /\ ~c.zombie))
                           /\ qr = [pr EXCEPT !.sawEnd = qr.sawEnd]
      /\ p.type \notin {"DATA", "EOF"} => qr = pr
  BY <1>1, ToldFields
<1>3. CASE c.zombie
  BY <1>1, <1>2, <1>3 DEF Heard
<1>4. CASE ~c.zombie
  <2>1. PICK k \in Nat : Adds(y.tx, "data", k) /\ pr.got + c.backlog + k = y.sent
    BY <1>4 DEF Given
  <2>2. /\ y.tx \in Queue /\ y.sent \in Nat /\ y.out \in Nat /\ pr.got \in Nat /\ py.wrote \in Nat
        /\ c.backlog \in Nat /\ d.backlog \in Nat /\ qr.got \in Nat
    BY <1>1, <1>2, ChannelType, ProgramType
  <2>3. py.wrote = y.sent + y.out
    BY DEF Own
  <2>4. /\ Weighs("data", p) \in Nat /\ Weighs("data", p) <= k
        /\ "data" = "data" /\ p.type = "EOF" => k = 0
    BY <2>1, <2>2, AddsTail
  <2>5. qr.got + d.backlog = pr.got + c.backlog + Weighs("data", p)
    BY <1>2, <1>4
  <2>6. CASE p.type = "DATA"
    <3>1. "RCVD_EOF" \notin d.closes
      BY <1>1, <2>6
    <3>2. ~pr.sawEnd
      BY <1>4, <2>6 DEF Own
    <3>3. qr.got <= py.wrote /\ qr.got >= pr.got
      <4> HIDE DEF p
      <4> QED
        BY <1>2, <2>1, <2>2, <2>3, <2>4, <2>5, <2>6
    <3> DEFINE n == qr.got - pr.got
    <3>4. n \in Nat /\ pr.got + n = qr.got
      BY <2>2, <3>3
    <3>5. qr = [pr EXCEPT !.got = qr.got]
      BY <1>2, <2>6
    <3>6. CASE n = 0
      <4>1. qr.got = pr.got
        BY <2>2, <3>6
      <4>2. qr = [pr EXCEPT !.got = pr.got]
        BY <3>5, <4>1
      <4>3. qr = pr
        BY <4>2 DEF Program
      <4> QED
        BY <3>1, <4>3 DEF Heard
    <3>7. CASE n # 0
      <4>1. n \in Nat \ {0} /\ pr.got + n <= py.wrote /\ qr = [pr EXCEPT !.got = pr.got + n]
        BY <3>3, <3>4, <3>5, <3>7
      <4>2. qr = [pr EXCEPT !.got = @ + n]
        BY <4>1 DEF Program
      <4> HIDE DEF n
      <4> QED
        BY <3>1, <3>2, <4>1, <4>2 DEF Hears, Heard
    <3> QED
      BY <3>6, <3>7
  <2>7. CASE p.type = "EOF"
    <3>1. k = 0 /\ Weighs("data", p) = 0 /\ d.backlog = c.backlog
      BY <1>1, <2>4, <2>7 DEF Weighs
    <3>2. pr.got + c.backlog = y.sent /\ qr.got + d.backlog = y.sent
      <4> HIDE DEF p
      <4> QED
        BY <2>1, <2>2, <2>5, <3>1
    <3>3. py.broken \/ (py.ended /\ y.out = 0)
      BY <2>7 DEF Local, Own
    <3>4. Heard(d, qr, py)
      <4>1. y.sent <= py.wrote /\ (y.out = 0 => y.sent = py.wrote)
        BY <2>2, <2>3
      <4> QED
        BY <3>2, <3>3, <4>1 DEF Heard
    <3>5. ~pr.sawEnd
      BY <1>4, <2>7 DEF Own
    <3>6. CASE c.backlog = 0
      <4>1. qr = [pr EXCEPT !.sawEnd = TRUE]
        <5>1. qr.sawEnd = TRUE
          BY <1>2, <1>4, <2>7, <3>6
        <5> QED
          BY <1>2, <2>7, <5>1
      <4> DEFINE g == pr.got
      <4>2. g \in pr.got..py.wrote /\ (y.out = 0 => g = py.wrote)
        BY <2>2, <2>3, <3>2, <3>6
      <4>3. qr = [pr EXCEPT !.got = g, !.sawEnd = TRUE]
        BY <4>1 DEF Program
      <4>4. py.broken \/ (py.ended /\ (pr.ended \/ g = py.wrote))
        BY <3>3, <4>2
      <4> HIDE DEF g
      <4> QED
        BY <3>4, <3>5, <4>2, <4>3, <4>4 DEF HearsEnd
    <3>7. CASE c.backlog # 0
      <4>1. qr.sawEnd = pr.sawEnd
        BY <1>2, <2>7, <3>7, ProgramType
      <4>2. qr = [pr EXCEPT !.sawEnd = pr.sawEnd]
        BY <1>2, <2>7, <4>1
      <4>3. qr = pr
        BY <4>2 DEF Program
      <4> QED
        BY <3>4, <4>3
    <3> QED
      BY <3>6, <3>7
  <2>8. CASE p.type \notin {"DATA", "EOF"}
    <3>1. qr = pr /\ d.backlog = c.backlog
      BY <1>1, <1>2, <2>8
    <3>2. Heard(d, qr, py)
      BY <1>1, <2>8, <3>1, HeardKept
    <3> QED
      BY <3>1, <3>2
  <2> QED
    BY <2>6, <2>7, <2>8
<1> QED
  BY <1>3, <1>4

\* Once a channel has heard the other one out or is a zombie, no packet but CLOSE tells its
\* program anything.
LEMMA ToldNothing ==
  ASSUME NEW c \in Channel, NEW pr \in Program, c.st = "open", Own(c, pr),
         c.zombie \/ "RCVD_EOF" \in c.closes, NEW px, Heard(c, pr, px),
         NEW p \in PacketSet, p.type \in {"DATA", "EOF"} => "RCVD_EOF" \notin c.closes,
         p.type = "FAILURE" => c.chanreqs # <<>>,
         NEW d, Takes(c, p, d), NEW qr, Told(c, p, d, pr, qr)
  PROVE  qr = pr /\ Heard(d, qr, px)
<1>1. /\ d \in Channel /\ d.zombie = c.zombie
      /\ d.backlog = c.backlog \/ (p.type = "DATA" /\ d.backlog \in LeftOf(c, p.n))
      /\ p.type # "EOF" => ("RCVD_EOF" \in d.closes <=> "RCVD_EOF" \in c.closes)
  BY TakesOwn
<1>2. /\ c.zombie => qr = pr
      /\ p.type \notin {"DATA", "EOF"} => qr = pr
  BY <1>1, ToldFields
<1>3. CASE c.zombie
  BY <1>1, <1>2, <1>3 DEF Heard
<1>4. CASE ~c.zombie
  <2>1. p.type \notin {"DATA", "EOF"}
    BY <1>4
  <2>2. qr = pr /\ d.backlog = c.backlog
    BY <1>1, <1>2, <2>1
  <2> QED
    BY <1>1, <2>1, <2>2, HeardKept
<1> QED
  BY <1>3, <1>4

\* What the socket held goes to the program, and with it the end if that was waiting.
LEMMA SentRightly ==
  ASSUME NEW c \in Channel, NEW pr \in Program, Own(c, pr), NEW px \in Program, Heard(c, pr, px),
         pr.got + c.backlog <= px.wrote \/ "RCVD_EOF" \in c.closes,
         NEW d, NEW qr, SentMove(c, pr, d, qr)
  PROVE  Hears(pr, px, qr) \/ HearsEnd(pr, px, qr)
<1> DEFINE g == pr.got + c.backlog
           saw == pr.sawEnd \/ "RCVD_EOF" \in c.closes
           n == c.backlog
<1>1. /\ c.backlog > 0 /\ c.backlog \in Nat /\ pr.got \in Nat /\ px.wrote \in Nat
      /\ qr = [pr EXCEPT !.got = g, !.sawEnd = saw]
  BY ChannelType, ProgramType DEF SentMove, Program
<1>2. ~c.zombie /\ ~pr.sawEnd
  BY <1>1 DEF Own
<1>3. CASE "RCVD_EOF" \in c.closes
  <2>1. g <= px.wrote /\ (px.broken \/ (px.ended /\ g = px.wrote))
    BY <1>2, <1>3 DEF Heard
  <2>2. g \in pr.got..px.wrote
    BY <1>1, <2>1
  <2>3. saw = TRUE
    BY <1>3
  <2> HIDE DEF g, saw
  <2> QED
    BY <1>1, <1>2, <2>1, <2>2, <2>3 DEF HearsEnd
<1>4. CASE "RCVD_EOF" \notin c.closes
  <2>1. saw = pr.sawEnd
    BY <1>4, ProgramType
  <2> HIDE DEF saw
  <2>2. qr = [pr EXCEPT !.got = @ + n]
    BY <1>1, <2>1 DEF Program
  <2>3. n \in Nat \ {0} /\ pr.got + n <= px.wrote
    BY <1>1, <1>4
  <2> HIDE DEF n
  <2> QED
    BY <1>2, <2>2, <2>3 DEF Hears
<1> QED
  BY <1>3, <1>4

\* CLOSE shows a program the end, wherever it is in the stream, once its own has ended.
ShownEnd(c, pr, qr) == qr = [pr EXCEPT !.sawEnd = @ \/ ~c.zombie]

LEMMA ShownFields ==
  ASSUME NEW c \in Channel, NEW pr \in Program, Own(c, pr), NEW qr, ShownEnd(c, pr, qr)
  PROVE  /\ qr \in Program /\ qr.wrote = pr.wrote /\ qr.got = pr.got
         /\ qr.ended = pr.ended /\ qr.broken = pr.broken
         /\ Shut(qr)
         /\ qr = pr \/ (~c.zombie /\ ~pr.sawEnd /\ qr = [pr EXCEPT !.sawEnd = TRUE])
<1> DEFINE s == pr.sawEnd \/ ~c.zombie
<1>1. s \in BOOLEAN /\ pr.sawEnd \in BOOLEAN /\ c.zombie \in BOOLEAN
  BY ChannelType, ProgramType
<1>2. qr = [pr EXCEPT !.sawEnd = s]
  BY DEF ShownEnd, Program
<1>3. s = pr.sawEnd \/ (~c.zombie /\ ~pr.sawEnd /\ s = TRUE)
  BY <1>1
<1>4. s \/ pr.broken
  BY DEF Own
<1> HIDE DEF s
<1>5. /\ qr \in Program /\ qr.wrote = pr.wrote /\ qr.got = pr.got
      /\ qr.ended = pr.ended /\ qr.broken = pr.broken /\ qr.sawEnd = s
  BY <1>1, <1>2 DEF Program
<1>6. s = pr.sawEnd => qr = pr
  BY <1>2 DEF Program
<1> QED
  BY <1>2, <1>3, <1>4, <1>5, <1>6 DEF Shut

LEMMA ShownRightly ==
  ASSUME NEW c \in Channel, NEW pr \in Program, Own(c, pr), NEW px \in Program,
         ~c.zombie => /\ pr.got <= px.wrote
                      /\ px.broken \/ (px.ended /\ pr.ended),
         NEW qr, ShownEnd(c, pr, qr)
  PROVE  qr = pr \/ HearsEnd(pr, px, qr)
<1>1. qr = pr \/ (~c.zombie /\ ~pr.sawEnd /\ qr = [pr EXCEPT !.sawEnd = TRUE])
  BY ShownFields
<1>2. CASE ~c.zombie /\ ~pr.sawEnd /\ qr = [pr EXCEPT !.sawEnd = TRUE]
  <2> DEFINE g == pr.got
  <2>1. g \in pr.got..px.wrote
    BY <1>2, ProgramType
  <2>2. qr = [pr EXCEPT !.got = g, !.sawEnd = TRUE]
    BY <1>2 DEF Program
  <2> HIDE DEF g
  <2> QED
    BY <1>2, <2>1, <2>2 DEF HearsEnd
<1> QED
  BY <1>1, <1>2

\* When an end takes the CLOSE of the other, the connection is over.
LEMMA ClosedIsOver ==
  ASSUME NEW c \in Channel, NEW pr \in Program, Own(c, pr), Local(c, pr),
         NEW y \in Channel, NEW py \in Program, Own(y, py), Local(y, py), Given(y, c, pr),
         "SENT_CLOSE" \in y.closes, "RCVD_EOF" \in y.closes => "SENT_EOF" \in c.closes
  PROVE  /\ pr.broken \/ py.broken \/ (pr.ended /\ py.ended)
         /\ ~c.zombie => pr.got <= py.wrote /\ (py.broken \/ (py.ended /\ pr.ended))
<1>1. c.zombie => pr.broken
  BY DEF Own
<1>2. y.zombie => py.broken
  BY DEF Own
<1>3. ~y.zombie => py.ended /\ "SENT_EOF" \in c.closes
  BY DEF Local
<1>4. "SENT_EOF" \in c.closes => c.zombie \/ pr.ended
  BY DEF Local
<1>5. ~c.zombie => pr.got <= py.wrote
  <2> SUFFICES ASSUME ~c.zombie PROVE pr.got <= py.wrote
    OBVIOUS
  <2>1. PICK k \in Nat : pr.got + c.backlog + k = y.sent
    BY DEF Given
  <2>2. /\ y.sent \in Nat /\ y.out \in Nat /\ pr.got \in Nat /\ c.backlog \in Nat
        /\ py.wrote = y.sent + y.out
    BY ChannelType, ProgramType DEF Own
  <2> QED
    BY <2>1, <2>2
<1> QED
  BY <1>1, <1>2, <1>3, <1>4, <1>5

LEMMA ConfirmationOwn ==
  ASSUME NEW c \in Channel, NEW pr \in Program, c.st = "halfopen", Own(c, pr), Local(c, pr),
         NEW p \in PacketSet, NEW d, d = GotOpenConfirmation(c, p)
  PROVE  /\ d \in Channel /\ d.st = "open" /\ d.zombie = c.zombie /\ Own(d, pr) /\ Carries(c, d)
         /\ d.backlog = c.backlog /\ "RCVD_EOF" \notin d.closes
<1> DEFINE m == [c EXCEPT !.st = "open", !.remwindow = p.n, !.ready = ~c.zombie, !.frozen = c.zombie]
           o == ssh2_channel_check_close(m)
           t == ssh2_channel_try_eof(o)
<1>1. p.n \in Nat /\ c.zombie \in BOOLEAN /\ (~c.zombie) \in BOOLEAN
  BY ChannelType DEF PacketSet
<1>2. d = o \/ d = t
  BY Zenon DEF GotOpenConfirmation
<1>3. m \in Channel
  BY <1>1 DEF Channel
<1>4. /\ m.st = "open" /\ m.zombie = c.zombie /\ m.closes = c.closes
      /\ m.sent = c.sent /\ m.tx = c.tx /\ m.out = c.out /\ m.backlog = c.backlog
  BY <1>3 DEF Channel
<1>5. ~c.zombie => m.ready
  BY <1>3 DEF Channel
<1> HIDE DEF m
<1>6. Own(m, pr)
  BY <1>4, <1>5 DEF Own
<1>7. Goes(m, o)
  BY <1>3, CheckCloseGoes
<1> HIDE DEF o
<1>8. o \in Channel
  BY <1>7 DEF Goes
<1>9. Goes(o, t)
  BY <1>8, TryEofGoes
<1> HIDE DEF t
<1>10. Goes(m, d)
  BY <1>2, <1>3, <1>7, <1>9, GoesTrans
<1>11. Own(d, pr)
  BY <1>3, <1>4, <1>6, <1>10, GoesOwn
<1>12. Carries(c, d)
  BY <1>4, <1>10, GoesCarries
<1>13. "RCVD_EOF" \notin c.closes
  BY DEF Local
<1> QED
  BY <1>4, <1>10, <1>11, <1>12, <1>13 DEF Goes

-----------------------------------------------------------------------------
(* The invariant of the pipe                                                *)

Both == opens = answered /\ \A e \in Ends : ch[e].st # "none"

Agree ==
  /\ \A e \in Ends : ch[e].st # "none" => Own(ch[e], prog[e])
  /\ \A e \in Ends : ch[e].st = "open" => Heard(ch[e], prog[e], Seen(Other(e)))
  /\ Both => \A e \in Ends : Given(ch[Other(e)], ch[e], prog[e])
  /\ ~Both => /\ Over(Seen(Client), Seen(Server))
              /\ \A e \in Ends : ch[e].st # "open" => Shut(Seen(e))

\* What the program at e does is not yet part of the connection.
Hidden(e) == e = Client /\ (opens # answered \/ ch[e].st = "halfopen")

LEMMA EndFacts ==
  ASSUME IInv, NEW e \in Ends
  PROVE  /\ Typed /\ ch \in [Ends -> Channel] /\ prog \in [Ends -> Program]
         /\ ch[e] \in Channel /\ prog[e] \in Program /\ Seen(e) \in Program
         /\ Other(e) \in Ends /\ Other(e) # e /\ Other(Other(e)) = e
         /\ ch[e].st # "none" => Local(ch[e], prog[e])
         /\ \A x \in Ends : x = e \/ x = Other(e)
         /\ ch[e].st \in {"none", "halfopen", "open"}
<1>1. Typed
  BY TypeOKIs DEF IInv
<1>2. ch \in [Ends -> Channel] /\ prog \in [Ends -> Program] /\ before \in Program
  BY <1>1 DEF Typed
<1>3. ch[e] \in Channel /\ prog[e] \in Program
  BY <1>2
<1>4. Seen(e) \in Program
  BY <1>2, <1>3, NewcomerType DEF Seen
<1>5. ch[e].st # "none" => Local(ch[e], prog[e])
  BY KeptIsLocal DEF IInv
<1>6. Other(e) \in Ends /\ Other(e) # e /\ Other(Other(e)) = e /\ \A x \in Ends : x = e \/ x = Other(e)
  BY EndsAre
<1>7. ch[e].st \in {"none", "halfopen", "open"}
  BY <1>3, ChannelType
<1> QED
  BY <1>1, <1>2, <1>3, <1>4, <1>5, <1>6, <1>7

LEMMA SeenIs ==
  ASSUME NEW e \in Ends, ~Hidden(e), ch[e].st # "none"
  PROVE  Seen(e) = prog[e]
BY EndsAre DEF Seen, Hidden

LEMMA OverBothWays ==
  ASSUME NEW e \in Ends, Over(Seen(e), Seen(Other(e)))
  PROVE  Over(Seen(Client), Seen(Server))
BY EndsAre DEF Over

\* A channel is waited for at the client only.
LEMMA ServerNotHalfOpen ==
  ASSUME IInv
  PROVE  ch[Server].st # "halfopen"
<1>1. Related(ch[Client], ch[Server], opens # answered)
  BY DEF IInv, Situation
<1> QED
  BY <1>1 DEF Related, Asking, Idle, Refused, Talking, ClientLeft, ServerLeft, Left

\* Nobody hears anything of a connection that has not begun, and what a program hears does
\* not change whether the connection is over.
LEMMA OverStays ==
  ASSUME NEW p \in Program, NEW q \in Program, Over(p, q), NEW r,
         r = p \/ Breaks(p, r) \/ Hears(p, q, r) \/ HearsEnd(p, q, r)
  PROVE  Over(r, q)
<1>1. CASE r = p
  BY <1>1
<1>2. CASE Breaks(p, r)
  BY <1>2 DEF Breaks, Over, Program
<1>3. CASE Hears(p, q, r) \/ HearsEnd(p, q, r)
  <2>1. r.broken = p.broken /\ r.ended = p.ended
    BY <1>3 DEF Hears, HearsEnd, Program
  <2>2. p.got = 0 => q.wrote # 0 \/ q.ended \/ q.broken
    <3>1. p.got \in Nat /\ q.wrote \in Nat
      BY ProgramType
    <3>2. CASE Hears(p, q, r)
      <4>1. PICK n \in Nat \ {0} : p.got + n <= q.wrote
        BY <3>2 DEF Hears
      <4> QED
        BY <3>1, <4>1
    <3>3. CASE HearsEnd(p, q, r)
      BY <3>3 DEF HearsEnd
    <3> QED
      BY <1>3, <3>2, <3>3
  <2>3. Newcomer.got = 0 /\ Newcomer.wrote = 0 /\ ~Newcomer.ended /\ ~Newcomer.broken
    BY DEF Newcomer
  <2>4. ~(p = Newcomer /\ q = Newcomer)
    BY <2>2, <2>3
  <2> QED
    BY <2>1, <2>4 DEF Over
<1> QED
  BY <1>1, <1>2, <1>3

\* A step at one end that leaves the channels there.
LEMMA OneEnd ==
  ASSUME IInv, Agree, NEW e \in Ends, ch[e].st # "none", ch'[e].st = ch[e].st,
         ch'[Other(e)].st = ch[Other(e)].st, ch'[Other(e)].zombie = ch[Other(e)].zombie,
         ch'[Other(e)].closes = ch[Other(e)].closes,
         ch'[Other(e)].backlog = ch[Other(e)].backlog,
         NEW qr \in Program, prog' = [prog EXCEPT ![e] = qr],
         before' = before, opens' = opens, answered' = answered,
         Own(ch'[e], qr),
         ch[e].st = "open" => Heard(ch'[e], qr, Seen(Other(e))),
         ch[Other(e)].st # "none" => Own(ch'[Other(e)], prog[Other(e)]),
         Both => /\ Given(ch'[Other(e)], ch'[e], qr)
                 /\ Given(ch'[e], ch'[Other(e)], prog[Other(e)]),
         \/ qr = prog[e] \/ Hidden(e) \/ Breaks(prog[e], qr)
         \/ Both /\ (Writes(prog[e], qr) \/ Finishes(prog[e], qr))
         \/ Hears(prog[e], Seen(Other(e)), qr) \/ HearsEnd(prog[e], Seen(Other(e)), qr)
  PROVE  Agree' /\ [Pipe!Next]_(Pipe!vars)
<1> DEFINE o == Other(e)
<1>1. /\ o \in Ends /\ o # e /\ Other(o) = e /\ \A x \in Ends : x = e \/ x = o
      /\ prog \in [Ends -> Program] /\ prog[e] \in Program /\ Seen(e) \in Program
  BY EndFacts
<1>2. Seen(o) \in Program
  BY <1>1, EndFacts
<1>3. prog'[e] = qr /\ prog'[o] = prog[o]
  BY <1>1
<1>4. /\ ch'[o].st = ch[o].st /\ ch'[o].zombie = ch[o].zombie
      /\ ch'[o].closes = ch[o].closes /\ ch'[o].backlog = ch[o].backlog
  OBVIOUS
<1>5. ch[e].st = "open" => Heard(ch'[e], qr, Seen(o))
  OBVIOUS
<1> HIDE DEF o
<1>6. Seen(o)' = Seen(o)
  BY <1>1, <1>3, <1>4 DEF Seen
<1>7. Both' <=> Both
  BY <1>1, <1>4 DEF Both
<1>8. \A x \in Ends : ch'[x].st # "none" => Own(ch'[x], prog'[x])
  <2>1. ch'[o].st # "none" => Own(ch'[o], prog'[o])
    BY <1>3, <1>4 DEF o
  <2>2. Own(ch'[e], prog'[e])
    BY <1>3
  <2> QED
    BY <1>1, <2>1, <2>2
<1>9. Both => \A x \in Ends : Given(ch'[Other(x)], ch'[x], prog'[x])
  <2> SUFFICES ASSUME Both PROVE \A x \in Ends : Given(ch'[Other(x)], ch'[x], prog'[x])
    OBVIOUS
  <2>1. Given(ch'[o], ch'[e], prog'[e]) /\ Given(ch'[e], ch'[o], prog'[o])
    BY <1>3 DEF o
  <2>2. Given(ch'[Other(e)], ch'[e], prog'[e]) /\ Given(ch'[Other(o)], ch'[o], prog'[o])
    BY <1>1, <2>1 DEF o
  <2> QED
    BY <1>1, <2>2
\* Seen from outside, the end stays as it was or does one of these things.
<1>10. /\ \/ Seen(e)' = Seen(e)
          \/ Breaks(Seen(e), Seen(e)')
          \/ Both /\ (Writes(Seen(e), Seen(e)') \/ Finishes(Seen(e), Seen(e)'))
          \/ Hears(Seen(e), Seen(o), Seen(e)') \/ HearsEnd(Seen(e), Seen(o), Seen(e)')
  <2>1. CASE qr = prog[e] \/ Hidden(e)
    <3>1. Seen(e)' = Seen(e)
      BY <1>3, <2>1, EndsAre DEF Seen, Hidden
    <3> QED
      BY <3>1
  <2>2. CASE ~(qr = prog[e] \/ Hidden(e))
    <3>1. Seen(e) = prog[e]
      BY <2>2, SeenIs
    <3>2. Seen(e)' = qr
      BY <1>3, <2>2, EndsAre DEF Seen, Hidden
    <3> QED
      BY <2>2, <3>1, <3>2 DEF o
  <2> QED
    BY <2>1, <2>2
<1>11. \A x \in Ends : ch'[x].st = "open" => Heard(ch'[x], prog'[x], Seen(Other(x))')
  <2>1. ch'[e].st = "open" => Heard(ch'[e], prog'[e], Seen(o)')
    BY <1>3, <1>5, <1>6
  <2>2. ch'[o].st = "open" => Heard(ch'[o], prog'[o], Seen(e)')
    <3> SUFFICES ASSUME ch[o].st = "open" PROVE Heard(ch'[o], prog[o], Seen(e)')
      BY <1>3, <1>4
    <3>1. Heard(ch[o], prog[o], Seen(Other(o)))
      BY <1>1 DEF Agree
    <3>2. Heard(ch[o], prog[o], Seen(e))
      BY <1>1, <3>1
    <3> QED
      BY <1>1, <1>4, <1>10, <3>2, HeardStays
  <2>3. Other(e) = o /\ Other(o) = e
    BY <1>1 DEF o
  <2> QED
    BY <1>1, <2>1, <2>2, <2>3
<1>12. ~Both => /\ Over(Seen(Client)', Seen(Server)')
                /\ \A x \in Ends : ch'[x].st # "open" => Shut(Seen(x)')
  <2> SUFFICES ASSUME ~Both
               PROVE  /\ Over(Seen(Client)', Seen(Server)')
                      /\ \A x \in Ends : ch'[x].st # "open" => Shut(Seen(x)')
    OBVIOUS
  <2>1. Over(Seen(e), Seen(o))
    BY EndsAre DEF Agree, Over, o
  <2>2. \/ Seen(e)' = Seen(e) \/ Breaks(Seen(e), Seen(e)')
        \/ Hears(Seen(e), Seen(o), Seen(e)') \/ HearsEnd(Seen(e), Seen(o), Seen(e)')
    BY <1>10
  <2>3. Over(Seen(e)', Seen(o))
    BY <1>1, <1>2, <2>1, <2>2, OverStays
  <2>4. Over(Seen(Client)', Seen(Server)')
    BY <1>1, <1>6, <2>3, EndsAre DEF Over, o
  <2>5. ch'[o].st # "open" => Shut(Seen(o)')
    BY <1>1, <1>4, <1>6 DEF Agree
  <2>6. ch'[e].st # "open" => Shut(Seen(e)')
    <3> SUFFICES ASSUME ch[e].st # "open" PROVE Shut(Seen(e)')
      OBVIOUS
    <3>1. Shut(Seen(e))
      BY DEF Agree
    <3>2. CASE Seen(e)' = Seen(e)
      BY <3>1, <3>2
    <3>3. CASE Breaks(Seen(e), Seen(e)')
      BY <1>1, <3>3 DEF Breaks, Shut, Program
    <3>4. CASE Hears(Seen(e), Seen(o), Seen(e)') \/ HearsEnd(Seen(e), Seen(o), Seen(e)')
      <4>1. ch[e].st = "halfopen"
        BY EndFacts
      <4>2. e = Client
        BY <4>1, ServerNotHalfOpen, EndsAre
      <4>3. Seen(e)' = Seen(e)
        BY <1>3, <4>1, <4>2, EndsAre DEF Seen, Hidden
      <4> QED
        BY <3>1, <4>3
    <3> QED
      BY <2>2, <3>2, <3>3, <3>4
  <2> QED
    BY <1>1, <2>4, <2>5, <2>6
<1>13. Agree'
  BY <1>7, <1>8, <1>9, <1>11, <1>12 DEF Agree
<1>14. [Pipe!Next]_(Pipe!vars)
  <2>1. CASE Seen(e)' = Seen(e)
    <3>1. Seen(Client)' = Seen(Client) /\ Seen(Server)' = Seen(Server)
      BY <1>1, <1>6, <2>1, EndsAre
    <3> QED
      BY <3>1, SeenStays
  <2>2. CASE Seen(e)' # Seen(e)
    <3>1. \/ Writes(Seen(e), Seen(e)') \/ Finishes(Seen(e), Seen(e)')
          \/ Breaks(Seen(e), Seen(e)') \/ Hears(Seen(e), Seen(o), Seen(e)')
          \/ HearsEnd(Seen(e), Seen(o), Seen(e)')
      BY <1>10, <2>2
    <3> QED
      BY <1>1, <1>2, <1>6, <3>1, SeenSteps DEF o
  <2> QED
    BY <2>1, <2>2
<1> QED
  BY <1>13, <1>14

LEMMA BothTalk ==
  ASSUME IInv, Both
  PROVE  /\ \A e \in Ends : Linked(ch[e], ch[Other(e)])
         /\ ch[Client].st = "halfopen" => ch[Client].tx = <<>>
<1>1. Related(ch[Client], ch[Server], opens # answered)
  BY DEF IInv, Situation
<1>2. opens = answered /\ ch[Client].st # "none" /\ ch[Server].st # "none"
  BY EndsAre DEF Both
<1>3. Talking(ch[Client], ch[Server])
  BY <1>1, <1>2 DEF Related, Idle, Refused, ClientLeft, ServerLeft
<1>4. Linked(ch[Client], ch[Server]) /\ Linked(ch[Server], ch[Client])
  BY <1>3, LinkedBothWays DEF Talking
<1> QED
  BY <1>3, <1>4, EndsAre DEF Talking

\* An open channel that is alone has had its say and has heard the other one out.
LEMMA AloneIsDone ==
  ASSUME IInv, ~Both, NEW e \in Ends, ch[e].st = "open"
  PROVE  /\ "SENT_EOF" \in ch[e].closes
         /\ ch[e].zombie \/ "RCVD_EOF" \in ch[e].closes
<1> DEFINE c == ch[Client]
           s == ch[Server]
<1>1. Related(c, s, opens # answered)
  BY DEF IInv, Situation
<1>2. "SENT_CLOSE" \in ch[e].closes
  <2>1. CASE e = Client
    <3>1. ServerLeft(c, s)
      <4>1. ~Talking(c, s) \/ opens # answered
        BY <2>1, EndsAre DEF Both, Talking
      <4> QED
        BY <1>1, <2>1, <4>1 DEF Related, Asking, Idle, Refused, ClientLeft
    <3> QED
      BY <2>1, <3>1 DEF ServerLeft, Left
  <2>2. CASE e = Server
    <3>1. ClientLeft(c, s) \/ Asking(c, s)
      <4>1. ~Talking(c, s) \/ opens # answered
        BY <2>2, EndsAre DEF Both, Talking
      <4> QED
        BY <1>1, <2>2, <4>1 DEF Related, Idle, Refused, ServerLeft
    <3> QED
      BY <2>2, <3>1 DEF ClientLeft, Asking, Left
  <2> QED
    BY <2>1, <2>2, EndsAre
<1>3. Local(ch[e], prog[e])
  BY EndFacts
<1> QED
  BY <1>2, <1>3 DEF Local

LEMMA EofIsSent ==
  ASSUME NEW c \in Channel, NEW y, Linked(c, y)
  PROVE  /\ "SENT_EOF" \notin c.closes => NoEof(c.tx)
         /\ "RCVD_EOF" \in y.closes => "SENT_EOF" \in c.closes
BY DEF Linked, Towards, Stream, NoEof

\* A program whose channel is open is seen as it is.
LEMMA OpenIsSeen ==
  ASSUME IInv, NEW e \in Ends, ch[e].st = "open"
  PROVE  ~Hidden(e) /\ Seen(e) = prog[e]
<1>1. Related(ch[Client], ch[Server], opens # answered)
  BY DEF IInv, Situation
<1>2. e = Client => opens = answered
  BY <1>1 DEF Related, Asking
<1> QED
  BY <1>2, SeenIs DEF Hidden

LEMMA GivenSame ==
  ASSUME NEW y, NEW c, NEW pr, Given(y, c, pr), NEW d, NEW qr, c.zombie => d.zombie,
         d.zombie \/ qr.got + d.backlog = pr.got + c.backlog
  PROVE  Given(y, d, qr)
BY DEF Given

LEMMA TakenOwn ==
  ASSUME NEW y \in Channel, y.tx # <<>>, NEW py, Own(y, py)
  PROVE  /\ Own(Taken(y), py) /\ Taken(y).zombie = y.zombie
         /\ Taken(y).closes = y.closes /\ Taken(y).backlog = y.backlog
<1> DEFINE z == Taken(y)
<1>1. /\ z.st = y.st /\ z.zombie = y.zombie /\ z.ready = y.ready /\ z.frozen = y.frozen
      /\ z.closes = y.closes /\ z.sent = y.sent /\ z.out = y.out /\ z.backlog = y.backlog
  BY DEF Taken, Channel
<1> HIDE DEF z
<1>2. Own(z, py) /\ z.zombie = y.zombie /\ z.closes = y.closes /\ z.backlog = y.backlog
  BY <1>1 DEF Own
<1> QED
  BY <1>2 DEF z

LEMMA HeadAt ==
  ASSUME IInv, NEW e \in Ends, Waiting(e) # <<>>
  PROVE  LET p == Waiting(e)[1]
             y == ch[Other(e)]
         IN /\ Head(Waiting(e)) = p /\ p \in PacketSet
            /\ p.type \in {"DATA", "EOF"} => "RCVD_EOF" \notin ch[e].closes
            /\ p.type = "FAILURE" => ch[e].chanreqs # <<>>
            /\ Both => /\ p.type = "EOF" => "SENT_EOF" \in y.closes
                       /\ p.type = "CLOSE" => "SENT_CLOSE" \in y.closes /\ Tail(y.tx) = <<>>
<1> DEFINE p == Waiting(e)[1]
           y == ch[Other(e)]
           c == ch[Client]
           s == ch[Server]
           asked == opens # answered
<1>1. Typed /\ c \in Channel /\ s \in Channel /\ asked \in BOOLEAN /\ Related(c, s, asked)
  BY EndFacts, EndsAre DEF IInv, Situation
<1>2. Head(Waiting(e)) = p
  BY <1>1, WaitingIs
<1>3. Waiting(e) = y.tx /\ y \in Channel /\ ch[e] \in Channel
  BY EndFacts DEF Waiting
<1>4. /\ p \in PacketSet
      /\ p.type \in {"DATA", "EOF"} => "RCVD_EOF" \notin ch[e].closes
      /\ p.type = "FAILURE" => ch[e].chanreqs # <<>>
  <2>1. CASE e = Client
    <3>1. s.tx # <<>> /\ p = s.tx[1] /\ ch[e] = c
      BY <2>1, EndsAre DEF Waiting
    <3> HIDE DEF c, s, asked, p
    <3>2. /\ s.tx[1] \in PacketSet
          /\ s.tx[1].type = "FAILURE" => c.chanreqs # <<>>
          /\ s.tx[1].type \in {"DATA", "EOF"} => "RCVD_EOF" \notin c.closes
      BY <1>1, <3>1, ClientHead
    <3> QED
      BY <3>1, <3>2
  <2>2. CASE e = Server
    <3>1. c.tx # <<>> /\ p = c.tx[1] /\ ch[e] = s
      BY <2>2, EndsAre DEF Waiting
    <3> HIDE DEF c, s, asked, p
    <3>2. /\ c.tx[1] \in PacketSet
          /\ c.tx[1].type = "FAILURE" => s.chanreqs # <<>>
          /\ c.tx[1].type \in {"DATA", "EOF"} => "RCVD_EOF" \notin s.closes
      BY <1>1, <3>1, ServerHead
    <3> QED
      BY <3>1, <3>2
  <2> QED
    BY <2>1, <2>2, EndsAre
<1>5. Both => /\ p.type = "EOF" => "SENT_EOF" \in y.closes
              /\ p.type = "CLOSE" => "SENT_CLOSE" \in y.closes /\ Tail(y.tx) = <<>>
  <2> SUFFICES ASSUME Both
               PROVE  /\ p.type = "EOF" => "SENT_EOF" \in y.closes
                      /\ p.type = "CLOSE" => "SENT_CLOSE" \in y.closes /\ Tail(y.tx) = <<>>
    OBVIOUS
  <2>1. Linked(ch[e], y)
    BY BothTalk
  <2>2. p = y.tx[1] /\ y.tx # <<>>
    BY <1>3
  <2> HIDE DEF y, p
  <2> QED
    BY <1>3, <2>1, <2>2, LinkedHead, Zenon
<1> QED
  BY <1>2, <1>4, <1>5

-----------------------------------------------------------------------------
(* ... and the steps                                                        *)

\* A socket moves.
LEMMA MovesStep ==
  ASSUME IInv, Agree, NEW e \in Ends, NEW d, NEW qr, Moves(ch[e], prog[e], d, qr),
         ch[e].st # "none", ch[e].st = "open" \/ ~ThrottleMove(ch[e], prog[e], d, qr),
         ch' = [ch EXCEPT ![e] = d], prog' = [prog EXCEPT ![e] = qr],
         before' = before, opens' = opens, answered' = answered
  PROVE  Agree' /\ [Pipe!Next]_(Pipe!vars)
<1> DEFINE o == Other(e)
           c == ch[e]
           y == ch[o]
           pr == prog[e]
           py == prog[o]
<1>1. /\ c \in Channel /\ pr \in Program /\ Local(c, pr) /\ c.st \in {"none", "halfopen", "open"}
      /\ o \in Ends /\ o # e /\ Other(o) = e /\ ch \in [Ends -> Channel]
  BY EndFacts
<1>2. y \in Channel /\ py \in Program
  BY <1>1, EndFacts
<1>3. Own(c, pr)
  BY DEF Agree
<1>4. qr \in Program
  BY <1>1, MovesProgram
<1>5. /\ d \in Channel /\ d.st = c.st /\ Own(d, qr) /\ Carries(c, d)
      /\ c.zombie => d.zombie
      /\ d.zombie \/ qr.got + d.backlog = pr.got + c.backlog
  <2>1. CASE c.st = "open"
    BY <1>1, <1>3, <2>1, OpenMoves
  <2>2. CASE c.st # "open"
    <3>1. c.st = "halfopen"
      BY <1>1, <2>2
    <3> QED
      BY <1>1, <1>3, <2>2, <3>1, HalfOpenMoves
  <2> QED
    BY <2>1, <2>2
<1>6. ch'[e] = d /\ ch'[o] = y
  BY <1>1, <1>5
<1>7. y.st # "none" => Own(y, py)
  BY <1>1 DEF Agree
<1>8. Both => Given(y, d, qr) /\ Given(d, y, py)
  <2> SUFFICES ASSUME Both PROVE Given(y, d, qr) /\ Given(d, y, py)
    OBVIOUS
  <2>1. Given(y, c, pr) /\ Given(c, y, py)
    BY <1>1 DEF Agree
  <2>2. Linked(c, y)
    BY BothTalk
  <2>3. Given(y, d, qr)
    BY <1>5, <2>1, GivenSame
  <2>4. "SENT_EOF" \notin c.closes => NoEof(c.tx)
    BY <1>1, <2>2, EofIsSent
  <2>5. Given(d, y, py)
    BY <1>1, <1>2, <1>5, <2>1, <2>4, GivenSends
  <2> QED
    BY <2>3, <2>5
<1>9. c.st = "open" => Heard(d, qr, Seen(o))
  <2> SUFFICES ASSUME c.st = "open" PROVE Heard(d, qr, Seen(o))
    OBVIOUS
  <2>1. Heard(c, pr, Seen(o))
    BY DEF Agree
  <2>2. "RCVD_EOF" \in d.closes <=> "RCVD_EOF" \in c.closes
    BY <1>1, <1>3, OpenMoves
  <2> HIDE DEF o, c, y, pr, py
  <2> QED
    BY <1>5, <2>1, <2>2, HeardKept
<1>10. \/ qr = pr \/ Hidden(e) \/ Breaks(pr, qr)
       \/ Both /\ (Writes(pr, qr) \/ Finishes(pr, qr))
       \/ Hears(pr, Seen(o), qr) \/ HearsEnd(pr, Seen(o), qr)
  <2>1. CASE c.st = "open"
    <3>1. \/ qr = pr \/ Breaks(pr, qr)
          \/ ~c.zombie /\ ~pr.ended /\ (Writes(pr, qr) \/ Finishes(pr, qr))
          \/ SentMove(c, pr, d, qr)
      BY <1>1, <1>3, <2>1, OpenMoves
    <3>2. ~Both => "SENT_EOF" \in c.closes /\ (c.zombie \/ "RCVD_EOF" \in c.closes)
      BY <2>1, AloneIsDone
    <3>3. ~Both => c.zombie \/ pr.ended
      BY <1>1, <3>2 DEF Local
    <3>4. ASSUME SentMove(c, pr, d, qr)
          PROVE  Hears(pr, Seen(o), qr) \/ HearsEnd(pr, Seen(o), qr)
      <4>1. c.backlog > 0 /\ c.backlog \in Nat /\ ~c.zombie /\ pr.got \in Nat
        BY <1>1, <1>3, <3>4, ChannelType, ProgramType DEF SentMove, Own
      <4>2. pr.got + c.backlog <= Seen(o).wrote \/ "RCVD_EOF" \in c.closes
        <5>1. CASE ~Both
          BY <3>2, <4>1, <5>1
        <5>2. CASE Both
          <6>1. Given(y, c, pr) /\ y.st # "none" /\ Own(y, py)
            BY <1>1, <1>7, <5>2 DEF Agree, Both
          <6>2. PICK k \in Nat : pr.got + c.backlog + k = y.sent
            BY <4>1, <6>1 DEF Given
          <6>3. y.sent \in Nat /\ y.out \in Nat /\ py.wrote = y.sent + y.out
            BY <1>2, <6>1, ChannelType DEF Own
          <6>4. pr.got + c.backlog <= py.wrote /\ y.sent # 0
            BY <4>1, <6>2, <6>3
          <6>5. y.st # "halfopen"
            BY <6>1, <6>4 DEF Own
          <6>6. y.st = "open"
            BY <1>1, <6>1, <6>5, EndFacts
          <6>7. Seen(o) = py
            BY <1>1, <6>6, OpenIsSeen
          <6> QED
            BY <6>4, <6>7
        <5> QED
          BY <5>1, <5>2
      <4>3. Heard(c, pr, Seen(o)) /\ Seen(o) \in Program
        BY <1>1, <2>1, EndFacts DEF Agree
      <4> HIDE DEF o, c, y, pr, py
      <4> QED
        BY <1>1, <1>3, <3>4, <4>2, <4>3, SentRightly
    <3> QED
      BY <3>1, <3>3, <3>4
  <2>2. CASE c.st # "open"
    <3>1. c.st = "halfopen"
      BY <1>1, <2>2
    <3>2. e = Client
      BY <3>1, ServerNotHalfOpen, EndsAre
    <3> QED
      BY <3>1, <3>2 DEF Hidden
  <2> QED
    BY <2>1, <2>2
<1>11. /\ ch'[e].st = ch[e].st /\ ch'[Other(e)].st = ch[Other(e)].st
       /\ ch'[Other(e)].zombie = ch[Other(e)].zombie
       /\ ch'[Other(e)].closes = ch[Other(e)].closes
       /\ ch'[Other(e)].backlog = ch[Other(e)].backlog
       /\ Own(ch'[e], qr)
       /\ ch[e].st = "open" => Heard(ch'[e], qr, Seen(Other(e)))
       /\ ch[Other(e)].st # "none" => Own(ch'[Other(e)], prog[Other(e)])
       /\ Both => /\ Given(ch'[Other(e)], ch'[e], qr)
                  /\ Given(ch'[e], ch'[Other(e)], prog[Other(e)])
  BY <1>5, <1>6, <1>7, <1>8, <1>9
<1>12. \/ qr = prog[e] \/ Hidden(e) \/ Breaks(prog[e], qr)
       \/ Both /\ (Writes(prog[e], qr) \/ Finishes(prog[e], qr))
       \/ Hears(prog[e], Seen(Other(e)), qr) \/ HearsEnd(prog[e], Seen(Other(e)), qr)
  BY <1>10
<1> HIDE DEF o, c, y, pr, py
<1> QED
  BY <1>4, <1>11, <1>12, OneEnd

\* A packet is taken, CLOSE excepted.
LEMMA TakesStep ==
  ASSUME IInv, Agree, NEW e \in Ends, ch[e].st = "open", Waiting(e) # <<>>,
         NEW d, Takes(ch[e], Waiting(e)[1], d), Handled(e, d),
         NEW qr, Told(ch[e], Waiting(e)[1], d, prog[e], qr), prog' = [prog EXCEPT ![e] = qr],
         before' = before, opens' = opens, answered' = answered
  PROVE  Agree' /\ [Pipe!Next]_(Pipe!vars)
<1> DEFINE o == Other(e)
           c == ch[e]
           y == ch[o]
           pr == prog[e]
           py == prog[o]
           p == Waiting(e)[1]
           z == Taken(y)
<1>1. /\ c \in Channel /\ pr \in Program /\ Local(c, pr)
      /\ o \in Ends /\ o # e /\ Other(o) = e /\ Typed
  BY EndFacts
<1>2. y \in Channel /\ py \in Program /\ (y.st # "none" => Local(y, py))
  BY <1>1, EndFacts
<1>3. y.tx = Waiting(e) /\ y.tx # <<>> /\ y.tx[1] = p
  BY DEF Waiting
<1>4. /\ p \in PacketSet
      /\ p.type \in {"DATA", "EOF"} => "RCVD_EOF" \notin c.closes
      /\ p.type = "FAILURE" => c.chanreqs # <<>>
      /\ Both => (p.type = "EOF" => "SENT_EOF" \in y.closes)
  BY HeadAt
<1>5. Own(c, pr) /\ Heard(c, pr, Seen(o))
  BY DEF Agree
<1>6. Takes(c, p, d) /\ Told(c, p, d, pr, qr)
  OBVIOUS
<1> HIDE DEF p
<1>7. /\ d \in Channel /\ d.st = c.st /\ d.zombie = c.zombie
      /\ d.backlog = c.backlog \/ (p.type = "DATA" /\ d.backlog \in LeftOf(c, p.n))
      /\ Own(d, qr) /\ Carries(c, d)
  BY <1>1, <1>4, <1>5, <1>6, TakesOwn
<1>8. /\ qr \in Program
      /\ ~c.zombie => qr.got + d.backlog = pr.got + c.backlog + Weighs("data", p)
  BY <1>1, <1>4, <1>6, <1>7, ToldFields
<1>9. ch'[e] = d /\ ch'[o] = z
  BY <1>1, <1>7, HandledIs
<1>10. /\ z \in Channel /\ z.st = y.st /\ z.zombie = y.zombie /\ z.closes = y.closes
       /\ z.backlog = y.backlog
  <2>1. z.backlog = y.backlog
    BY <1>2 DEF Taken, Channel
  <2> QED
    BY <1>2, <1>3, <2>1, TakenType
<1>11. y.st # "none" => Own(z, py)
  <2>1. y.st # "none" => Own(y, py)
    BY <1>1 DEF Agree
  <2> QED
    BY <1>2, <1>3, <2>1, TakenOwn
<1>12. Both => Given(z, d, qr) /\ Given(d, z, py)
  <2> SUFFICES ASSUME Both PROVE Given(z, d, qr) /\ Given(d, z, py)
    OBVIOUS
  <2>1. Given(y, c, pr) /\ Given(c, y, py)
    BY <1>1 DEF Agree
  <2>2. Linked(c, y)
    BY BothTalk
  <2>3. Given(z, d, qr)
    BY <1>1, <1>2, <1>3, <1>7, <1>8, <2>1, GivenTakes
  <2>4. "SENT_EOF" \notin c.closes => NoEof(c.tx)
    BY <1>1, <2>2, EofIsSent
  <2> HIDE DEF z
  <2>5. Given(d, z, py)
    BY <1>1, <1>2, <1>7, <1>10, <2>1, <2>4, GivenSends
  <2> QED
    BY <2>3, <2>5
<1>13. /\ qr = pr \/ Hears(pr, Seen(o), qr) \/ HearsEnd(pr, Seen(o), qr)
       /\ Heard(d, qr, Seen(o))
  <2>1. CASE ~Both
    <3>1. c.zombie \/ "RCVD_EOF" \in c.closes
      BY <2>1, AloneIsDone
    <3> HIDE DEF o, c, y, pr, py, z
    <3>2. c.st = "open"
      BY DEF c
    <3> QED
      BY <1>1, <1>4, <1>5, <1>6, <3>1, <3>2, ToldNothing
  <2>2. CASE Both
    <3>1. y.st # "none" /\ Own(y, py) /\ Given(y, c, pr)
      BY <1>1, <2>2 DEF Agree, Both
    <3>2. Seen(o) = py
      <4>1. ~Hidden(o)
        BY <1>3, <2>2, BothTalk DEF Hidden, Both
      <4> QED
        BY <1>1, <3>1, <4>1, SeenIs
    <3>3. c.st = "open" /\ Heard(c, pr, py) /\ (y.tx[1].type = "EOF" => "SENT_EOF" \in y.closes)
      BY <1>3, <1>4, <1>5, <2>2, <3>2
    <3>4. Local(y, py) /\ y.tx[1] = p /\ y.tx # <<>>
      BY <1>2, <1>3, <3>1
    <3> HIDE DEF o, c, y, pr, py, z
    <3>5. /\ qr = pr \/ Hears(pr, py, qr) \/ HearsEnd(pr, py, qr)
          /\ Heard(d, qr, py)
      BY <1>1, <1>2, <1>4, <1>5, <1>6, <3>1, <3>3, <3>4, ToldRightly
    <3> QED
      BY <3>2, <3>5
  <2> QED
    BY <2>1, <2>2
<1>14. /\ ch'[e].st = ch[e].st /\ ch'[Other(e)].st = ch[Other(e)].st
       /\ ch'[Other(e)].zombie = ch[Other(e)].zombie
       /\ ch'[Other(e)].closes = ch[Other(e)].closes
       /\ ch'[Other(e)].backlog = ch[Other(e)].backlog
       /\ Own(ch'[e], qr)
       /\ Heard(ch'[e], qr, Seen(Other(e)))
       /\ ch[Other(e)].st # "none" => Own(ch'[Other(e)], prog[Other(e)])
       /\ Both => /\ Given(ch'[Other(e)], ch'[e], qr)
                  /\ Given(ch'[e], ch'[Other(e)], prog[Other(e)])
  BY <1>7, <1>9, <1>10, <1>11, <1>12, <1>13
<1>15. \/ qr = prog[e] \/ Hidden(e) \/ Breaks(prog[e], qr)
       \/ Both /\ (Writes(prog[e], qr) \/ Finishes(prog[e], qr))
       \/ Hears(prog[e], Seen(Other(e)), qr) \/ HearsEnd(prog[e], Seen(Other(e)), qr)
  BY <1>13
<1> HIDE DEF o, c, y, pr, py, z
<1> QED
  BY <1>8, <1>14, <1>15, OneEnd

LEMMA SocketStep ==
  ASSUME IInv, Agree, NEW e \in Ends, SocketData(e) \/ SocketEof(e) \/ SocketError(e) \/ SocketSent(e)
  PROVE  Agree' /\ [Pipe!Next]_(Pipe!vars)
<1>1. ch[e].st # "none" /\ before' = before /\ opens' = opens /\ answered' = answered
  BY SocketMoves
<1>2. PICK d, qr : /\ Moves(ch[e], prog[e], d, qr)
                   /\ ch' = [ch EXCEPT ![e] = d] /\ prog' = [prog EXCEPT ![e] = qr]
  BY SocketMoves
<1>3. ch[e].st = "open" \/ ~ThrottleMove(ch[e], prog[e], d, qr)
  <2> SUFFICES ASSUME ch[e].st # "open" PROVE ~ThrottleMove(ch[e], prog[e], d, qr)
    OBVIOUS
  <2>1. /\ ch[e].st = "halfopen" /\ Local(ch[e], prog[e]) /\ Own(ch[e], prog[e])
        /\ prog \in [Ends -> Program] /\ prog[e] \in Program
    BY <1>1, EndFacts DEF Agree
  <2>2. ch[e].frozen /\ ch[e].backlog = 0
    BY <2>1 DEF Own, Local
  <2>3. SocketError(e)
    BY <2>2 DEF SocketData, SocketEof, SocketSent, Readable
  <2>4. ~prog[e].broken
    BY <2>1, <2>3 DEF SocketError, Own
  <2>5. prog'[e].broken
    <3>1. prog' = [prog EXCEPT ![e].broken = TRUE]
      BY <2>3 DEF SocketError
    <3> QED
      BY <2>1, <3>1 DEF Program
  <2>6. prog'[e] = qr
    BY <1>2, <2>1
  <2> QED
    BY <2>4, <2>5, <2>6 DEF ThrottleMove
<1> QED
  BY <1>1, <1>2, <1>3, MovesStep

\* What has to be shown of a step after which the two ends are not both there.
LEMMA ApartStep ==
  ASSUME \A e \in Ends : ch'[e].st # "none" => Own(ch'[e], prog'[e]),
         \A e \in Ends : ch'[e].st = "open" => Heard(ch'[e], prog'[e], Seen(Other(e))'),
         \A e \in Ends : ch'[e].st # "open" => Shut(Seen(e)'),
         ~Both', Over(Seen(Client)', Seen(Server)')
  PROVE  Agree'
BY DEF Agree

LEMMA ThrottleStep ==
  ASSUME IInv, Agree, BackupAnytime = FALSE, ThrottleAll \/ UnthrottleAll
  PROVE  Agree' /\ [Pipe!Next]_(Pipe!vars)
<1> DEFINE c == ch[Client]
           s == ch[Server]
<1>1. /\ ch \in [Ends -> Channel] /\ prog \in [Ends -> Program] /\ c \in Channel
      /\ c.st \in {"none", "halfopen", "open"}
  BY EndFacts, EndsAre
<1>2. prog' = prog /\ before' = before /\ opens' = opens /\ answered' = answered
  BY DEF ThrottleAll, UnthrottleAll, Counters
<1>3. c.st # "halfopen"
  BY DEF ThrottleAll, UnthrottleAll
<1>4. PICK t \in BOOLEAN :
        ch' = [ch EXCEPT ![Client] = ssh2_channel_check_throttle([c EXCEPT !.throttled = t])]
  <2>1. CASE ThrottleAll
    <3>1. ch' = [ch EXCEPT ![Client] = ssh2_channel_check_throttle([c EXCEPT !.throttled = TRUE])]
      BY <1>1, <2>1, EndsAre DEF ThrottleAll
    <3> QED
      BY <3>1
  <2>2. CASE UnthrottleAll
    <3>1. ch' = [ch EXCEPT ![Client] = ssh2_channel_check_throttle([c EXCEPT !.throttled = FALSE])]
      BY <1>1, <2>2, EndsAre DEF UnthrottleAll
    <3> QED
      BY <3>1
  <2> QED
    BY <2>1, <2>2
<1> DEFINE m == [c EXCEPT !.throttled = t]
           d == ssh2_channel_check_throttle(m)
<1>5. CASE c.st = "open"
  <2>1. Moves(c, prog[Client], d, prog[Client])
    BY <1>4, Zenon DEF Moves, ThrottleMove
  <2>2. prog' = [prog EXCEPT ![Client] = prog[Client]]
    BY <1>1, <1>2
  <2>3. ch' = [ch EXCEPT ![Client] = d]
    BY <1>4
  <2> HIDE DEF d
  <2> QED
    BY <1>2, <1>5, <2>1, <2>2, <2>3, EndsAre, MovesStep
<1>6. CASE c.st = "none"
  <2>1. m.st = "none"
    BY <1>1, <1>6 DEF Channel
  <2> HIDE DEF m
  <2>2. d = m
    BY <2>1 DEF ssh2_channel_check_throttle
  <2>3. ch' = [ch EXCEPT ![Client] = m]
    BY <1>4, <2>2 DEF m
  <2> HIDE DEF d
  <2>4. ch'[Client].st = "none" /\ ch'[Server] = s
    BY <1>1, <2>1, <2>3, EndsAre
  <2>5. ~Both /\ ~Both'
    BY <1>6, <2>4, EndsAre DEF Both
  <2>6. Seen(Client)' = Seen(Client) /\ Seen(Server)' = Seen(Server)
    BY <1>2, <1>6, <2>4 DEF Seen
  <2>7. Agree'
    <3>1. \A e \in Ends : ch'[e].st # "none" => Own(ch'[e], prog'[e])
      BY <1>2, <2>4, EndsAre DEF Agree
    <3>2. Over(Seen(Client)', Seen(Server)')
      BY <2>5, <2>6 DEF Agree
    <3>3. \A e \in Ends : ch'[e].st # "open" => Shut(Seen(e)')
      BY <1>6, <2>4, <2>5, <2>6, EndsAre DEF Agree
    <3>4. \A e \in Ends : ch'[e].st = "open" => Heard(ch'[e], prog'[e], Seen(Other(e))')
      <4>1. s.st = "open" => Heard(s, prog[Server], Seen(Client))
        BY EndsAre DEF Agree
      <4> QED
        BY <1>2, <2>4, <2>6, <4>1, EndsAre
    <3> QED
      BY <2>5, <3>1, <3>2, <3>3, <3>4, ApartStep
  <2> QED
    BY <2>6, <2>7, SeenStays
<1> QED
  BY <1>1, <1>3, <1>5, <1>6

LEMMA ReceiveDataStep ==
  ASSUME IInv, Agree, NEW e \in Ends, ReceiveData(e)
  PROVE  Agree' /\ [Pipe!Next]_(Pipe!vars)
<1> DEFINE c == ch[e]
           pr == prog[e]
           p == Waiting(e)[1]
<1>1. Typed /\ prog \in [Ends -> Program] /\ pr \in Program
  BY EndFacts
<1>2. Waiting(e) # <<>> /\ c.st = "open"
  BY DEF ReceiveData, HeadIs
<1>3. Head(Waiting(e)) = p
  BY <1>1, <1>2, WaitingIs
<1>4. p.type = "DATA"
  BY <1>3 DEF ReceiveData, HeadIs
<1>5. PICK left \in LeftOf(c, p.n) :
        /\ Handled(e, GotData(c, p.n, left))
        /\ prog' = [prog EXCEPT ![e].got = IF c.zombie THEN @ ELSE @ + (c.backlog + p.n - left)]
  BY <1>3 DEF ReceiveData
<1> DEFINE d == GotData(c, p.n, left)
           qr == [pr EXCEPT !.got = IF c.zombie THEN @ ELSE @ + (c.backlog + p.n - d.backlog)]
<1>6. Takes(c, p, d)
  BY <1>4, <1>5, Zenon DEF Takes
<1>7. d.backlog = left
  <2>1. c \in Channel /\ p.n \in Nat /\ c.backlog \in Nat
    BY <1>1, <1>2, EndFacts, WaitingIs, ChannelType
  <2>2. left \in Nat
    BY <1>5, <2>1 DEF LeftOf
  <2> QED
    BY <2>1, <2>2, GotDataGoes
<1>8. prog' = [prog EXCEPT ![e] = qr]
  <2>1. prog' = [prog EXCEPT ![e].got = IF c.zombie THEN @ ELSE @ + (c.backlog + p.n - left)]
    BY <1>5
  <2> HIDE DEF d
  <2> QED
    BY <1>1, <1>7, <2>1
<1>9. Told(c, p, d, pr, qr)
  BY <1>4, Zenon DEF Told
<1>10. before' = before /\ opens' = opens /\ answered' = answered
  BY DEF ReceiveData, Counters
<1>11. Handled(e, d)
  BY <1>5
<1> HIDE DEF d, qr, p
<1> QED
  BY <1>2, <1>6, <1>8, <1>9, <1>10, <1>11, TakesStep DEF p

LEMMA ReceiveControlStep ==
  ASSUME IInv, Agree, NEW e \in Ends, ReceiveControl(e)
  PROVE  Agree' /\ [Pipe!Next]_(Pipe!vars)
<1> DEFINE c == ch[e]
           p == Waiting(e)[1]
<1>1. Typed /\ prog \in [Ends -> Program] /\ prog[e] \in Program
  BY EndFacts
<1>2. Waiting(e) # <<>> /\ c.st = "open"
  BY DEF ReceiveControl, HeadIs
<1>3. Head(Waiting(e)) = p
  BY <1>1, <1>2, WaitingIs
<1>4. PICK d : Takes(c, p, d) /\ Handled(e, d) /\ p.type \notin {"DATA", "EOF", "CLOSE"}
  <2>1. \/ p.type = "WINDOW_ADJUST" /\ Handled(e, GotWindowAdjust(c, p))
        \/ p.type = "REQUEST" /\ Handled(e, GotRequest(c))
        \/ p.type = "FAILURE" /\ Handled(e, GotFailure(c))
    BY <1>3 DEF ReceiveControl, HeadIs
  <2>2. CASE p.type = "WINDOW_ADJUST" /\ Handled(e, GotWindowAdjust(c, p))
    <3>1. Takes(c, p, GotWindowAdjust(c, p))
      BY <2>2, Zenon DEF Takes
    <3> HIDE DEF p
    <3> QED
      BY <2>2, <3>1
  <2>3. CASE p.type = "REQUEST" /\ Handled(e, GotRequest(c))
    <3>1. Takes(c, p, GotRequest(c))
      BY <2>3, Zenon DEF Takes
    <3> HIDE DEF p
    <3> QED
      BY <2>3, <3>1
  <2>4. CASE p.type = "FAILURE" /\ Handled(e, GotFailure(c))
    <3>1. Takes(c, p, GotFailure(c))
      BY <2>4, Zenon DEF Takes
    <3> HIDE DEF p
    <3> QED
      BY <2>4, <3>1
  <2> QED
    BY <2>1, <2>2, <2>3, <2>4
<1>5. /\ prog' = [prog EXCEPT ![e] = prog[e]]
      /\ before' = before /\ opens' = opens /\ answered' = answered
  BY <1>1 DEF ReceiveControl, Counters
<1>6. Told(c, p, d, prog[e], prog[e])
  BY <1>4, Zenon DEF Told
<1> QED
  BY <1>2, <1>4, <1>5, <1>6, TakesStep

\* The CLOSE of the other end is taken: both programs are through with the connection.
LEMMA CloseStep ==
  ASSUME IInv, Agree, NEW e \in Ends, ch[e].st = "open", Waiting(e) # <<>>,
         Waiting(e)[1].type = "CLOSE", Handled(e, GotClose(ch[e])),
         NEW qr, ShownEnd(ch[e], prog[e], qr), prog' = [prog EXCEPT ![e] = qr],
         before' = before, opens' = opens, answered' = answered
  PROVE  Agree' /\ [Pipe!Next]_(Pipe!vars)
<1> DEFINE o == Other(e)
           c == ch[e]
           y == ch[o]
           pr == prog[e]
           py == prog[o]
           p == Waiting(e)[1]
           d == GotClose(c)
           z == Taken(y)
<1>1. /\ c \in Channel /\ pr \in Program /\ Local(c, pr) /\ Typed
      /\ o \in Ends /\ o # e /\ Other(o) = e /\ \A x \in Ends : x = e \/ x = o
      /\ prog \in [Ends -> Program]
  BY EndFacts
<1>2. /\ y \in Channel /\ py \in Program /\ (y.st # "none" => Local(y, py))
      /\ Seen(o) \in Program /\ y.st \in {"none", "halfopen", "open"}
  BY <1>1, EndFacts
<1>3. y.tx = Waiting(e) /\ y.tx # <<>> /\ y.tx[1] = p
  BY DEF Waiting
<1>4. p.type = "CLOSE" /\ (Both => "SENT_CLOSE" \in y.closes)
  BY HeadAt
<1>5. Own(c, pr) /\ Heard(c, pr, Seen(o))
  BY DEF Agree
<1>6. ShownEnd(c, pr, qr)
  OBVIOUS
<1> HIDE DEF p
<1>7. d \in Channel /\ d.st = "none"
  BY <1>1, GotCloseIs
<1>8. /\ qr \in Program /\ qr.ended = pr.ended /\ qr.broken = pr.broken
      /\ Shut(qr)
  BY <1>1, <1>5, <1>6, ShownFields
<1> HIDE DEF d
<1>9. ch'[e] = d /\ ch'[o] = z
  BY <1>1, <1>7, HandledIs DEF d
<1>10. /\ z \in Channel /\ z.st = y.st /\ z.zombie = y.zombie /\ z.closes = y.closes
       /\ z.backlog = y.backlog
  <2>1. z.backlog = y.backlog
    BY <1>2 DEF Taken, Channel
  <2> QED
    BY <1>2, <1>3, <2>1, TakenType
<1>11. y.st # "none" => Own(z, py)
  <2>1. y.st # "none" => Own(y, py)
    BY <1>1 DEF Agree
  <2> QED
    BY <1>2, <1>3, <2>1, TakenOwn
<1>12. prog'[e] = qr /\ prog'[o] = py
  BY <1>1, <1>8
<1>13. ~Both'
  BY <1>1, <1>7, <1>9 DEF Both
<1>14. \A x \in Ends : ch'[x].st # "none" => Own(ch'[x], prog'[x])
  BY <1>1, <1>7, <1>9, <1>10, <1>11, <1>12
<1>15. Seen(o)' = Seen(o)
  BY <1>1, <1>9, <1>10, <1>12, EndsAre DEF Seen
<1>16. Seen(e) = pr /\ Seen(e)' = qr
  <2>1. ~Hidden(e) /\ Seen(e) = pr
    BY OpenIsSeen
  <2>2. Seen(e)' = qr
    BY <1>7, <1>9, <1>12, <2>1, EndsAre DEF Seen, Hidden
  <2> QED
    BY <2>1, <2>2
<1>17. /\ ~c.zombie => pr.got <= Seen(o).wrote /\ (Seen(o).broken \/ (Seen(o).ended /\ pr.ended))
       /\ Over(qr, Seen(o))
       /\ y.st # "open" => Shut(Seen(o))
  <2>1. CASE ~Both
    <3>1. "SENT_EOF" \in c.closes /\ (c.zombie \/ "RCVD_EOF" \in c.closes)
      BY <2>1, AloneIsDone
    <3>2. ~c.zombie => pr.ended
      BY <1>1, <3>1 DEF Local
    <3>3. ~c.zombie => /\ pr.got <= Seen(o).wrote
                       /\ Seen(o).broken \/ (Seen(o).ended /\ pr.ended)
      <4> SUFFICES ASSUME ~c.zombie
                   PROVE  /\ pr.got <= Seen(o).wrote
                          /\ Seen(o).broken \/ (Seen(o).ended /\ pr.ended)
        OBVIOUS
      <4>1. /\ pr.got + c.backlog <= Seen(o).wrote
            /\ Seen(o).broken \/ Seen(o).ended
        BY <1>5, <3>1 DEF Heard
      <4>2. pr.got \in Nat /\ c.backlog \in Nat /\ Seen(o).wrote \in Nat
        BY <1>1, <1>2, ChannelType, ProgramType
      <4>3. pr.got <= Seen(o).wrote
        BY <4>1, <4>2
      <4> QED
        BY <3>2, <4>1, <4>3
    <3>4. c.zombie => qr.broken
      BY <1>5, <1>8 DEF Own
    <3>5. Over(qr, Seen(o))
      BY <1>8, <3>3, <3>4 DEF Over
    <3>6. y.st # "open" => Shut(Seen(o))
      BY <1>1, <2>1 DEF Agree
    <3> QED
      BY <3>3, <3>5, <3>6
  <2>2. CASE Both
    <3>1. y.st # "none" /\ Own(y, py) /\ Given(y, c, pr) /\ Local(y, py)
      BY <1>1, <1>2, <2>2 DEF Agree, Both
    <3>2. ~Hidden(o)
      BY <1>3, <2>2, BothTalk DEF Hidden, Both
    <3>3. Seen(o) = py
      BY <1>1, <3>1, <3>2, SeenIs
    <3>4. "RCVD_EOF" \in y.closes => "SENT_EOF" \in c.closes
      BY <1>1, <2>2, BothTalk, EofIsSent
    <3>5. /\ pr.broken \/ py.broken \/ (pr.ended /\ py.ended)
          /\ ~c.zombie => pr.got <= py.wrote /\ (py.broken \/ (py.ended /\ pr.ended))
      BY <1>1, <1>2, <1>4, <1>5, <2>2, <3>1, <3>4, ClosedIsOver
    <3>6. Over(qr, py)
      BY <1>8, <3>5 DEF Over
    <3>7. y.st = "open"
      <4>1. y.st # "halfopen"
        BY <1>4, <2>2, <3>1 DEF Local
      <4> QED
        BY <1>2, <3>1, <4>1
    <3> QED
      BY <3>3, <3>5, <3>6, <3>7
  <2> QED
    BY <2>1, <2>2
<1>18. qr = pr \/ HearsEnd(pr, Seen(o), qr)
  <2> HIDE DEF o, c, y, pr, py, z
  <2> QED
    BY <1>1, <1>2, <1>5, <1>6, <1>17, ShownRightly
<1>19. Agree'
  <2>1. Over(Seen(Client)', Seen(Server)')
    BY <1>1, <1>15, <1>16, <1>17, EndsAre DEF Over
  <2>2. \A x \in Ends : ch'[x].st # "open" => Shut(Seen(x)')
    BY <1>1, <1>8, <1>9, <1>10, <1>15, <1>16, <1>17
  <2>3. \A x \in Ends : ch'[x].st = "open" => Heard(ch'[x], prog'[x], Seen(Other(x))')
    <3>1. y.st = "open" => Heard(y, py, Seen(Other(o)))
      BY <1>1 DEF Agree
    <3>2. y.st = "open" => Heard(y, py, pr)
      BY <1>1, <1>16, <3>1
    <3>3. y.st = "open" => Heard(z, py, qr)
      <4> HIDE DEF o, c, y, pr, py, z
      <4> QED
        BY <1>1, <1>10, <1>18, <3>2, HeardStays
    <3>4. ch'[o].st = "open" => Heard(ch'[o], prog'[o], Seen(Other(o))')
      BY <1>1, <1>9, <1>10, <1>12, <1>16, <3>3
    <3>5. ch'[e].st # "open"
      BY <1>7, <1>9
    <3> QED
      BY <1>1, <3>4, <3>5
  <2> QED
    BY <1>13, <1>14, <2>1, <2>2, <2>3, ApartStep
<1>20. [Pipe!Next]_(Pipe!vars)
  <2>1. CASE qr = pr
    <3>1. Seen(Client)' = Seen(Client) /\ Seen(Server)' = Seen(Server)
      BY <1>1, <1>15, <1>16, <2>1, EndsAre
    <3> QED
      BY <3>1, SeenStays
  <2>2. CASE HearsEnd(pr, Seen(o), qr)
    <3>1. Seen(e) \in Program /\ Seen(Other(e)) \in Program /\ Seen(Other(e))' = Seen(Other(e))
      BY <1>1, <1>2, <1>15, <1>16
    <3>2. HearsEnd(Seen(e), Seen(Other(e)), Seen(e)')
      BY <1>16, <2>2
    <3> HIDE DEF o, c, y, pr, py, z
    <3> QED
      BY <3>1, <3>2, SeenSteps
  <2> QED
    BY <1>18, <2>1, <2>2
<1> QED
  BY <1>19, <1>20

LEMMA ReceiveEndStep ==
  ASSUME IInv, Agree, NEW e \in Ends, ReceiveEnd(e)
  PROVE  Agree' /\ [Pipe!Next]_(Pipe!vars)
<1> DEFINE c == ch[e]
           pr == prog[e]
           p == Waiting(e)[1]
<1>1. Typed /\ prog \in [Ends -> Program] /\ pr \in Program
  BY EndFacts
<1>2. Waiting(e) # <<>> /\ c.st = "open"
  BY DEF ReceiveEnd, HeadIs
<1>3. Head(Waiting(e)) = p
  BY <1>1, <1>2, WaitingIs
<1>4. before' = before /\ opens' = opens /\ answered' = answered
  BY DEF ReceiveEnd, Counters
<1>5. \/ p.type = "EOF" /\ ShowsEnd(e, c.backlog = 0) /\ Handled(e, GotEof(c))
      \/ p.type = "CLOSE" /\ ShowsEnd(e, TRUE) /\ Handled(e, GotClose(c))
  BY <1>3 DEF ReceiveEnd, HeadIs
<1>6. CASE p.type = "EOF" /\ ShowsEnd(e, c.backlog = 0) /\ Handled(e, GotEof(c))
  <2> DEFINE qr == [pr EXCEPT !.sawEnd = @ \/ (c.backlog = 0 /\ ~c.zombie)]
  <2>1. prog' = [prog EXCEPT ![e] = qr]
    BY <1>1, <1>6 DEF ShowsEnd
  <2>2. Takes(c, p, GotEof(c))
    BY <1>6, Zenon DEF Takes
  <2>3. Told(c, p, GotEof(c), pr, qr)
    BY <1>6, Zenon DEF Told
  <2> HIDE DEF qr, p
  <2> QED
    BY <1>2, <1>4, <1>6, <2>1, <2>2, <2>3, TakesStep DEF p
<1>7. CASE p.type = "CLOSE" /\ ShowsEnd(e, TRUE) /\ Handled(e, GotClose(c))
  <2> DEFINE qr == [pr EXCEPT !.sawEnd = @ \/ ~c.zombie]
  <2>1. prog' = [prog EXCEPT ![e] = qr]
    <3>1. prog' = [prog EXCEPT ![e].sawEnd = @ \/ ~c.zombie]
      BY <1>1, <1>7 DEF ShowsEnd
    <3> QED
      BY <1>1, <3>1
  <2>2. ShownEnd(c, pr, qr)
    BY DEF ShownEnd
  <2> HIDE DEF qr, p
  <2> QED
    BY <1>2, <1>4, <1>7, <2>1, <2>2, CloseStep DEF p
<1> QED
  BY <1>5, <1>6, <1>7

LEMMA AcceptStep ==
  ASSUME IInv, Agree, Accept
  PROVE  Agree' /\ [Pipe!Next]_(Pipe!vars)
<1> DEFINE c == ch[Client]
           s == ch[Server]
           f == Fresh(c)
           d == Push(f, "CHANNEL_OPEN", WinSize)
<1>1. /\ ch \in [Ends -> Channel] /\ prog \in [Ends -> Program] /\ c \in Channel
      /\ opens \in Nat /\ answered \in Nat
  BY EndFacts, EndsAre, SshAssumption DEF Typed
<1>2. /\ c.st = "none" /\ opens' = opens + 1 /\ answered' = answered
      /\ prog' = [prog EXCEPT ![Client] = Newcomer] /\ before' = prog[Client]
  BY DEF Accept
<1>3. ch' = [ch EXCEPT ![Client] = d]
  BY <1>1, EndsAre DEF Accept
<1>4. opens = answered
  <2>1. Related(c, s, opens # answered)
    BY DEF IInv, Situation
  <2> QED
    BY <1>2, <2>1 DEF Related, Asking
<1>5. d \in Channel /\ d.st = "halfopen" /\ Own(d, Newcomer)
  <2>1. c.throttled \in BOOLEAN /\ c.tx \in Queue /\ WinSize \in Nat /\ "CHANNEL_OPEN" \in PacketTypes
    BY <1>1, ChannelType, SshAssumption DEF PacketTypes
  <2>2. /\ f \in Channel /\ f.st = "halfopen" /\ f.closes = {} /\ ~f.zombie
        /\ f.out = 0 /\ f.sent = 0 /\ f.frozen /\ f.backlog = 0
    BY <2>1, FreshIs
  <2> HIDE DEF f
  <2>3. d \in Channel /\ SameButTx(f, d)
    BY <2>1, <2>2, PushFields, Zenon
  <2> HIDE DEF d
  <2>4. /\ d.st = "halfopen" /\ d.closes = {} /\ ~d.zombie /\ d.out = 0 /\ d.sent = 0 /\ d.frozen
        /\ d.backlog = 0
    BY <2>2, <2>3 DEF SameButTx
  <2>5. Own(d, Newcomer)
    BY <2>4 DEF Own, Newcomer
  <2> QED
    BY <2>3, <2>4, <2>5
<1> HIDE DEF d
<1>6. /\ ch'[Client] = d /\ ch'[Server] = s
      /\ prog'[Client] = Newcomer /\ prog'[Server] = prog[Server]
  BY <1>1, <1>2, <1>3, <1>5, EndsAre
<1>7. opens' # answered'
  BY <1>1, <1>2, <1>4
<1>8. ~Both /\ ~Both'
  BY <1>2, <1>7, EndsAre DEF Both
<1>9. Seen(Client)' = Seen(Client) /\ Seen(Server)' = Seen(Server)
  BY <1>2, <1>4, <1>6, <1>7, EndsAre DEF Seen
<1>10. \A e \in Ends : ch'[e].st # "none" => Own(ch'[e], prog'[e])
  <2>1. s.st # "none" => Own(s, prog[Server])
    BY EndsAre DEF Agree
  <2> QED
    BY <1>5, <1>6, <2>1, EndsAre
<1>11. Over(Seen(Client)', Seen(Server)')
  BY <1>8, <1>9 DEF Agree
<1>12. \A e \in Ends : ch'[e].st # "open" => Shut(Seen(e)')
  BY <1>2, <1>6, <1>8, <1>9, EndsAre DEF Agree
<1>13. \A e \in Ends : ch'[e].st = "open" => Heard(ch'[e], prog'[e], Seen(Other(e))')
  <2>1. s.st = "open" => Heard(s, prog[Server], Seen(Client))
    BY EndsAre DEF Agree
  <2> QED
    BY <1>5, <1>6, <1>9, <2>1, EndsAre
<1> QED
  BY <1>8, <1>9, <1>10, <1>11, <1>12, <1>13, ApartStep, SeenStays

\* What a request that is answered with a channel makes of the two ends.
LEMMA OpenedOwn ==
  ASSUME NEW c \in Channel, NEW pr \in Program, Own(c, pr), Local(c, pr), c.st = "halfopen",
         c.tx = <<Packet("CHANNEL_OPEN", WinSize)>>,
         NEW s \in Channel, s.tx = <<>>, NEW d, d = GotOpen(s, c.tx[1])
  PROVE  /\ d \in Channel /\ d.st = "open" /\ Own(d, Newcomer)
         /\ Given(Taken(c), d, Newcomer) /\ Given(d, Taken(c), pr)
         /\ d.closes = {}
<1> DEFINE f == Fresh(s)
           n == c.tx[1].n
           m == [f EXCEPT !.st = "open", !.ready = TRUE, !.frozen = FALSE, !.remwindow = n]
           p == Packet("OPEN_CONFIRMATION", WinSize)
           z == Taken(c)
<1>1. WinSize \in Nat /\ "OPEN_CONFIRMATION" \in PacketTypes
  BY SshAssumption DEF PacketTypes
<1>2. n = WinSize /\ c.tx # <<>> /\ Tail(c.tx) = <<>>
  BY DEF Packet
<1>3. d = Push(m, "OPEN_CONFIRMATION", WinSize)
  BY <1>2, Zenon DEF GotOpen
<1>4. /\ f \in Channel /\ f.tx = <<>> /\ f.closes = {} /\ ~f.zombie /\ f.out = 0 /\ f.sent = 0
      /\ f.backlog = 0
  <2>1. s.throttled \in BOOLEAN /\ s.tx \in Queue
    BY ChannelType
  <2> QED
    BY <2>1, FreshIs
<1> HIDE DEF f, n
<1>5. /\ m \in Channel /\ m.st = "open" /\ m.tx = <<>> /\ m.closes = {} /\ m.out = 0 /\ m.sent = 0
      /\ m.backlog = 0
  BY <1>1, <1>2, <1>4 DEF Channel
<1>6. ~m.zombie /\ m.ready
  BY <1>4 DEF Channel
<1> HIDE DEF m, z
<1>7. /\ p \in PacketSet /\ p.type = "OPEN_CONFIRMATION"
      /\ Push(m, "OPEN_CONFIRMATION", WinSize) \in Channel
      /\ Push(m, "OPEN_CONFIRMATION", WinSize).tx = m.tx \o <<p>>
      /\ SameButTx(m, Push(m, "OPEN_CONFIRMATION", WinSize))
  <2> DEFINE e == Push(m, "OPEN_CONFIRMATION", WinSize)
  <2>1. p \in PacketSet /\ p.type = "OPEN_CONFIRMATION"
    BY <1>1 DEF Packet, PacketSet
  <2>2. e \in Channel /\ SameButTx(m, e)
    BY <1>1, <1>5, PushFields, Zenon
  <2>3. e.tx = Append(m.tx, p)
    BY <1>5 DEF Push, Channel
  <2> HIDE DEF e, p
  <2>4. e.tx = m.tx \o <<p>>
    <3>1. Append(<<>>, p) = <<>> \o <<p>>
      BY <2>1
    <3> QED
      BY <1>5, <2>3, <3>1
  <2> QED
    BY <2>1, <2>2, <2>4 DEF e
<1> HIDE DEF p
<1>8. d \in Channel /\ d.tx = m.tx \o <<p>> /\ SameButTx(m, d)
  BY <1>3, <1>7
<1>9. d.tx = <<p>>
  <2>1. d.tx = <<>> \o <<p>>
    BY <1>5, <1>8
  <2> QED
    BY <1>7, <2>1
<1>10. /\ d.st = "open" /\ d.closes = {} /\ d.out = 0 /\ d.sent = 0 /\ ~d.zombie /\ d.ready
       /\ d.backlog = 0
  BY <1>5, <1>6, <1>8 DEF SameButTx
<1>11. Own(d, Newcomer)
  BY <1>10 DEF Own, Newcomer
<1>12. z.tx = <<>> /\ z.sent = 0 /\ z.backlog = 0
  <2>1. z.tx = Tail(c.tx) /\ z.sent = c.sent
    BY <1>2, TakenType DEF z
  <2>2. z.backlog = c.backlog
    BY DEF z, Taken, Channel
  <2> QED
    BY <1>2, <2>1, <2>2 DEF Own, Local
<1>13. Given(z, d, Newcomer)
  <2>1. Newcomer.got + d.backlog + 0 = z.sent /\ 0 \in Nat
    BY <1>10, <1>12 DEF Newcomer
  <2>2. Adds(z.tx, "data", 0)
    BY <1>12, NothingAdds
  <2> QED
    BY <2>1, <2>2 DEF Given
<1>14. Given(d, z, pr)
  <2>1. pr.got + z.backlog + 0 = d.sent /\ 0 \in Nat
    BY <1>10, <1>12 DEF Own
  <2>2. Adds(d.tx, "data", 0)
    <3>1. Weighs("data", p) = 0
      BY <1>7 DEF Weighs
    <3> QED
      BY <1>7, <1>9, <3>1, AddsOne
  <2> QED
    BY <2>1, <2>2 DEF Given
<1> QED
  BY <1>8, <1>10, <1>11, <1>13, <1>14 DEF z

LEMMA ReceiveOpenStep ==
  ASSUME IInv, Agree, ReceiveOpen
  PROVE  Agree' /\ [Pipe!Next]_(Pipe!vars)
<1> DEFINE c == ch[Client]
           s == ch[Server]
           pr == prog[Client]
           asked == opens # answered
<1>1. /\ Typed /\ prog \in [Ends -> Program] /\ c \in Channel /\ s \in Channel /\ pr \in Program
      /\ opens \in Nat /\ answered \in Nat /\ asked \in BOOLEAN
      /\ opens = answered \/ opens = answered + 1
  BY EndFacts, EndsAre, SshAssumption DEF Typed, IInv
<1>2. /\ opens' = opens /\ answered' = answered + 1
      /\ prog' = [prog EXCEPT ![Server] = Newcomer] /\ before' = Newcomer
  BY DEF ReceiveOpen
<1>3. Waiting(Server) = c.tx /\ c.tx # <<>> /\ s.st = "none"
  BY EndsAre DEF Waiting, HeadIs, ReceiveOpen
<1>4. Head(Waiting(Server)) = c.tx[1]
  BY <1>1, <1>3, EndsAre, WaitingIs
<1>5. /\ asked /\ c.st = "halfopen" /\ s.tx = <<>>
      /\ c.tx = <<Packet("CHANNEL_OPEN", WinSize)>>
  <2>1. Related(c, s, asked)
    BY DEF IInv, Situation
  <2> HIDE DEF asked, c, s
  <2> QED
    BY <1>1, <1>3, <2>1, ServerAsked
<1>6. opens' = answered'
  BY <1>1, <1>2, <1>5
<1>7. Own(c, pr) /\ Local(c, pr)
  BY <1>5, EndFacts, EndsAre DEF Agree
<1>8. Taken(c) \in Channel /\ Taken(c).st = "halfopen" /\ Own(Taken(c), pr)
  BY <1>1, <1>3, <1>5, <1>7, TakenType, TakenOwn
<1>9. /\ prog'[Client] = pr /\ prog'[Server] = Newcomer
  BY <1>1, <1>2, EndsAre
<1>10. Over(Seen(Client), Seen(Server)) /\ Shut(Seen(Client)) /\ Shut(Seen(Server))
  BY <1>3, <1>5, EndsAre DEF Agree, Both
<1>11. ASSUME NEW d \in Channel, Handled(Server, d)
       PROVE  /\ ch'[Server] = d /\ ch'[Client] = Taken(c)
              /\ Seen(Client)' = Newcomer /\ Seen(Server)' = Newcomer
              /\ [Pipe!Next]_(Pipe!vars)
  <2>1. ch'[Server] = d /\ ch'[Client] = Taken(c)
    BY <1>1, <1>3, <1>11, HandledIs, EndsAre
  <2>2. Seen(Client)' = Newcomer /\ Seen(Server)' = Newcomer
    BY <1>6, <1>8, <1>9, <2>1, EndsAre DEF Seen
  <2> QED
    BY <1>10, <2>1, <2>2, SeenRenews
<1>12. CASE Handled(Server, GotOpen(s, c.tx[1]))
  <2> DEFINE d == GotOpen(s, c.tx[1])
  <2>1. /\ d \in Channel /\ d.st = "open" /\ Own(d, Newcomer)
        /\ Given(Taken(c), d, Newcomer) /\ Given(d, Taken(c), pr)
        /\ d.closes = {}
    BY <1>1, <1>5, <1>7, OpenedOwn
  <2>2. Handled(Server, d)
    BY <1>12
  <2> HIDE DEF d
  <2>3. /\ ch'[Server] = d /\ ch'[Client] = Taken(c)
        /\ [Pipe!Next]_(Pipe!vars)
    BY <1>11, <2>1, <2>2
  <2> HIDE DEF c, s, pr
  <2>4. \A e \in Ends : ch'[e].st # "none" => Own(ch'[e], prog'[e])
    BY <1>8, <1>9, <2>1, <2>3, EndsAre
  <2>5. \A e \in Ends : Given(ch'[Other(e)], ch'[e], prog'[e])
    BY <1>9, <2>1, <2>3, EndsAre
  <2>6. Both'
    BY <1>6, <1>8, <2>1, <2>3, EndsAre DEF Both
  <2>7. \A e \in Ends : ch'[e].st = "open" => Heard(ch'[e], prog'[e], Seen(Other(e))')
    BY <1>8, <2>1, <2>3, EndsAre DEF Heard
  <2> QED
    BY <2>3, <2>4, <2>5, <2>6, <2>7 DEF Agree
<1>13. CASE Handled(Server, Push(s, "OPEN_FAILURE", 0))
  <2> DEFINE d == Push(s, "OPEN_FAILURE", 0)
  <2>1. d \in Channel /\ d.st = "none"
    <3>1. "OPEN_FAILURE" \in PacketTypes /\ 0 \in Nat
      BY DEF PacketTypes
    <3>2. d \in Channel /\ SameButTx(s, d)
      BY <1>1, <3>1, PushFields, Zenon
    <3> QED
      BY <1>3, <3>2 DEF SameButTx
  <2>2. Handled(Server, d)
    BY <1>13
  <2> HIDE DEF d
  <2>3. /\ ch'[Server] = d /\ ch'[Client] = Taken(c)
        /\ Seen(Client)' = Newcomer /\ Seen(Server)' = Newcomer
        /\ [Pipe!Next]_(Pipe!vars)
    BY <1>11, <2>1, <2>2
  <2> HIDE DEF c, s, pr
  <2>4. \A e \in Ends : ch'[e].st # "none" => Own(ch'[e], prog'[e])
    BY <1>8, <1>9, <2>1, <2>3, EndsAre
  <2>5. ~Both'
    BY <2>1, <2>3, EndsAre DEF Both
  <2>6. Over(Seen(Client)', Seen(Server)')
    BY <2>3 DEF Over
  <2>7. \A e \in Ends : ch'[e].st # "open" /\ Shut(Seen(e)')
    BY <1>8, <2>1, <2>3, EndsAre DEF Shut
  <2> QED
    BY <2>3, <2>4, <2>5, <2>6, <2>7, ApartStep
<1>14. Handled(Server, GotOpen(s, c.tx[1])) \/ Handled(Server, Push(s, "OPEN_FAILURE", 0))
  BY <1>4 DEF ReceiveOpen
<1> QED
  BY <1>12, <1>13, <1>14

\* A program whose channel is not yet confirmed has done nothing, but its socket may have broken.
LEMMA NewcomerBreaks ==
  ASSUME NEW c \in Channel, NEW pr \in Program, Own(c, pr), c.st = "halfopen"
  PROVE  pr = Newcomer \/ Breaks(Newcomer, pr)
<1>1. pr.wrote = 0 /\ pr.got = 0 /\ ~pr.ended /\ ~pr.sawEnd
  BY DEF Own
<1>2. CASE pr.broken
  <2> DEFINE r == [Newcomer EXCEPT !.broken = TRUE]
  <2>1. r \in Program /\ r.wrote = 0 /\ r.got = 0 /\ ~r.ended /\ ~r.sawEnd /\ r.broken
    BY DEF Program, Newcomer
  <2> HIDE DEF r
  <2>2. pr = r
    BY <1>1, <1>2, <2>1 DEF Program
  <2> QED
    BY <2>2 DEF Breaks, Newcomer, r
<1>3. CASE ~pr.broken
  BY <1>1, <1>3 DEF Program, Newcomer
<1> QED
  BY <1>2, <1>3

\* The answer reaches the client: what its program did meanwhile comes to light.
LEMMA ShownStep ==
  ASSUME IInv, Agree, ch[Client].st = "halfopen", opens = answered, ch'[Client].st # "halfopen",
         prog' = prog, before' = before, opens' = opens, answered' = answered
  PROVE  /\ Seen(Client) = Newcomer /\ Seen(Client)' = prog[Client] /\ Seen(Server)' = Seen(Server)
         /\ prog[Client] = Newcomer \/ Breaks(Newcomer, prog[Client])
         /\ [Pipe!Next]_(Pipe!vars)
<1>1. /\ ch[Client] \in Channel /\ prog[Client] \in Program
      /\ Seen(Client) \in Program /\ Seen(Server) \in Program
  BY EndFacts, EndsAre
<1>2. Seen(Client) = Newcomer /\ Seen(Client)' = prog[Client] /\ Seen(Server)' = Seen(Server)
  BY EndsAre DEF Seen
<1>3. Own(ch[Client], prog[Client])
  BY EndsAre DEF Agree
<1>4. prog[Client] = Newcomer \/ Breaks(Newcomer, prog[Client])
  BY <1>1, <1>3, NewcomerBreaks
<1>5. CASE prog[Client] = Newcomer
  BY <1>2, <1>4, <1>5, SeenStays
<1>6. CASE Breaks(Newcomer, prog[Client])
  <2>1. Breaks(Seen(Client), Seen(Client)')
    BY <1>2, <1>6
  <2>2. /\ Client \in Ends /\ Seen(Other(Client))' = Seen(Other(Client))
        /\ Seen(Other(Client)) \in Program
    BY <1>1, <1>2, EndsAre
  <2>3. [Pipe!Next]_(Pipe!vars)
    BY <1>1, <2>1, <2>2, SeenSteps
  <2> QED
    BY <1>2, <1>4, <2>3
<1> QED
  BY <1>4, <1>5, <1>6

LEMMA ConfirmationStep ==
  ASSUME IInv, Agree, ReceiveOpenConfirmation
  PROVE  Agree' /\ [Pipe!Next]_(Pipe!vars)
<1> DEFINE c == ch[Client]
           s == ch[Server]
           pr == prog[Client]
           ps == prog[Server]
           p == s.tx[1]
           d == GotOpenConfirmation(c, p)
           z == Taken(s)
<1>1. /\ Typed /\ c \in Channel /\ s \in Channel /\ pr \in Program /\ ps \in Program
      /\ c.st # "none" => Local(c, pr)
  BY EndFacts, EndsAre
<1>2. prog' = prog /\ before' = before /\ opens' = opens /\ answered' = answered
  BY DEF ReceiveOpenConfirmation, Counters
<1>3. Waiting(Client) = s.tx /\ s.tx # <<>> /\ c.st = "halfopen"
  BY EndsAre DEF Waiting, HeadIs, ReceiveOpenConfirmation
<1>4. Head(Waiting(Client)) = p /\ p \in PacketSet
  BY <1>1, <1>3, EndsAre, WaitingIs
<1>5. p.type = "OPEN_CONFIRMATION" /\ Handled(Client, d)
  BY <1>4 DEF ReceiveOpenConfirmation, HeadIs
<1>6. opens = answered /\ s.st # "none"
  <2>1. Related(c, s, opens # answered)
    BY DEF IInv, Situation
  <2>2. ~Refused(c, s)
    BY <1>5 DEF Refused, Packet
  <2>3. ~Asking(c, s) /\ ~Idle(c, s) /\ ~ClientLeft(c, s) /\ ~ServerLeft(c, s)
    BY <1>3 DEF Asking, Idle, ClientLeft, ServerLeft, Left
  <2> QED
    BY <2>1, <2>2, <2>3 DEF Related, Talking
<1>7. Both
  BY <1>3, <1>6, EndsAre DEF Both
<1>8. /\ Own(c, pr) /\ Own(s, ps) /\ Given(s, c, pr) /\ Given(c, s, ps)
  BY <1>3, <1>6, <1>7, EndsAre DEF Agree
<1> HIDE DEF p
<1>9. /\ d \in Channel /\ d.st = "open" /\ d.zombie = c.zombie /\ Own(d, pr) /\ Carries(c, d)
      /\ d.backlog = c.backlog /\ "RCVD_EOF" \notin d.closes
  BY <1>1, <1>3, <1>4, <1>8, ConfirmationOwn
<1> HIDE DEF d
<1>10. /\ z \in Channel /\ z.st = s.st /\ Own(z, ps) /\ z.zombie = s.zombie
       /\ z.closes = s.closes /\ z.backlog = s.backlog
  BY <1>1, <1>3, <1>8, TakenType, TakenOwn
<1>11. ch'[Client] = d /\ ch'[Server] = z
  BY <1>1, <1>3, <1>5, <1>9, HandledIs, EndsAre
<1>12. Given(z, d, pr)
  <2>1. pr.got + d.backlog = pr.got + c.backlog + Weighs("data", s.tx[1])
    <3>1. Weighs("data", s.tx[1]) = 0
      BY <1>5 DEF Weighs, p
    <3>2. pr.got \in Nat /\ c.backlog \in Nat
      BY <1>1, ChannelType, ProgramType
    <3> QED
      BY <1>9, <3>1, <3>2
  <2> QED
    BY <1>1, <1>3, <1>8, <1>9, <2>1, GivenTakes
<1>13. Given(d, z, ps)
  <2>1. Linked(c, s)
    BY <1>7, BothTalk, EndsAre
  <2>2. "SENT_EOF" \notin c.closes => NoEof(c.tx)
    BY <1>1, <2>1, EofIsSent
  <2> QED
    BY <1>1, <1>8, <1>9, <1>10, <2>2, GivenSends
<1>14. [Pipe!Next]_(Pipe!vars)
  <2>1. ch'[Client].st # "halfopen"
    BY <1>9, <1>11
  <2> QED
    BY <1>2, <1>3, <1>6, <2>1, ShownStep
<1>15. "RCVD_EOF" \notin z.closes
  <2>1. Linked(c, s)
    BY <1>7, BothTalk, EndsAre
  <2>2. c.closes = {}
    BY <1>1, <1>3 DEF Local
  <2> QED
    BY <1>1, <1>10, <2>1, <2>2, EofIsSent
<1> HIDE DEF c, s, pr, ps, z
<1>16. \A e \in Ends : ch'[e].st # "none" => Own(ch'[e], prog'[e])
  BY <1>2, <1>9, <1>10, <1>11, EndsAre DEF pr, ps
<1>17. \A e \in Ends : Given(ch'[Other(e)], ch'[e], prog'[e])
  BY <1>2, <1>11, <1>12, <1>13, EndsAre DEF pr, ps
<1>18. \A e \in Ends : Heard(ch'[e], prog'[e], Seen(Other(e))')
  BY <1>9, <1>11, <1>15, EndsAre DEF Heard
<1>19. Both'
  BY <1>2, <1>6, <1>9, <1>10, <1>11, EndsAre DEF Both
<1> QED
  BY <1>14, <1>16, <1>17, <1>18, <1>19 DEF Agree

LEMMA FailureStep ==
  ASSUME IInv, Agree, ReceiveOpenFailure
  PROVE  Agree' /\ [Pipe!Next]_(Pipe!vars)
<1> DEFINE c == ch[Client]
           s == ch[Server]
           pr == prog[Client]
           p == s.tx[1]
           d == Destroyed(c)
<1>1. Typed /\ c \in Channel /\ s \in Channel
  BY EndFacts, EndsAre
<1>2. prog' = prog /\ before' = before /\ opens' = opens /\ answered' = answered
  BY DEF ReceiveOpenFailure, Counters
<1>3. Waiting(Client) = s.tx /\ s.tx # <<>> /\ c.st = "halfopen"
  BY EndsAre DEF Waiting, HeadIs, ReceiveOpenFailure
<1>4. Head(Waiting(Client)) = p
  BY <1>1, <1>3, EndsAre, WaitingIs
<1>5. p.type = "OPEN_FAILURE" /\ Handled(Client, d)
  BY <1>4 DEF ReceiveOpenFailure, HeadIs
<1>6. opens = answered /\ s.st = "none"
  <2>1. Related(c, s, opens # answered)
    BY DEF IInv, Situation
  <2>2. ~Talking(c, s)
    <3> SUFFICES ASSUME Talking(c, s) PROVE FALSE
      OBVIOUS
    <3>1. s.tx[1].type \notin {"CHANNEL_OPEN", "OPEN_FAILURE"}
      BY <1>1, <1>3, LinkedHead, Zenon DEF Talking
    <3> QED
      BY <1>5, <3>1
  <2>3. ~Asking(c, s) /\ ~Idle(c, s) /\ ~ClientLeft(c, s) /\ ~ServerLeft(c, s)
    BY <1>3 DEF Asking, Idle, ClientLeft, ServerLeft, Left
  <2> QED
    BY <2>1, <2>2, <2>3 DEF Related, Refused
<1>7. d \in Channel /\ d.st = "none"
  <2>1. c.throttled \in BOOLEAN /\ c.tx \in Queue
    BY <1>1, ChannelType
  <2> QED
    BY <2>1, DestroyedIs
<1> HIDE DEF d
<1>8. ch'[Client] = d /\ ch'[Server] = Taken(s) /\ Taken(s).st = "none"
  BY <1>1, <1>3, <1>5, <1>6, <1>7, HandledIs, TakenType, EndsAre
<1>9. ~Both /\ ~Both'
  BY <1>6, <1>7, <1>8, EndsAre DEF Both
<1>10. /\ Seen(Client) = Newcomer /\ Seen(Client)' = pr /\ Seen(Server)' = Seen(Server)
       /\ pr = Newcomer \/ Breaks(Newcomer, pr)
       /\ [Pipe!Next]_(Pipe!vars)
  <2>1. ch'[Client].st # "halfopen"
    BY <1>7, <1>8
  <2> QED
    BY <1>2, <1>3, <1>6, <2>1, ShownStep
<1>11. Over(Seen(Client)', Seen(Server)')
  <2>1. Over(Newcomer, Seen(Server))
    BY <1>9, <1>10 DEF Agree
  <2>2. Breaks(Newcomer, pr) => pr.broken
    BY DEF Breaks, Newcomer
  <2> HIDE DEF pr
  <2> QED
    BY <1>10, <2>1, <2>2 DEF Over
<1>12. \A e \in Ends : ch'[e].st = "none"
  BY <1>7, <1>8, EndsAre
<1>13. Shut(Seen(Client)')
  <2>1. Breaks(Newcomer, pr) => pr.broken
    BY DEF Breaks, Newcomer
  <2> HIDE DEF pr
  <2> QED
    BY <1>10, <2>1 DEF Shut
<1>14. Shut(Seen(Server)')
  <2>1. Shut(Seen(Server))
    BY <1>6, <1>9, EndsAre DEF Agree
  <2> QED
    BY <1>10, <2>1
<1> QED
  BY <1>9, <1>10, <1>11, <1>12, <1>13, <1>14, EndsAre, ApartStep

LEMMA AgreeStep ==
  ASSUME BackupAnytime = FALSE, IInv, Agree, Next
  PROVE  Agree' /\ [Pipe!Next]_(Pipe!vars)
<1>1. CASE Accept
  BY <1>1, AcceptStep
<1>2. CASE ThrottleAll \/ UnthrottleAll
  BY <1>2, ThrottleStep
<1>3. ASSUME NEW e \in Ends, SocketData(e) \/ SocketEof(e) \/ SocketError(e) \/ SocketSent(e)
      PROVE  Agree' /\ [Pipe!Next]_(Pipe!vars)
  BY <1>3, SocketStep
<1>4. ASSUME NEW e \in Ends, Receive(e)
      PROVE  Agree' /\ [Pipe!Next]_(Pipe!vars)
  <2>1. CASE ReceiveOpen
    BY <2>1, ReceiveOpenStep
  <2>2. CASE ReceiveOpenConfirmation
    BY <2>2, ConfirmationStep
  <2>3. CASE ReceiveOpenFailure
    BY <2>3, FailureStep
  <2>4. CASE ReceiveData(e)
    BY <2>4, ReceiveDataStep
  <2>5. CASE ReceiveControl(e)
    BY <2>5, ReceiveControlStep
  <2>6. CASE ReceiveEnd(e)
    BY <2>6, ReceiveEndStep
  <2> QED
    BY <1>4, <2>1, <2>2, <2>3, <2>4, <2>5, <2>6 DEF Receive
<1> QED
  BY <1>1, <1>2, <1>3, <1>4 DEF Next

LEMMA AgreeStutter ==
  ASSUME Agree, UNCHANGED vars
  PROVE  Agree' /\ [Pipe!Next]_(Pipe!vars)
<1>1. ch' = ch /\ prog' = prog /\ before' = before /\ opens' = opens /\ answered' = answered
  BY DEF vars
<1>2. Seen(Client)' = Seen(Client) /\ Seen(Server)' = Seen(Server)
  BY <1>1 DEF Seen
<1>3. Agree'
  <2>1. Both' <=> Both
    BY <1>1 DEF Both
  <2>2. \A e \in Ends : Seen(e)' = Seen(e) /\ Other(e) \in Ends
    BY <1>2, EndsAre
  <2>3. \A e \in Ends : Seen(Other(e))' = Seen(Other(e))
    BY <1>2, EndsAre
  <2> QED
    BY <1>1, <1>2, <2>1, <2>2, <2>3 DEF Agree
<1> QED
  BY <1>2, <1>3, SeenStays

LEMMA AgreeInit == Init => Agree /\ Pipe!Init
<1> SUFFICES ASSUME Init PROVE Agree /\ Pipe!Init
  OBVIOUS
<1> DEFINE d == Destroyed([throttled |-> FALSE, tx |-> <<>>])
<1>1. /\ ch = [e \in Ends |-> d] /\ prog = [e \in Ends |-> Newcomer] /\ before = Newcomer
      /\ opens = 0 /\ answered = 0
  BY DEF Init
<1>2. d.st = "none"
  BY DEF Destroyed, Fresh
<1> HIDE DEF d
<1>3. \A e \in Ends : ch[e].st = "none"
  BY <1>1, <1>2
<1>4. \A e \in Ends : Seen(e) = Newcomer
  BY <1>1, <1>3, EndsAre DEF Seen
<1>5. Agree
  <2>1. ~Both
    BY <1>3, EndsAre DEF Both
  <2>2. Over(Seen(Client), Seen(Server)) /\ \A e \in Ends : Shut(Seen(e))
    BY <1>4, EndsAre DEF Over, Shut
  <2> QED
    BY <1>3, <2>1, <2>2 DEF Agree
<1>6. /\ Newcomer.wrote = 0 /\ Newcomer.got = 0
      /\ Newcomer.ended = FALSE /\ Newcomer.sawEnd = FALSE /\ Newcomer.broken = FALSE
  BY DEF Newcomer
<1>7. /\ Wrote = [x \in Ends |-> 0] /\ Got = [x \in Ends |-> 0]
      /\ Ended = [x \in Ends |-> FALSE] /\ SawEnd = [x \in Ends |-> FALSE]
      /\ Broken = [x \in Ends |-> FALSE]
  BY <1>4, <1>6 DEF Wrote, Got, Ended, SawEnd, Broken
<1>8. Pipe!Init
  BY <1>7, Zenon DEF Pipe!Init, Pipe!Zero, Pipe!No, Wrote, Got, Ended, SawEnd, Broken
<1> QED
  BY <1>5, <1>8

\* While a channel waits for its confirmation nothing is read, and from then on every byte is
\* sent or waits: so it is as long as the connection does not back up just then.
LEMMA AgreeInvariance ==
  ASSUME BackupAnytime = FALSE
  PROVE  Spec => [](IInv /\ Agree) /\ [][Pipe!Next]_(Pipe!vars)
<1>1. IInv /\ [Next]_vars => IInv'
  BY IInvStep, IInvStutter
<1>2. IInv /\ Agree /\ [Next]_vars => Agree' /\ [Pipe!Next]_(Pipe!vars)
  BY AgreeStep, AgreeStutter
<1>3. Init => IInv /\ Agree
  BY IInvInit, AgreeInit
<1> QED
  BY <1>1, <1>2, <1>3, PTL DEF Spec

-----------------------------------------------------------------------------
(* Theorems                                                                 *)

\* Every field keeps its type, whatever the programs, the sockets and the network do: no
\* window, buffer or backlog goes below zero, and the client is never more than one request
\* ahead of the server (ssh2connection.h, ssh2_try_send()).
THEOREM TypesKept == Spec => []TypeOK
<1>1. IInv => TypeOK
  BY DEF IInv
<1> QED
  BY <1>1, Invariance, PTL

\* No packet meets a channel in a state in which ssh2_connection_filter_queue() would end the
\* connection: not when the number of a channel is used again while packets of the old one
\* are under way, and not when both ends close at once.
THEOREM NoErrors == Spec => []NoProtocolError
<1>1. ASSUME IInv PROVE NoProtocolError
  <2> DEFINE c == ch[Client]
             s == ch[Server]
             asked == opens # answered
  <2>1. /\ Typed /\ c \in Channel /\ s \in Channel /\ asked \in BOOLEAN /\ Related(c, s, asked)
    BY <1>1, TypeOKIs, EndsAre DEF IInv, Typed, Situation
  <2>2. ASSUME NEW e \in Ends, Waiting(e) # <<>>
        PROVE  LET type == Head(Waiting(e)).type
               IN /\ ch[e].st = CASE type = "CHANNEL_OPEN" -> "none"
                                  [] type \in {"OPEN_CONFIRMATION", "OPEN_FAILURE"} -> "halfopen"
                                  [] OTHER -> "open"
                  /\ type = "FAILURE" => ch[e].chanreqs # <<>>
                  /\ type \in {"DATA", "EOF"} => "RCVD_EOF" \notin ch[e].closes
    <3> DEFINE p == Waiting(e)[1]
               type == Head(Waiting(e)).type
    <3>1. Head(Waiting(e)) = p
      BY <2>1, <2>2, WaitingIs
    <3>2. /\ type = "CHANNEL_OPEN" => ch[e].st = "none"
          /\ type \in {"OPEN_CONFIRMATION", "OPEN_FAILURE"} => ch[e].st = "halfopen"
          /\ type \notin {"CHANNEL_OPEN", "OPEN_CONFIRMATION", "OPEN_FAILURE"} => ch[e].st = "open"
          /\ type = "FAILURE" => ch[e].chanreqs # <<>>
          /\ type \in {"DATA", "EOF"} => "RCVD_EOF" \notin ch[e].closes
      <4>1. CASE e = Client
        <5>1. s.tx # <<>> /\ type = s.tx[1].type /\ ch[e] = c
          BY <2>2, <3>1, <4>1, EndsAre DEF Waiting
        <5> HIDE DEF c, s, asked, p, type
        <5>2. /\ s.tx[1].type # "CHANNEL_OPEN"
              /\ s.tx[1].type \in {"OPEN_CONFIRMATION", "OPEN_FAILURE"} => c.st = "halfopen"
              /\ s.tx[1].type \notin {"OPEN_CONFIRMATION", "OPEN_FAILURE"} => c.st = "open"
              /\ s.tx[1].type = "FAILURE" => c.chanreqs # <<>>
              /\ s.tx[1].type \in {"DATA", "EOF"} => "RCVD_EOF" \notin c.closes
          BY <2>1, <5>1, ClientHead
        <5> QED
          BY <5>1, <5>2
      <4>2. CASE e = Server
        <5>1. c.tx # <<>> /\ type = c.tx[1].type /\ ch[e] = s
          BY <2>2, <3>1, <4>2, EndsAre DEF Waiting
        <5> HIDE DEF c, s, asked, p, type
        <5>2. /\ c.tx[1].type \notin {"OPEN_CONFIRMATION", "OPEN_FAILURE"}
              /\ c.tx[1].type = "CHANNEL_OPEN" => s.st = "none"
              /\ c.tx[1].type # "CHANNEL_OPEN" => s.st = "open"
              /\ c.tx[1].type = "FAILURE" => s.chanreqs # <<>>
              /\ c.tx[1].type \in {"DATA", "EOF"} => "RCVD_EOF" \notin s.closes
          BY <2>1, <5>1, ServerHead
        <5> QED
          BY <5>1, <5>2
      <4> QED
        BY <4>1, <4>2, EndsAre
    <3> HIDE DEF type
    <3>3. CASE type = "CHANNEL_OPEN"
      BY <3>2, <3>3, Zenon DEF type
    <3>4. CASE type \in {"OPEN_CONFIRMATION", "OPEN_FAILURE"} /\ type # "CHANNEL_OPEN"
      BY <3>2, <3>4, Zenon DEF type
    <3>5. CASE type # "CHANNEL_OPEN" /\ type \notin {"OPEN_CONFIRMATION", "OPEN_FAILURE"}
      BY <3>2, <3>5, Zenon DEF type
    <3> QED
      BY <3>3, <3>4, <3>5
  <2>3. ASSUME NEW e \in Ends, Readable(e)
        PROVE  "SENT_EOF" \notin ch[e].closes
    <3>1. Local(ch[e], prog[e])
      BY <1>1, <2>3, KeptIsLocal DEF IInv, Readable
    <3> QED
      BY <2>3, <3>1 DEF Local, Readable
  <2> QED
    BY <2>2, <2>3, Zenon DEF NoProtocolError
<1> QED
  BY <1>1, Invariance, PTL

\* ssh2_set_window() never grants more than what is left of the window beside the backlog, so
\* that a slow socket fills its window and no more.
THEOREM WindowKept == Spec => []WindowRespected
<1>1. ASSUME IInv PROVE WindowRespected
  <2>1. ASSUME NEW e \in Ends, ch[e].st = "open"
        PROVE  Local(ch[e], prog[e])
    BY <1>1, <2>1, KeptIsLocal DEF IInv
  <2> QED
    BY <2>1 DEF WindowRespected, Local
<1> QED
  BY <1>1, Invariance, PTL

\* Whatever order confirmations, throttling and EOF come in, an open channel that has no
\* reason to hold its socket back is reading from it (ssh2_channel_check_throttle()).
THEOREM NeverStuck == Spec => []NotStuckFrozen
<1>1. ASSUME IInv PROVE NotStuckFrozen
  <2>1. ASSUME NEW e \in Ends, ch[e].st = "open"
        PROVE  Local(ch[e], prog[e])
    BY <1>1, <2>1, KeptIsLocal DEF IInv
  <2> QED
    BY <2>1 DEF NotStuckFrozen, Local
<1> QED
  BY <1>1, Invariance, PTL

\* Forwarding a port is a pair of byte streams, whatever the two ends, their windows and their
\* sockets do: what a program reads is what the other one wrote, in its order and none of it
\* twice, and a program that keeps its own stream open is shown the end after the last byte,
\* unless the far socket broke. It is so as long as the client's connection does not back up
\* while a channel waits for its confirmation: then ssh_throttle_all() lets the socket be read
\* too early.
THEOREM PipeKept ==
  ASSUME BackupAnytime = FALSE
  PROVE  Spec => IsForwardedPipe
<1>1. Init => Pipe!Init
  BY AgreeInit
<1>2. Spec => [][Pipe!Next]_(Pipe!vars)
  BY AgreeInvariance, PTL
<1> QED
  BY <1>1, <1>2, PTL DEF IsForwardedPipe, Pipe!Spec, Spec

\* Under the same condition, every byte that is read from a program is sent or kept for the
\* window to open (ssh2channel_write(), ssh2_try_send()).
THEOREM NoneIsLost ==
  ASSUME BackupAnytime = FALSE
  PROVE  Spec => []NothingLost
<1>1. IInv /\ Agree => NothingLost
  BY DEF Agree, Own, NothingLost
<1> QED
  BY <1>1, AgreeInvariance, PTL
=============================================================================
