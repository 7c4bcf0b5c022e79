----------------------------- MODULE SshRekeyProofs -----------------------------
(***************************************************************************)
(* Theorems about SshRekey, for any number of packets, requests and        *)
(* changes of settings.                                                    *)
(*                                                                         *)
(* A step is seen as two halves: what its end sends (Sends), and what it   *)
(* takes from the packets that arrived (Takes). Each operator of the       *)
(* coroutine is shown to be such a pair of halves, and each property to    *)
(* survive both.                                                           *)
(*                                                                         *)
(* At the end, the order of the transport's packets: each end's stream is  *)
(* read by an automaton, whose stage is known at both ends of what is      *)
(* under way, by the places of the two coroutines.                         *)
(***************************************************************************)
EXTENDS SshRekey, SequenceTheorems, TLAPS

Packet == [type : PacketTypes, n : Nat]
WirePacket == [type : PacketTypes, n : Nat, key : Keys]
HeldPacket == [type : {"HIGHER"}, n : Nat]

Transport ==
  [pc : Places, calls : SUBSET {"in", "out"}, kex_in_progress : BOOLEAN,
   rekey_class : {"NONE", "NORMAL", "POST_USERAUTH"}, deferred : BOOLEAN, higher_ok : BOOLEAN,
   kexno : Nat, theirs : Nat, outkey : Keys, inkey : Keys, pending_newkeys : BOOLEAN,
   held : Seq(HeldPacket), in_pq : Seq(Packet), out_pq : Seq(Packet), wire : Seq(WirePacket),
   conf : Nat, used : Nat, sent : Nat, got : Nat]

\* What is not of the transport layer.
Rest ==
  /\ requests \in [Ends -> Nat] /\ changes \in 0..MaxChanges
  /\ stages \subseteq {"first", "login", "other"} /\ authed \in BOOLEAN

\* A packet without its key.
Plain(s) == [i \in DOMAIN s |-> [type |-> s[i].type, n |-> s[i].n]]

\* What c has sent that the far end has not decrypted, and what e has sent that the
\* coroutine at the far end has not taken.
Out(c) == Plain(c.wire) \o c.out_pq
Sent(e) == t[Other(e)].in_pq \o Out(t[e])

Key(n) == <<n, n>>
Bump(k) == <<k[1] + 1, k[2] + 1>>

-----------------------------------------------------------------------------
(* The inductive invariant                                                  *)

Before == {"askCrypto", "kex", "askKey"}
After == {"newkeys", "service", "run"}
Mid == {"askCrypto", "kex", "askKey", "newkeys"}

\* How far the two KEXINITs and the two keys of an end have come, by where its coroutine is.
Phase(c) ==
  /\ c.pc = "start" => c.kexno = 0 /\ c.theirs = 0
  /\ c.pc = "kexinit" => c.kexno = c.theirs + 1
  /\ c.pc \notin {"start", "kexinit"} => c.theirs = c.kexno
  /\ c.pc \in {"kexinit"} \cup Before => c.kexno > 0 /\ c.outkey = Key(c.kexno - 1) /\ c.inkey = c.outkey
  /\ c.pc = "newkeys" => c.kexno > 0 /\ c.outkey = Key(c.kexno) /\ c.inkey = Key(c.kexno - 1)
  /\ c.pc \in {"start", "service", "run"} => c.outkey = Key(c.kexno) /\ c.inkey = c.outkey

\* The higher layer's packets are held back in the order they came.
HeldInOrder(c) ==
  /\ Len(c.held) <= c.sent
  /\ \A i \in 1..Len(c.held) : c.held[i].n = c.sent - Len(c.held) + i

\* The BPP stops after a NEWKEYS, and only there.
Stopped(c) ==
  /\ c.pending_newkeys => c.in_pq # <<>> /\ c.in_pq[Len(c.in_pq)].type = "NEWKEYS"
  /\ \A i \in 1..Len(c.in_pq) :
       c.in_pq[i].type = "NEWKEYS" => c.pending_newkeys /\ i = Len(c.in_pq)

\* The key after the packet p.
KeyAfter(p) == IF p.type = "NEWKEYS" THEN Bump(p.key) ELSE p.key

\* Along the wire the key changes after each NEWKEYS, and what comes last is followed by
\* what is under the key that is in force.
Chain(c) ==
  /\ \A i \in 1..Len(c.wire) - 1 : c.wire[i + 1].key = KeyAfter(c.wire[i])
  /\ c.wire # <<>> => c.outkey = KeyAfter(c.wire[Len(c.wire)])
  /\ \A i \in 1..Len(c.out_pq) : c.out_pq[i].type # "NEWKEYS"

OldestKey(c) == IF c.wire = <<>> THEN c.outkey ELSE c.wire[1].key
NextInKey(c) == IF c.pending_newkeys THEN Bump(c.inkey) ELSE c.inkey

Keyed ==
  \A e \in Ends : Chain(t[e]) /\ Stopped(t[e]) /\ OldestKey(t[e]) = NextInKey(t[Other(e)])

Numbered ==
  \A e \in Ends :
    /\ InOrder(Sent(e), "KEXINIT", t[Other(e)].theirs, t[e].kexno)
    /\ InOrder(Sent(e), "HIGHER", t[Other(e)].got, t[e].sent - Len(t[e].held))

\* Between a KEXINIT and the higher layer's packets there is a NEWKEYS, and in an end that
\* has sent its own the last KEXINIT was followed by one. mid: the far end has the KEXINIT.
Quiet(s, mid) ==
  \A j \in 1..Len(s) : s[j].type = "HIGHER" =>
    /\ \A i \in 1..(j - 1) : s[i].type = "KEXINIT" =>
         \E k \in (i + 1)..(j - 1) : s[k].type = "NEWKEYS"
    /\ mid => \E k \in 1..(j - 1) : s[k].type = "NEWKEYS"

Closed(s, mid) ==
  /\ \A i \in 1..Len(s) : s[i].type = "KEXINIT" => \E k \in (i + 1)..Len(s) : s[k].type = "NEWKEYS"
  /\ mid => \E k \in 1..Len(s) : s[k].type = "NEWKEYS"

Silent ==
  \A e \in Ends :
    /\ Quiet(Sent(e), t[Other(e)].pc \in Mid)
    /\ t[e].pc \in After => Closed(Sent(e), t[Other(e)].pc \in Mid)

Locals == \A e \in Ends : Phase(t[e]) /\ HeldInOrder(t[e])

IInv == TypeOK /\ Locals /\ Keyed /\ Numbered /\ Silent

-----------------------------------------------------------------------------
(* Sequences of packets                                                     *)

\* What the concatenation of two sequences holds, and where.
LEMMA ConcatAt ==
  ASSUME NEW S, NEW a \in Seq(S), NEW b \in Seq(S)
  PROVE  /\ a \o b \in Seq(S)
         /\ Len(a \o b) = Len(a) + Len(b)
         /\ \A i \in 1..Len(a) : (a \o b)[i] = a[i]
         /\ \A i \in 1..Len(b) : (a \o b)[Len(a) + i] = b[i]
  OBVIOUS

LEMMA PacketOf ==
  ASSUME NEW s \in Seq(Packet), NEW i \in 1..Len(s)
  PROVE  s[i] \in Packet /\ s[i].n \in Nat /\ s[i].type \in PacketTypes
<1>1. s[i] \in Packet
  OBVIOUS
<1> QED
  BY <1>1 DEF Packet

\* A position in a concatenation is one in either part.
LEMMA ConcatCases ==
  ASSUME NEW S, NEW a \in Seq(S), NEW b \in Seq(S)
  PROVE  \A i \in 1..Len(a \o b) : \/ i \in 1..Len(a) /\ (a \o b)[i] = a[i]
                                  \/ \E k \in 1..Len(b) : i = Len(a) + k /\ (a \o b)[i] = b[k]
<1> SUFFICES ASSUME NEW i \in 1..Len(a \o b)
             PROVE  \/ i \in 1..Len(a) /\ (a \o b)[i] = a[i]
                    \/ \E k \in 1..Len(b) : i = Len(a) + k /\ (a \o b)[i] = b[k]
  OBVIOUS
<1>1. CASE i \in 1..Len(a)
  BY <1>1
<1>2. CASE i \notin 1..Len(a)
  <2>1. Len(a \o b) = Len(a) + Len(b) /\ Len(a) \in Nat /\ Len(b) \in Nat
    OBVIOUS
  <2>2. i - Len(a) \in 1..Len(b) /\ i = Len(a) + (i - Len(a))
    BY <1>2, <2>1
  <2>3. (a \o b)[Len(a) + (i - Len(a))] = b[i - Len(a)]
    BY <2>2
  <2> QED
    BY <2>2, <2>3
<1> QED
  BY <1>1, <1>2

LEMMA PacketCases ==
  ASSUME NEW a \in Seq(Packet), NEW b \in Seq(Packet)
  PROVE  \A i \in 1..Len(a \o b) : \/ i \in 1..Len(a) /\ (a \o b)[i] = a[i]
                                  \/ \E k \in 1..Len(b) : i = Len(a) + k /\ (a \o b)[i] = b[k]
  BY ConcatCases

LEMMA ConcatNone ==
  ASSUME NEW a \in Seq(Packet), NEW b \in Seq(Packet), NEW type
  PROVE  /\ \A i \in 1..Len(a) : a[i].type # type
         /\ \A i \in 1..Len(b) : b[i].type # type
         => \A i \in 1..Len(a \o b) : (a \o b)[i].type # type
<1>1. \A i \in 1..Len(a \o b) : \/ i \in 1..Len(a) /\ (a \o b)[i] = a[i]
                               \/ \E k \in 1..Len(b) : i = Len(a) + k /\ (a \o b)[i] = b[k]
  BY PacketCases
<1> QED
  BY <1>1

\* InOrder with plain bounds.
LEMMA InOrderIs ==
  ASSUME NEW s \in Seq(Packet), NEW type, NEW lo \in Int, NEW hi \in Int
  PROVE  InOrder(s, type, lo, hi) <=>
           /\ lo <= hi
           /\ \A i \in 1..Len(s) : s[i].type = type => lo < s[i].n /\ s[i].n <= hi
           /\ \A n \in (lo + 1)..hi : \E i \in 1..Len(s) : s[i].type = type /\ s[i].n = n
           /\ \A i, j \in 1..Len(s) :
                s[i].type = type /\ s[j].type = type /\ i < j => s[i].n < s[j].n
<1> DEFINE its == {i \in DOMAIN s : s[i].type = type}
<1>1. DOMAIN s = 1..Len(s) /\ \A i \in 1..Len(s) : s[i].n \in Int
  BY PacketOf
<1>2. \A i : i \in its <=> i \in 1..Len(s) /\ s[i].type = type
  BY <1>1
<1>3. InOrder(s, type, lo, hi) <=>
        /\ lo <= hi
        /\ \A i \in its : s[i].n \in (lo + 1)..hi
        /\ \A n \in (lo + 1)..hi : \E i \in its : s[i].n = n
        /\ \A i, j \in its : i < j => s[i].n < s[j].n
  BY Zenon DEF InOrder
<1> HIDE DEF its
<1>4. (\A i \in its : s[i].n \in (lo + 1)..hi) <=>
        \A i \in 1..Len(s) : s[i].type = type => lo < s[i].n /\ s[i].n <= hi
  BY <1>1, <1>2
<1> QED
  BY <1>2, <1>3, <1>4

LEMMA InOrderConcat ==
  ASSUME NEW a \in Seq(Packet), NEW b \in Seq(Packet), NEW type,
         NEW lo \in Int, NEW mid \in Int, NEW hi \in Int,
         InOrder(a, type, lo, mid), InOrder(b, type, mid, hi)
  PROVE  InOrder(a \o b, type, lo, hi)
<1> DEFINE s == a \o b
<1>1. /\ s \in Seq(Packet) /\ Len(s) = Len(a) + Len(b) /\ Len(a) \in Nat /\ Len(b) \in Nat
      /\ \A i \in 1..Len(a) : s[i] = a[i]
      /\ \A i \in 1..Len(b) : s[Len(a) + i] = b[i]
  OBVIOUS
<1>2. /\ lo <= mid
      /\ \A i \in 1..Len(a) : a[i].type = type => lo < a[i].n /\ a[i].n <= mid
      /\ \A n \in (lo + 1)..mid : \E i \in 1..Len(a) : a[i].type = type /\ a[i].n = n
      /\ \A i, j \in 1..Len(a) : a[i].type = type /\ a[j].type = type /\ i < j => a[i].n < a[j].n
  BY InOrderIs
<1>3. /\ mid <= hi
      /\ \A i \in 1..Len(b) : b[i].type = type => mid < b[i].n /\ b[i].n <= hi
      /\ \A n \in (mid + 1)..hi : \E i \in 1..Len(b) : b[i].type = type /\ b[i].n = n
      /\ \A i, j \in 1..Len(b) : b[i].type = type /\ b[j].type = type /\ i < j => b[i].n < b[j].n
  BY InOrderIs
<1>4. /\ \A i \in 1..Len(a) : a[i].n \in Int
      /\ \A i \in 1..Len(b) : b[i].n \in Int
  BY PacketOf
<1>5. \A i \in 1..Len(s) : \/ i \in 1..Len(a) /\ s[i] = a[i]
                           \/ \E k \in 1..Len(b) : i = Len(a) + k /\ s[i] = b[k]
  BY PacketCases
<1> HIDE DEF s
<1>6. ASSUME NEW i \in 1..Len(s), s[i].type = type
      PROVE  lo < s[i].n /\ s[i].n <= hi
  <2>1. CASE i \in 1..Len(a) /\ s[i] = a[i]
    BY <1>2, <1>3, <1>4, <1>6, <2>1
  <2>2. ASSUME NEW k \in 1..Len(b), s[i] = b[k] PROVE lo < s[i].n /\ s[i].n <= hi
    BY <1>2, <1>3, <1>4, <1>6, <2>2
  <2> QED
    BY <1>5, <2>1, <2>2
<1>7. ASSUME NEW n \in (lo + 1)..hi
      PROVE  \E i \in 1..Len(s) : s[i].type = type /\ s[i].n = n
  <2>1. CASE n <= mid
    <3>1. PICK i \in 1..Len(a) : a[i].type = type /\ a[i].n = n
      BY <1>2, <2>1
    <3>2. i \in 1..Len(s) /\ s[i] = a[i]
      BY <1>1
    <3> QED
      BY <3>1, <3>2
  <2>2. CASE n > mid
    <3>1. PICK i \in 1..Len(b) : b[i].type = type /\ b[i].n = n
      BY <1>3, <2>2
    <3>2. Len(a) + i \in 1..Len(s) /\ s[Len(a) + i] = b[i]
      BY <1>1
    <3> QED
      BY <3>1, <3>2
  <2> QED
    BY <2>1, <2>2
<1>8. ASSUME NEW i \in 1..Len(s), NEW j \in 1..Len(s), s[i].type = type, s[j].type = type, i < j
      PROVE  s[i].n < s[j].n
  <2>1. CASE i \in 1..Len(a) /\ s[i] = a[i] /\ j \in 1..Len(a) /\ s[j] = a[j]
    BY <1>2, <1>8, <2>1
  <2>2. ASSUME NEW k \in 1..Len(b), j = Len(a) + k, s[j] = b[k], i \in 1..Len(a), s[i] = a[i]
        PROVE  s[i].n < s[j].n
    <3>1. s[i].n <= mid /\ mid < s[j].n
      BY <1>2, <1>3, <1>8, <2>2
    <3>2. s[i].n \in Int /\ s[j].n \in Int
      BY <1>4, <2>2
    <3> QED
      BY <3>1, <3>2
  <2>3. ASSUME NEW k \in 1..Len(b), i = Len(a) + k, s[i] = b[k],
               NEW m \in 1..Len(b), j = Len(a) + m, s[j] = b[m]
        PROVE  s[i].n < s[j].n
    <3>1. k < m
      BY <1>1, <1>8, <2>3
    <3> QED
      BY <1>3, <1>8, <2>3, <3>1
  <2>4. ASSUME NEW k \in 1..Len(b), i = Len(a) + k, j \in 1..Len(a) PROVE FALSE
    BY <1>1, <1>8, <2>4
  <2> QED
    BY <1>5, <2>1, <2>2, <2>3, <2>4
<1>9. lo <= hi
  BY <1>2, <1>3
<1>10. InOrder(s, type, lo, hi)
  BY <1>1, <1>6, <1>7, <1>8, <1>9, InOrderIs
<1> QED
  BY <1>10 DEF s

LEMMA TailAt ==
  ASSUME NEW S, NEW s \in Seq(S), s # <<>>
  PROVE  /\ Tail(s) \in Seq(S) /\ Len(s) \in Nat /\ Len(s) > 0 /\ Len(Tail(s)) = Len(s) - 1
         /\ Head(s) = s[1]
         /\ \A i \in 1..Len(Tail(s)) : i + 1 \in 1..Len(s) /\ Tail(s)[i] = s[i + 1]
  OBVIOUS

LEMMA InOrderTail ==
  ASSUME NEW s \in Seq(Packet), s # <<>>, NEW type, NEW lo \in Int, NEW hi \in Int,
         InOrder(s, type, lo, hi)
  PROVE  /\ Head(s).type = type => Head(s).n = lo + 1 /\ InOrder(Tail(s), type, lo + 1, hi)
         /\ Head(s).type # type => InOrder(Tail(s), type, lo, hi)
<1> DEFINE r == Tail(s)
<1>1. /\ r \in Seq(Packet) /\ Len(s) \in Nat /\ Len(s) > 0 /\ Len(r) = Len(s) - 1
      /\ Head(s) = s[1]
      /\ \A i \in 1..Len(r) : i + 1 \in 1..Len(s) /\ r[i] = s[i + 1]
  BY TailAt
<1>2. /\ lo <= hi
      /\ \A i \in 1..Len(s) : s[i].type = type => lo < s[i].n /\ s[i].n <= hi
      /\ \A n \in (lo + 1)..hi : \E i \in 1..Len(s) : s[i].type = type /\ s[i].n = n
      /\ \A i, j \in 1..Len(s) : s[i].type = type /\ s[j].type = type /\ i < j => s[i].n < s[j].n
  BY InOrderIs
<1>3. \A i \in 1..Len(s) : s[i].n \in Int
  BY PacketOf
<1>4. \A i \in 1..Len(s) : i = 1 \/ (i - 1 \in 1..Len(r) /\ s[i] = r[i - 1])
  BY <1>1
<1> HIDE DEF r
<1>5. \A i, j \in 1..Len(r) : r[i].type = type /\ r[j].type = type /\ i < j => r[i].n < r[j].n
  <2> SUFFICES ASSUME NEW i \in 1..Len(r), NEW j \in 1..Len(r), r[i].type = type, r[j].type = type, i < j
               PROVE  r[i].n < r[j].n
    OBVIOUS
  <2>1. i + 1 \in 1..Len(s) /\ j + 1 \in 1..Len(s) /\ i + 1 < j + 1
    BY <1>1
  <2> QED
    BY <1>1, <1>2, <2>1
<1>6. ASSUME s[1].type = type
      PROVE  s[1].n = lo + 1 /\ InOrder(r, type, lo + 1, hi)
  <2>1. 1 \in 1..Len(s) /\ lo < s[1].n /\ s[1].n <= hi /\ s[1].n \in Int
    BY <1>1, <1>2, <1>3, <1>6
  <2>2. s[1].n = lo + 1
    <3>1. PICK i \in 1..Len(s) : s[i].type = type /\ s[i].n = lo + 1
      BY <1>2, <2>1
    <3>2. i > 1 => s[1].n < s[i].n
      BY <1>2, <1>6, <2>1, <3>1
    <3> QED
      BY <1>1, <2>1, <3>1, <3>2
  <2>3. ASSUME NEW i \in 1..Len(r), r[i].type = type PROVE lo + 1 < r[i].n /\ r[i].n <= hi
    <3>1. i + 1 \in 1..Len(s) /\ r[i] = s[i + 1] /\ 1 < i + 1
      BY <1>1
    <3>2. s[1].n < s[i + 1].n /\ s[i + 1].n <= hi
      BY <1>2, <1>6, <2>1, <2>3, <3>1
    <3> QED
      BY <2>2, <3>1, <3>2
  <2>4. ASSUME NEW n \in (lo + 2)..hi PROVE \E i \in 1..Len(r) : r[i].type = type /\ r[i].n = n
    <3>1. PICK i \in 1..Len(s) : s[i].type = type /\ s[i].n = n
      BY <1>2
    <3>2. i # 1
      BY <2>2, <3>1
    <3> QED
      BY <1>4, <3>1, <3>2
  <2>5. lo + 1 <= hi /\ lo + 1 \in Int /\ (lo + 1) + 1 = lo + 2
    BY <2>1, <2>2
  <2>6. InOrder(r, type, lo + 1, hi)
    BY <1>1, <1>5, <2>3, <2>4, <2>5, InOrderIs
  <2> QED
    BY <2>2, <2>6
<1>7. ASSUME s[1].type # type
      PROVE  InOrder(r, type, lo, hi)
  <2>1. \A i \in 1..Len(r) : r[i].type = type => lo < r[i].n /\ r[i].n <= hi
    BY <1>1, <1>2
  <2>2. ASSUME NEW n \in (lo + 1)..hi PROVE \E i \in 1..Len(r) : r[i].type = type /\ r[i].n = n
    <3>1. PICK i \in 1..Len(s) : s[i].type = type /\ s[i].n = n
      BY <1>2
    <3> QED
      BY <1>4, <1>7, <3>1
  <2> QED
    BY <1>1, <1>2, <1>5, <2>1, <2>2, InOrderIs
<1> QED
  BY <1>1, <1>6, <1>7 DEF r

LEMMA InOrderNone ==
  ASSUME NEW s \in Seq(Packet), NEW type, NEW lo \in Int, \A i \in 1..Len(s) : s[i].type # type
  PROVE  InOrder(s, type, lo, lo)
<1>1. \A n \in (lo + 1)..lo : FALSE
  OBVIOUS
<1> QED
  BY <1>1, InOrderIs

LEMMA InOrderRun ==
  ASSUME NEW s \in Seq(Packet), NEW type, NEW lo \in Int,
         \A i \in 1..Len(s) : s[i].type = type /\ s[i].n = lo + i
  PROVE  InOrder(s, type, lo, lo + Len(s))
<1> DEFINE hi == lo + Len(s)
<1>1. hi \in Int /\ lo <= hi /\ Len(s) \in Nat
  OBVIOUS
<1>2. \A i \in 1..Len(s) : lo < s[i].n /\ s[i].n <= hi
  OBVIOUS
<1>3. ASSUME NEW n \in (lo + 1)..hi PROVE \E i \in 1..Len(s) : s[i].type = type /\ s[i].n = n
  <2>1. n - lo \in 1..Len(s) /\ lo + (n - lo) = n
    BY <1>1
  <2> QED
    BY <2>1
<1>4. \A i, j \in 1..Len(s) : i < j => s[i].n < s[j].n
  OBVIOUS
<1> HIDE DEF hi
<1>5. InOrder(s, type, lo, hi)
  BY <1>1, <1>2, <1>3, <1>4, InOrderIs
<1> QED
  BY <1>5 DEF hi

LEMMA ClosedConcat ==
  ASSUME NEW a \in Seq(Packet), NEW b \in Seq(Packet), NEW mid \in BOOLEAN,
         \A i \in 1..Len(b) : b[i].type # "KEXINIT",
         Closed(a, mid) \/ \E k \in 1..Len(b) : b[k].type = "NEWKEYS"
  PROVE  Closed(a \o b, mid)
<1> DEFINE s == a \o b
<1>1. /\ Len(s) = Len(a) + Len(b) /\ Len(a) \in Nat /\ Len(b) \in Nat
      /\ \A i \in 1..Len(a) : s[i] = a[i]
      /\ \A i \in 1..Len(b) : s[Len(a) + i] = b[i]
  BY ConcatAt
<1>2. \A i \in 1..Len(s) : \/ i \in 1..Len(a) /\ s[i] = a[i]
                           \/ \E k \in 1..Len(b) : i = Len(a) + k /\ s[i] = b[k]
  BY PacketCases
<1> HIDE DEF s
<1>3. CASE Closed(a, mid)
  <2>1. ASSUME NEW i \in 1..Len(s), s[i].type = "KEXINIT"
        PROVE  \E k \in (i + 1)..Len(s) : s[k].type = "NEWKEYS"
    <3>1. i \in 1..Len(a) /\ s[i] = a[i]
      BY <1>2, <2>1
    <3>2. PICK k \in (i + 1)..Len(a) : a[k].type = "NEWKEYS"
      BY <1>3, <2>1, <3>1 DEF Closed
    <3>3. k \in (i + 1)..Len(s) /\ s[k] = a[k]
      BY <1>1
    <3> QED
      BY <3>2, <3>3
  <2>2. ASSUME mid PROVE \E k \in 1..Len(s) : s[k].type = "NEWKEYS"
    <3>1. PICK k \in 1..Len(a) : a[k].type = "NEWKEYS"
      BY <1>3, <2>2 DEF Closed
    <3>2. k \in 1..Len(s) /\ s[k] = a[k]
      BY <1>1
    <3> QED
      BY <3>1, <3>2
  <2>3. Closed(s, mid)
    BY <2>1, <2>2 DEF Closed
  <2> QED
    BY <2>3 DEF s
<1>4. ASSUME NEW m \in 1..Len(b), b[m].type = "NEWKEYS" PROVE Closed(a \o b, mid)
  <2>1. Len(a) + m \in 1..Len(s) /\ s[Len(a) + m].type = "NEWKEYS"
    BY <1>1, <1>4
  <2>2. ASSUME NEW i \in 1..Len(s), s[i].type = "KEXINIT"
        PROVE  Len(a) + m \in (i + 1)..Len(s)
    <3>1. i \in 1..Len(a)
      BY <1>2, <2>2
    <3> QED
      BY <1>1, <2>1, <3>1
  <2>3. Closed(s, mid)
    BY <2>1, <2>2 DEF Closed
  <2> QED
    BY <2>3 DEF s
<1> QED
  BY <1>3, <1>4

\* The higher layer's packets may be sent by an end that is closed, or behind a NEWKEYS;
\* a KEXINIT comes last.
LEMMA QuietConcat ==
  ASSUME NEW a \in Seq(Packet), NEW b \in Seq(Packet), NEW mid \in BOOLEAN, Quiet(a, mid),
         \A i \in 1..Len(b) : b[i].type = "KEXINIT" => i = Len(b),
         \A j \in 1..Len(b) : b[j].type = "HIGHER" =>
           Closed(a, mid) \/ \E k \in 1..(j - 1) : b[k].type = "NEWKEYS"
  PROVE  Quiet(a \o b, mid)
<1> DEFINE s == a \o b
<1>1. /\ Len(s) = Len(a) + Len(b) /\ Len(a) \in Nat /\ Len(b) \in Nat
      /\ \A i \in 1..Len(a) : s[i] = a[i]
      /\ \A i \in 1..Len(b) : s[Len(a) + i] = b[i]
  BY ConcatAt
<1>2. \A i \in 1..Len(s) : \/ i \in 1..Len(a) /\ s[i] = a[i]
                           \/ \E k \in 1..Len(b) : i = Len(a) + k /\ s[i] = b[k]
  BY PacketCases
<1> HIDE DEF s
<1>3. ASSUME NEW j \in 1..Len(s), s[j].type = "HIGHER"
      PROVE  /\ \A i \in 1..(j - 1) : s[i].type = "KEXINIT" =>
                  \E k \in (i + 1)..(j - 1) : s[k].type = "NEWKEYS"
             /\ mid => \E k \in 1..(j - 1) : s[k].type = "NEWKEYS"
  <2>1. CASE j \in 1..Len(a) /\ s[j] = a[j]
    <3>1. \A i \in 1..(j - 1) : i \in 1..Len(a) /\ s[i] = a[i]
      BY <1>1, <2>1
    <3>2. /\ \A i \in 1..(j - 1) : a[i].type = "KEXINIT" =>
                \E k \in (i + 1)..(j - 1) : a[k].type = "NEWKEYS"
          /\ mid => \E k \in 1..(j - 1) : a[k].type = "NEWKEYS"
      BY <1>3, <2>1 DEF Quiet
    <3>3. \A i \in 1..(j - 1) : \A k \in (i + 1)..(j - 1) : k \in 1..(j - 1)
      BY <1>1
    <3> QED
      BY <3>1, <3>2, <3>3
  <2>2. ASSUME NEW m \in 1..Len(b), j = Len(a) + m, s[j] = b[m]
        PROVE  /\ \A i \in 1..(j - 1) : s[i].type = "KEXINIT" =>
                     \E k \in (i + 1)..(j - 1) : s[k].type = "NEWKEYS"
               /\ mid => \E k \in 1..(j - 1) : s[k].type = "NEWKEYS"
    <3>1. ASSUME NEW i \in 1..(j - 1), s[i].type = "KEXINIT" PROVE i \in 1..Len(a) /\ s[i] = a[i]
      <4>1. i \in 1..Len(s)
        BY <1>1
      <4>2. ASSUME NEW k \in 1..Len(b), i = Len(a) + k, s[i] = b[k] PROVE FALSE
        <5>1. k < m /\ m <= Len(b) /\ k # Len(b)
          BY <1>1, <2>2, <4>2
        <5> QED
          BY <3>1, <4>2, <5>1
      <4> QED
        BY <1>2, <4>1, <4>2
    <3>2. CASE Closed(a, mid)
      <4>1. ASSUME NEW i \in 1..(j - 1), s[i].type = "KEXINIT"
            PROVE  \E k \in (i + 1)..(j - 1) : s[k].type = "NEWKEYS"
        <5>1. PICK k \in (i + 1)..Len(a) : a[k].type = "NEWKEYS"
          BY <3>1, <3>2, <4>1 DEF Closed
        <5>2. k \in (i + 1)..(j - 1) /\ k \in 1..Len(a) /\ s[k] = a[k]
          BY <1>1, <2>2
        <5> QED
          BY <5>1, <5>2
      <4>2. ASSUME mid PROVE \E k \in 1..(j - 1) : s[k].type = "NEWKEYS"
        <5>1. PICK k \in 1..Len(a) : a[k].type = "NEWKEYS"
          BY <3>2, <4>2 DEF Closed
        <5>2. k \in 1..(j - 1) /\ s[k] = a[k]
          BY <1>1, <2>2
        <5> QED
          BY <5>1, <5>2
      <4> QED
        BY <4>1, <4>2
    <3>3. ASSUME NEW k \in 1..(m - 1), b[k].type = "NEWKEYS"
          PROVE  /\ \A i \in 1..(j - 1) : s[i].type = "KEXINIT" =>
                       \E x \in (i + 1)..(j - 1) : s[x].type = "NEWKEYS"
                 /\ mid => \E x \in 1..(j - 1) : s[x].type = "NEWKEYS"
      <4>1. Len(a) + k \in 1..(j - 1) /\ s[Len(a) + k].type = "NEWKEYS"
        BY <1>1, <2>2, <3>3
      <4>2. ASSUME NEW i \in 1..(j - 1), s[i].type = "KEXINIT" PROVE Len(a) + k \in (i + 1)..(j - 1)
        BY <1>1, <3>1, <4>1, <4>2
      <4> QED
        BY <4>1, <4>2
    <3> QED
      BY <1>3, <2>2, <3>2, <3>3
  <2> QED
    BY <1>2, <2>1, <2>2
<1>4. Quiet(s, mid)
  BY <1>3 DEF Quiet
<1> QED
  BY <1>4 DEF s

\* What follows the oldest packet: if that was a KEXINIT, the far end now has it; if it was
\* a NEWKEYS, the exchange is over there.
LEMMA QuietTail ==
  ASSUME NEW s \in Seq(Packet), s # <<>>, NEW mid \in BOOLEAN, NEW now \in BOOLEAN, Quiet(s, mid),
         now => Head(s).type = "KEXINIT" \/ (mid /\ Head(s).type # "NEWKEYS")
  PROVE  Quiet(Tail(s), now)
<1> DEFINE r == Tail(s)
<1>1. /\ Len(s) \in Nat /\ Len(s) > 0 /\ Len(r) = Len(s) - 1
      /\ Head(s) = s[1]
      /\ \A i \in 1..Len(r) : i + 1 \in 1..Len(s) /\ r[i] = s[i + 1]
  BY TailAt
<1> HIDE DEF r
<1>2. ASSUME NEW j \in 1..Len(r), r[j].type = "HIGHER"
      PROVE  /\ \A i \in 1..(j - 1) : r[i].type = "KEXINIT" =>
                  \E k \in (i + 1)..(j - 1) : r[k].type = "NEWKEYS"
             /\ now => \E k \in 1..(j - 1) : r[k].type = "NEWKEYS"
  <2>1. j + 1 \in 1..Len(s) /\ s[j + 1].type = "HIGHER"
    BY <1>1, <1>2
  <2>2. /\ \A i \in 1..j : s[i].type = "KEXINIT" => \E k \in (i + 1)..j : s[k].type = "NEWKEYS"
        /\ mid => \E k \in 1..j : s[k].type = "NEWKEYS"
    BY <2>1 DEF Quiet
  <2>3. \A k \in 2..j : k - 1 \in 1..(j - 1) /\ r[k - 1] = s[k]
    BY <1>1
  <2>4. ASSUME NEW i \in 1..(j - 1), r[i].type = "KEXINIT"
        PROVE  \E k \in (i + 1)..(j - 1) : r[k].type = "NEWKEYS"
    <3>1. i + 1 \in 1..j /\ s[i + 1].type = "KEXINIT"
      BY <1>1, <2>4
    <3>2. PICK k \in (i + 2)..j : s[k].type = "NEWKEYS"
      BY <2>2, <3>1
    <3>3. k - 1 \in (i + 1)..(j - 1) /\ r[k - 1].type = "NEWKEYS"
      BY <2>3, <3>2
    <3> QED
      BY <3>3
  <2>5. ASSUME now PROVE \E k \in 1..(j - 1) : r[k].type = "NEWKEYS"
    <3>1. \E k \in 2..j : s[k].type = "NEWKEYS"
      <4>1. CASE Head(s).type = "KEXINIT"
        BY <1>1, <2>2, <4>1
      <4>2. CASE mid /\ Head(s).type # "NEWKEYS"
        <5>1. PICK k \in 1..j : s[k].type = "NEWKEYS"
          BY <2>2, <4>2
        <5>2. k # 1
          BY <1>1, <4>2, <5>1
        <5> QED
          BY <5>1, <5>2
      <4> QED
        BY <2>5, <4>1, <4>2
    <3> QED
      BY <2>3, <3>1
  <2> QED
    BY <2>4, <2>5
<1>3. Quiet(r, now)
  BY <1>2 DEF Quiet
<1> QED
  BY <1>3 DEF r

LEMMA ClosedTail ==
  ASSUME NEW s \in Seq(Packet), s # <<>>, NEW mid \in BOOLEAN, NEW now \in BOOLEAN, Closed(s, mid),
         now => Head(s).type = "KEXINIT" \/ (mid /\ Head(s).type # "NEWKEYS")
  PROVE  Closed(Tail(s), now)
<1> DEFINE r == Tail(s)
<1>1. /\ Len(s) \in Nat /\ Len(s) > 0 /\ Len(r) = Len(s) - 1
      /\ Head(s) = s[1]
      /\ \A i \in 1..Len(r) : i + 1 \in 1..Len(s) /\ r[i] = s[i + 1]
  BY TailAt
<1> HIDE DEF r
<1>2. \A k \in 2..Len(s) : k - 1 \in 1..Len(r) /\ r[k - 1] = s[k]
  BY <1>1
<1>3. ASSUME NEW i \in 1..Len(r), r[i].type = "KEXINIT"
      PROVE  \E k \in (i + 1)..Len(r) : r[k].type = "NEWKEYS"
  <2>1. i + 1 \in 1..Len(s) /\ s[i + 1].type = "KEXINIT"
    BY <1>1, <1>3
  <2>2. PICK k \in (i + 2)..Len(s) : s[k].type = "NEWKEYS"
    BY <2>1 DEF Closed
  <2>3. k - 1 \in (i + 1)..Len(r) /\ r[k - 1].type = "NEWKEYS"
    BY <1>1, <1>2, <2>2
  <2> QED
    BY <2>3
<1>4. ASSUME now PROVE \E k \in 1..Len(r) : r[k].type = "NEWKEYS"
  <2>1. \E k \in 2..Len(s) : s[k].type = "NEWKEYS"
    <3>1. CASE Head(s).type = "KEXINIT"
      BY <1>1, <3>1 DEF Closed
    <3>2. CASE mid /\ Head(s).type # "NEWKEYS"
      <4>1. PICK k \in 1..Len(s) : s[k].type = "NEWKEYS"
        BY <3>2 DEF Closed
      <4>2. k # 1
        BY <1>1, <3>2, <4>1
      <4> QED
        BY <4>1, <4>2
    <3> QED
      BY <1>4, <3>1, <3>2
  <2> QED
    BY <1>2, <2>1
<1>5. Closed(r, now)
  BY <1>3, <1>4 DEF Closed
<1> QED
  BY <1>5 DEF r

-----------------------------------------------------------------------------
(* The fields of what the operators of SshRekey return                      *)

SameKeys(c, d) ==
  d.outkey = c.outkey /\ d.inkey = c.inkey /\ d.pending_newkeys = c.pending_newkeys
SameKexinits(c, d) == d.kexno = c.kexno /\ d.theirs = c.theirs
SameHeld(c, d) == d.held = c.held /\ d.sent = c.sent
SameIn(c, d) == d.in_pq = c.in_pq /\ d.got = c.got
SameOut(c, d) == d.wire = c.wire /\ d.out_pq = c.out_pq

\* Nothing differs that the invariant speaks of.
Alike(c, d) ==
  /\ d.pc = c.pc
  /\ SameKeys(c, d) /\ SameKexinits(c, d) /\ SameHeld(c, d) /\ SameIn(c, d) /\ SameOut(c, d)

\* Packets put on the wire under the key k.
Under(q, k) == [i \in DOMAIN q |-> [type |-> q[i].type, n |-> q[i].n, key |-> k]]

LEMMA PushFields ==
  ASSUME NEW c \in Transport, NEW type \in PacketTypes, NEW n \in Nat
  PROVE  LET d == Push(c, type, n)
         IN /\ d \in Transport
            /\ d.pc = c.pc
            /\ SameKeys(c, d) /\ SameKexinits(c, d) /\ SameHeld(c, d) /\ SameIn(c, d)
            /\ d.wire = c.wire /\ d.out_pq = Append(c.out_pq, [type |-> type, n |-> n])
<1>1. [type |-> type, n |-> n] \in Packet
  BY DEF Packet
<1>2. c.out_pq \in Seq(Packet)
  BY DEF Transport
<1>3. Append(c.out_pq, [type |-> type, n |-> n]) \in Seq(Packet)
  BY <1>1, <1>2
<1> QED
  BY <1>3 DEF Push, Transport, SameKeys, SameKexinits, SameHeld, SameIn

LEMMA BegunFields ==
  ASSUME NEW c \in Transport
  PROVE  LET d == Begun(c)
         IN /\ d \in Transport
            /\ d.pc = "kexinit" /\ d.kexno = c.kexno + 1 /\ d.theirs = c.theirs
            /\ SameKeys(c, d) /\ SameHeld(c, d) /\ SameIn(c, d)
            /\ d.wire = c.wire
            /\ d.out_pq = Append(c.out_pq, [type |-> "KEXINIT", n |-> c.kexno + 1])
<1> DEFINE b == [c EXCEPT !.pc = "kexinit", !.kex_in_progress = TRUE, !.kexno = @ + 1, !.used = c.conf]
<1>1. c.kexno \in Nat /\ c.conf \in Nat /\ "kexinit" \in Places
  BY DEF Transport, Places
<1>2. b \in Transport
  <2>1. c.kexno + 1 \in Nat
    BY <1>1
  <2> QED
    BY <1>1, <2>1 DEF Transport
<1>3. b.pc = "kexinit" /\ b.kexno = c.kexno + 1 /\ b.theirs = c.theirs
  BY DEF Transport
<1>4. SameKeys(c, b) /\ SameHeld(c, b) /\ SameIn(c, b) /\ SameOut(c, b)
  BY DEF Transport, SameKeys, SameHeld, SameIn, SameOut
<1>5. "KEXINIT" \in PacketTypes /\ c.kexno + 1 \in Nat
  BY <1>1 DEF PacketTypes, TransportTypes
<1> DEFINE d == Push(b, "KEXINIT", c.kexno + 1)
<1>6. Begun(c) = d
  BY Zenon DEF Begun
<1> HIDE DEF b
<1>7. /\ d \in Transport /\ d.pc = b.pc
      /\ SameKeys(b, d) /\ SameKexinits(b, d) /\ SameHeld(b, d) /\ SameIn(b, d)
      /\ d.wire = b.wire
      /\ d.out_pq = Append(b.out_pq, [type |-> "KEXINIT", n |-> c.kexno + 1])
  BY <1>2, <1>5, PushFields
<1> HIDE DEF d
<1> QED
  BY <1>6, <1>7, <1>3, <1>4 DEF SameKeys, SameKexinits, SameHeld, SameIn, SameOut

LEMMA UnderType ==
  ASSUME NEW q \in Seq(Packet), NEW k \in Keys
  PROVE  /\ Under(q, k) \in Seq(WirePacket) /\ Len(Under(q, k)) = Len(q)
         /\ \A i \in 1..Len(q) : /\ Under(q, k)[i].type = q[i].type
                                 /\ Under(q, k)[i].n = q[i].n
                                 /\ Under(q, k)[i].key = k
<1>1. Len(q) \in Nat /\ DOMAIN q = 1..Len(q)
  OBVIOUS
<1>2. \A i \in 1..Len(q) : [type |-> q[i].type, n |-> q[i].n, key |-> k] \in WirePacket
  BY PacketOf DEF WirePacket
<1>3. Under(q, k) = [i \in 1..Len(q) |-> [type |-> q[i].type, n |-> q[i].n, key |-> k]]
  BY <1>1 DEF Under
<1> QED
  BY <1>1, <1>2, <1>3

LEMMA MarshalledFields ==
  ASSUME NEW c \in Transport
  PROVE  LET d == Marshalled(c)
         IN /\ d \in Transport
            /\ d.pc = c.pc
            /\ SameKeys(c, d) /\ SameKexinits(c, d) /\ SameHeld(c, d) /\ SameIn(c, d)
            /\ d.wire = c.wire \o Under(c.out_pq, c.outkey) /\ d.out_pq = <<>>
<1> DEFINE w == Under(c.out_pq, c.outkey)
<1>1. c.out_pq \in Seq(Packet) /\ c.outkey \in Keys /\ c.wire \in Seq(WirePacket)
  BY DEF Transport
<1>2. w \in Seq(WirePacket)
  BY <1>1, UnderType
<1>3. Marshalled(c) = [c EXCEPT !.wire = @ \o w, !.out_pq = <<>>]
  BY DEF Marshalled, Under
<1> HIDE DEF w
<1>4. c.wire \o w \in Seq(WirePacket) /\ <<>> \in Seq(Packet)
  BY <1>1, <1>2
<1>5. /\ [c EXCEPT !.wire = @ \o w, !.out_pq = <<>>] \in Transport
      /\ [c EXCEPT !.wire = @ \o w, !.out_pq = <<>>].wire = c.wire \o w
  BY <1>4 DEF Transport
<1> QED
  BY <1>3, <1>5 DEF Transport, SameKeys, SameKexinits, SameHeld, SameIn, w

LEMMA PoppedFields ==
  ASSUME NEW c \in Transport, c.in_pq # <<>>
  PROVE  LET d == [c EXCEPT !.in_pq = Tail(@)]
         IN /\ d \in Transport
            /\ d.pc = c.pc /\ d.deferred = c.deferred /\ d.higher_ok = c.higher_ok
            /\ SameKeys(c, d) /\ SameKexinits(c, d) /\ SameHeld(c, d) /\ SameOut(c, d)
            /\ d.in_pq = Tail(c.in_pq) /\ d.got = c.got
<1>1. c.in_pq \in Seq(Packet)
  BY DEF Transport
<1>2. Tail(c.in_pq) \in Seq(Packet)
  BY <1>1
<1> QED
  BY <1>2 DEF Transport, SameKeys, SameKexinits, SameHeld, SameOut

LEMMA NewKeysSentFields ==
  ASSUME NEW c \in Transport, NEW e \in Ends
  PROVE  LET d == NewKeysSent(e, c)
         IN /\ d \in Transport
            /\ d.pc = "newkeys" /\ d.outkey = Hash(e, c)
            /\ d.inkey = c.inkey /\ d.pending_newkeys = c.pending_newkeys
            /\ SameKexinits(c, d) /\ SameIn(c, d)
            /\ d.sent = c.sent /\ d.held = <<>>
            /\ d.wire = c.wire \o Under(Append(c.out_pq, [type |-> "NEWKEYS", n |-> 0]), c.outkey)
            /\ d.out_pq = c.held
<1> DEFINE b == Push(c, "NEWKEYS", 0)
           m == Marshalled(b)
<1>1. /\ b \in Transport
      /\ SameKeys(c, b) /\ SameKexinits(c, b) /\ SameHeld(c, b) /\ SameIn(c, b)
      /\ b.wire = c.wire /\ b.out_pq = Append(c.out_pq, [type |-> "NEWKEYS", n |-> 0])
  BY PushFields DEF PacketTypes, TransportTypes
<1> HIDE DEF b
<1>2. /\ m \in Transport
      /\ SameKeys(b, m) /\ SameKexinits(b, m) /\ SameHeld(b, m) /\ SameIn(b, m)
      /\ m.wire = b.wire \o Under(b.out_pq, b.outkey) /\ m.out_pq = <<>>
  BY <1>1, MarshalledFields
<1> HIDE DEF m
<1>3. Hash(e, c) \in Keys
  BY DEF Hash, Keys, Transport
<1>4. "newkeys" \in Places /\ <<>> \in Seq(HeldPacket)
  BY DEF Places
<1>5. c.held \in Seq(HeldPacket) /\ \A p \in HeldPacket : p \in Packet
  BY DEF Transport, HeldPacket, Packet, PacketTypes
<1>6. HeldPacket \subseteq Packet
  BY <1>5
<1>7. c.held \in Seq(Packet)
  BY <1>5, <1>6, SeqMonotonic
<1> DEFINE d == [m EXCEPT !.pc = "newkeys", !.outkey = Hash(e, c), !.out_pq = c.held, !.held = <<>>]
<1>8. /\ d \in Transport
      /\ d.pc = "newkeys" /\ d.outkey = Hash(e, c) /\ d.held = <<>> /\ d.out_pq = c.held
      /\ d.inkey = m.inkey /\ d.pending_newkeys = m.pending_newkeys
      /\ SameKexinits(m, d) /\ SameIn(m, d) /\ d.sent = m.sent /\ d.wire = m.wire
  BY <1>2, <1>3, <1>4, <1>7 DEF Transport, SameKexinits, SameIn
<1>9. NewKeysSent(e, c) = d
  BY DEF NewKeysSent, m, b
<1> HIDE DEF d
<1> QED
  BY <1>1, <1>2, <1>8, <1>9 DEF SameKeys, SameKexinits, SameHeld, SameIn

LEMMA RunningFields ==
  ASSUME NEW c \in Transport
  PROVE  LET d == Running(c)
         IN /\ d \in Transport /\ d.pc = "run"
            /\ SameKeys(c, d) /\ SameKexinits(c, d) /\ SameHeld(c, d) /\ SameIn(c, d) /\ SameOut(c, d)
  BY DEF Running, Places, Transport, SameKeys, SameKexinits, SameHeld, SameIn, SameOut

-----------------------------------------------------------------------------
(* What is under way                                                        *)

LEMMA PlainIs ==
  ASSUME NEW w \in Seq(WirePacket)
  PROVE  /\ Plain(w) \in Seq(Packet) /\ Len(Plain(w)) = Len(w)
         /\ \A i \in 1..Len(w) : Plain(w)[i] = [type |-> w[i].type, n |-> w[i].n]
<1>1. Len(w) \in Nat /\ DOMAIN w = 1..Len(w)
  OBVIOUS
<1>2. \A i \in 1..Len(w) : w[i] \in WirePacket
  OBVIOUS
<1>3. \A i \in 1..Len(w) : [type |-> w[i].type, n |-> w[i].n] \in Packet
  BY <1>2 DEF WirePacket, Packet
<1>4. Plain(w) = [i \in 1..Len(w) |-> [type |-> w[i].type, n |-> w[i].n]]
  BY <1>1 DEF Plain
<1> QED
  BY <1>1, <1>3, <1>4

LEMMA PlainUnder ==
  ASSUME NEW w \in Seq(WirePacket), NEW q \in Seq(Packet), NEW k \in Keys
  PROVE  Plain(w \o Under(q, k)) = Plain(w) \o q
<1> DEFINE u == Under(q, k)
           v == w \o u
<1>1. /\ u \in Seq(WirePacket) /\ Len(u) = Len(q)
      /\ \A i \in 1..Len(q) : u[i].type = q[i].type /\ u[i].n = q[i].n
  BY UnderType
<1> HIDE DEF u
<1>2. /\ v \in Seq(WirePacket) /\ Len(v) = Len(w) + Len(q) /\ Len(w) \in Nat /\ Len(q) \in Nat
      /\ \A i \in 1..Len(w) : v[i] = w[i]
      /\ \A i \in 1..Len(q) : v[Len(w) + i] = u[i]
  <2>1. /\ v \in Seq(WirePacket) /\ Len(v) = Len(w) + Len(u)
        /\ \A i \in 1..Len(w) : v[i] = w[i]
        /\ \A i \in 1..Len(u) : v[Len(w) + i] = u[i]
    <3>1. w \in Seq(WirePacket) /\ u \in Seq(WirePacket)
      BY <1>1
    <3> QED
      BY <3>1, ConcatAt
  <2>2. Len(w) \in Nat /\ Len(q) \in Nat
    OBVIOUS
  <2> QED
    BY <1>1, <2>1, <2>2
<1>3. \A i \in 1..Len(v) : \/ i \in 1..Len(w) /\ v[i] = w[i]
                           \/ \E j \in 1..Len(q) : i = Len(w) + j /\ v[i] = u[j]
  BY <1>1, ConcatCases
<1> HIDE DEF v
<1>4. /\ Plain(v) \in Seq(Packet) /\ Len(Plain(v)) = Len(v)
      /\ \A i \in 1..Len(v) : Plain(v)[i] = [type |-> v[i].type, n |-> v[i].n]
  BY <1>2, PlainIs
<1>5. /\ Plain(w) \in Seq(Packet) /\ Len(Plain(w)) = Len(w)
      /\ \A i \in 1..Len(w) : Plain(w)[i] = [type |-> w[i].type, n |-> w[i].n]
  BY PlainIs
<1> DEFINE r == Plain(w) \o q
<1>6. /\ r \in Seq(Packet) /\ Len(r) = Len(w) + Len(q)
      /\ \A i \in 1..Len(w) : r[i] = Plain(w)[i]
      /\ \A i \in 1..Len(q) : r[Len(w) + i] = q[i]
  <2>1. /\ r \in Seq(Packet) /\ Len(r) = Len(Plain(w)) + Len(q)
        /\ \A i \in 1..Len(Plain(w)) : r[i] = Plain(w)[i]
        /\ \A i \in 1..Len(q) : r[Len(Plain(w)) + i] = q[i]
    <3>1. Plain(w) \in Seq(Packet)
      BY <1>5
    <3> QED
      BY <3>1, ConcatAt
  <2> QED
    BY <1>5, <2>1
<1> HIDE DEF r
<1>7. \A i \in 1..Len(q) : q[i] = [type |-> q[i].type, n |-> q[i].n]
  <2> SUFFICES ASSUME NEW i \in 1..Len(q) PROVE q[i] = [type |-> q[i].type, n |-> q[i].n]
    OBVIOUS
  <2>1. q[i] \in Packet
    BY PacketOf
  <2> QED
    BY <2>1 DEF Packet
<1>8. ASSUME NEW i \in 1..Len(v) PROVE Plain(v)[i] = r[i]
  <2>1. CASE i \in 1..Len(w) /\ v[i] = w[i]
    BY <1>4, <1>5, <1>6, <2>1
  <2>2. ASSUME NEW j \in 1..Len(q), i = Len(w) + j, v[i] = u[j] PROVE Plain(v)[i] = r[i]
    <3>1. Plain(v)[i] = [type |-> q[j].type, n |-> q[j].n]
      BY <1>1, <1>4, <2>2
    <3> QED
      BY <1>6, <1>7, <2>2, <3>1
  <2> QED
    BY <1>3, <2>1, <2>2
<1>9. Plain(v) = r
  BY <1>2, <1>4, <1>6, <1>8, SeqEqual
<1> QED
  BY <1>9 DEF v, u, r

LEMMA TransportType ==
  ASSUME NEW c \in Transport
  PROVE  /\ c.pc \in Places /\ c.kexno \in Nat /\ c.theirs \in Nat /\ c.outkey \in Keys /\ c.inkey \in Keys
         /\ c.held \in Seq(Packet) /\ \A i \in 1..Len(c.held) : c.held[i].type = "HIGHER"
         /\ c.in_pq \in Seq(Packet) /\ c.out_pq \in Seq(Packet) /\ c.wire \in Seq(WirePacket)
         /\ c.sent \in Nat /\ c.got \in Nat
<1>1. /\ c.pc \in Places /\ c.kexno \in Nat /\ c.theirs \in Nat /\ c.outkey \in Keys /\ c.inkey \in Keys
      /\ c.held \in Seq(HeldPacket)
      /\ c.in_pq \in Seq(Packet) /\ c.out_pq \in Seq(Packet) /\ c.wire \in Seq(WirePacket)
      /\ c.sent \in Nat /\ c.got \in Nat
  BY DEF Transport
<1>2. \A p \in HeldPacket : p \in Packet /\ p.type = "HIGHER"
  BY DEF HeldPacket, Packet, PacketTypes
<1>3. HeldPacket \subseteq Packet
  BY <1>2
<1>4. c.held \in Seq(Packet)
  BY <1>1, <1>3, SeqMonotonic
<1>5. \A i \in 1..Len(c.held) : c.held[i] \in HeldPacket
  BY <1>1, ElementOfSeq
<1> QED
  BY <1>1, <1>2, <1>4, <1>5

LEMMA OutType ==
  ASSUME NEW c \in Transport
  PROVE  Out(c) \in Seq(Packet)
  BY TransportType, PlainIs DEF Out

\* How Out changes with out_pq.
LEMMA OutAppended ==
  ASSUME NEW c \in Transport, NEW d \in Transport, NEW x \in Seq(Packet),
         d.wire = c.wire, d.out_pq = c.out_pq \o x
  PROVE  Out(d) = Out(c) \o x
<1>1. Plain(c.wire) \in Seq(Packet) /\ c.out_pq \in Seq(Packet)
  BY TransportType, PlainIs
<1>2. Out(d) = Plain(c.wire) \o (c.out_pq \o x)
  BY DEF Out
<1>3. (Plain(c.wire) \o c.out_pq) \o x = Plain(c.wire) \o (c.out_pq \o x)
  <2> DEFINE p == Plain(c.wire)
             q == c.out_pq
  <2>1. p \in Seq(Packet) /\ q \in Seq(Packet)
    BY <1>1
  <2> HIDE DEF p, q
  <2>2. (p \o q) \o x = p \o (q \o x)
    BY <2>1, ConcatAssociative
  <2> QED
    BY <2>2 DEF p, q
<1> QED
  BY <1>2, <1>3 DEF Out

LEMMA OutMarshalled ==
  ASSUME NEW c \in Transport, NEW d \in Transport, NEW q \in Seq(Packet), NEW k \in Keys,
         d.wire = c.wire \o Under(q, k)
  PROVE  Out(d) = (Plain(c.wire) \o q) \o d.out_pq
<1>1. c.wire \in Seq(WirePacket)
  BY TransportType
<1>2. Plain(d.wire) = Plain(c.wire) \o q
  BY <1>1, PlainUnder
<1> QED
  BY <1>2 DEF Out

-----------------------------------------------------------------------------
(* Steps of one end                                                         *)

\* d has sent x in addition to what c sent. The higher layer's packets go out behind a
\* NEWKEYS or when there is no exchange, and nothing follows a KEXINIT at once.
Sends(c, d, x) ==
  /\ Out(d) = Out(c) \o x
  /\ InOrder(x, "KEXINIT", c.kexno, d.kexno)
  /\ InOrder(x, "HIGHER", c.sent - Len(c.held), d.sent - Len(d.held))
  /\ \A i \in 1..Len(x) : x[i].type = "KEXINIT" => i = Len(x)
  /\ \A j \in 1..Len(x) : x[j].type = "HIGHER" =>
       c.pc \in After \/ \E k \in 1..(j - 1) : x[k].type = "NEWKEYS"
  /\ d.pc \in After =>
       /\ \A i \in 1..Len(x) : x[i].type # "KEXINIT"
       /\ c.pc \in After \/ \E k \in 1..Len(x) : x[k].type = "NEWKEYS"

\* d has taken the oldest packet, or none.
Takes(c, d) ==
  \/ SameIn(c, d) /\ d.theirs = c.theirs /\ (d.pc \in Mid => c.pc \in Mid)
  \/ /\ c.in_pq # <<>> /\ d.in_pq = Tail(c.in_pq)
     /\ Head(c.in_pq).type = "KEXINIT" => d.theirs = Head(c.in_pq).n
     /\ Head(c.in_pq).type # "KEXINIT" => d.theirs = c.theirs
     /\ Head(c.in_pq).type = "HIGHER" => d.got = Head(c.in_pq).n
     /\ Head(c.in_pq).type # "HIGHER" => d.got = c.got
     /\ d.pc \in Mid => Head(c.in_pq).type = "KEXINIT" \/ (c.pc \in Mid /\ Head(c.in_pq).type # "NEWKEYS")

KeepsKeys(c, d) ==
  Chain(d) /\ Stopped(d) /\ OldestKey(d) = OldestKey(c) /\ NextInKey(d) = NextInKey(c)

Turn(c, d) ==
  /\ d \in Transport /\ Phase(d) /\ HeldInOrder(d) /\ KeepsKeys(c, d) /\ Takes(c, d)
  /\ \E x \in Seq(Packet) : Sends(c, d, x)

LEMMA TypeIs ==
  TypeOK <=> t \in [Ends -> Transport] /\ Rest
  BY DEF TypeOK, Rest, Transport, Packet, WirePacket, HeldPacket

LEMMA TheEnds ==
  ASSUME NEW e \in Ends
  PROVE  /\ Other(e) \in Ends /\ Other(e) # e /\ Other(Other(e)) = e
         /\ \A a \in Ends : a = e \/ a = Other(e)
  BY DEF Ends, Other, Client, Server

\* The stream that gets longer.
LEMMA SendsKeeps ==
  ASSUME NEW c \in Transport, NEW d \in Transport, NEW f \in Transport, NEW x \in Seq(Packet), Sends(c, d, x),
         InOrder(f.in_pq \o Out(c), "KEXINIT", f.theirs, c.kexno),
         InOrder(f.in_pq \o Out(c), "HIGHER", f.got, c.sent - Len(c.held)),
         Quiet(f.in_pq \o Out(c), f.pc \in Mid),
         c.pc \in After => Closed(f.in_pq \o Out(c), f.pc \in Mid)
  PROVE  /\ InOrder(f.in_pq \o Out(d), "KEXINIT", f.theirs, d.kexno)
         /\ InOrder(f.in_pq \o Out(d), "HIGHER", f.got, d.sent - Len(d.held))
         /\ Quiet(f.in_pq \o Out(d), f.pc \in Mid)
         /\ d.pc \in After => Closed(f.in_pq \o Out(d), f.pc \in Mid)
<1> DEFINE p == f.in_pq
           q == Out(c)
           s == p \o q
           mid == f.pc \in Mid
<1>1. p \in Seq(Packet) /\ q \in Seq(Packet)
  BY TransportType, OutType
<1>2. s \in Seq(Packet)
  BY <1>1
<1>3. f.in_pq \o Out(d) = s \o x
  <2>1. Out(d) = q \o x
    BY DEF Sends
  <2> HIDE DEF p, q
  <2>2. (p \o q) \o x = p \o (q \o x)
    BY <1>1, ConcatAssociative
  <2>3. p \o Out(d) = s \o x
    BY <2>1, <2>2
  <2> QED
    BY <2>3 DEF p
<1>4. mid \in BOOLEAN
  OBVIOUS
<1>5. /\ f.theirs \in Int /\ c.kexno \in Int /\ d.kexno \in Int /\ f.got \in Int
      /\ c.sent - Len(c.held) \in Int /\ d.sent - Len(d.held) \in Int
  BY TransportType
<1>6. InOrder(s, "KEXINIT", f.theirs, c.kexno) /\ InOrder(s, "HIGHER", f.got, c.sent - Len(c.held))
  OBVIOUS
<1>7. Quiet(s, mid) /\ (c.pc \in After => Closed(s, mid))
  OBVIOUS
<1> HIDE DEF s, mid
<1>8. InOrder(s \o x, "KEXINIT", f.theirs, d.kexno)
  BY <1>2, <1>5, <1>6, InOrderConcat DEF Sends
<1>9. InOrder(s \o x, "HIGHER", f.got, d.sent - Len(d.held))
  BY <1>2, <1>5, <1>6, InOrderConcat DEF Sends
<1>10. Quiet(s \o x, mid)
  BY <1>2, <1>4, <1>7, QuietConcat DEF Sends
<1>11. d.pc \in After => Closed(s \o x, mid)
  BY <1>2, <1>4, <1>7, ClosedConcat DEF Sends
<1> QED
  BY <1>3, <1>8, <1>9, <1>10, <1>11 DEF mid

\* The stream that gets shorter.
LEMMA TakesKeeps ==
  ASSUME NEW c \in Transport, NEW d \in Transport, NEW f \in Transport, Takes(c, d),
         InOrder(c.in_pq \o Out(f), "KEXINIT", c.theirs, f.kexno),
         InOrder(c.in_pq \o Out(f), "HIGHER", c.got, f.sent - Len(f.held)),
         Quiet(c.in_pq \o Out(f), c.pc \in Mid),
         f.pc \in After => Closed(c.in_pq \o Out(f), c.pc \in Mid)
  PROVE  /\ InOrder(d.in_pq \o Out(f), "KEXINIT", d.theirs, f.kexno)
         /\ InOrder(d.in_pq \o Out(f), "HIGHER", d.got, f.sent - Len(f.held))
         /\ Quiet(d.in_pq \o Out(f), d.pc \in Mid)
         /\ f.pc \in After => Closed(d.in_pq \o Out(f), d.pc \in Mid)
<1> DEFINE q == Out(f)
           s == c.in_pq \o q
           mid == c.pc \in Mid
           now == d.pc \in Mid
<1>1. c.in_pq \in Seq(Packet) /\ q \in Seq(Packet)
  BY TransportType, OutType
<1>2. mid \in BOOLEAN /\ now \in BOOLEAN
  OBVIOUS
<1>3. /\ c.theirs \in Int /\ f.kexno \in Int /\ c.got \in Int /\ f.sent - Len(f.held) \in Int
  BY TransportType
<1>4. /\ InOrder(s, "KEXINIT", c.theirs, f.kexno) /\ InOrder(s, "HIGHER", c.got, f.sent - Len(f.held))
      /\ Quiet(s, mid) /\ (f.pc \in After => Closed(s, mid))
  OBVIOUS
<1>5. CASE SameIn(c, d) /\ d.theirs = c.theirs /\ (now => mid)
  <2>1. (Quiet(s, mid) => Quiet(s, now)) /\ (Closed(s, mid) => Closed(s, now))
    BY <1>5 DEF Quiet, Closed
  <2>2. d.in_pq \o Out(f) = s /\ d.got = c.got
    BY <1>5 DEF SameIn
  <2> QED
    BY <1>4, <1>5, <2>1, <2>2
<1>6. ASSUME c.in_pq # <<>>, d.in_pq = Tail(c.in_pq),
             Head(c.in_pq).type = "KEXINIT" => d.theirs = Head(c.in_pq).n,
             Head(c.in_pq).type # "KEXINIT" => d.theirs = c.theirs,
             Head(c.in_pq).type = "HIGHER" => d.got = Head(c.in_pq).n,
             Head(c.in_pq).type # "HIGHER" => d.got = c.got,
             now => Head(c.in_pq).type = "KEXINIT" \/ (mid /\ Head(c.in_pq).type # "NEWKEYS")
      PROVE  /\ InOrder(d.in_pq \o Out(f), "KEXINIT", d.theirs, f.kexno)
             /\ InOrder(d.in_pq \o Out(f), "HIGHER", d.got, f.sent - Len(f.held))
             /\ Quiet(d.in_pq \o Out(f), now)
             /\ f.pc \in After => Closed(d.in_pq \o Out(f), now)
  <2> DEFINE a == c.in_pq
  <2> HIDE DEF q
  <2>1. a \in Seq(Packet) /\ a # <<>>
    BY <1>1, <1>6
  <2>2. s # <<>> /\ Head(s) = Head(a) /\ Tail(s) = Tail(a) \o q /\ s \in Seq(Packet)
    <3> HIDE DEF a
    <3>1. a \o q \in Seq(Packet) /\ a \o q # <<>> /\ Head(a \o q) = Head(a)
      BY <1>1, <2>1
    <3>2. Tail(a \o q) = Tail(a) \o q
      BY <1>1, <2>1
    <3> QED
      BY <3>1, <3>2 DEF a
  <2>3. d.in_pq \o Out(f) = Tail(s)
    BY <1>6, <2>2 DEF q
  <2> HIDE DEF s, mid, now
  <2>4. InOrder(Tail(s), "KEXINIT", d.theirs, f.kexno)
    BY <1>3, <1>4, <1>6, <2>2, InOrderTail
  <2>5. InOrder(Tail(s), "HIGHER", d.got, f.sent - Len(f.held))
    BY <1>3, <1>4, <1>6, <2>2, InOrderTail
  <2>6. Quiet(Tail(s), now)
    BY <1>2, <1>4, <1>6, <2>2, QuietTail
  <2>7. f.pc \in After => Closed(Tail(s), now)
    BY <1>2, <1>4, <1>6, <2>2, ClosedTail
  <2> QED
    BY <2>3, <2>4, <2>5, <2>6, <2>7
<1> QED
  BY <1>5, <1>6 DEF Takes

\* A turn of one end keeps the invariant.
LEMMA TurnKeeps ==
  ASSUME IInv, NEW e \in Ends, NEW d, Turn(t[e], d), t' = [t EXCEPT ![e] = d], Rest'
  PROVE  IInv'
<1> DEFINE o == Other(e)
<1>1. t \in [Ends -> Transport]
  BY TypeIs DEF IInv
<1>2. /\ o \in Ends /\ o # e /\ Other(o) = e
      /\ \A a \in Ends : a = e \/ a = o
  BY TheEnds
<1> HIDE DEF o
<1>3. d \in Transport /\ t[e] \in Transport /\ t[o] \in Transport
  BY <1>1, <1>2 DEF Turn
<1>4. t'[e] = d /\ t'[o] = t[o] /\ t' \in [Ends -> Transport]
  BY <1>1, <1>2, <1>3
<1>5. TypeOK'
  BY <1>4, TypeIs DEF TypeOK, Rest, Transport, Packet, WirePacket, HeldPacket
<1>6. Locals'
  BY <1>2, <1>4 DEF IInv, Locals, Turn
<1>7. Keyed'
  <2>1. /\ Chain(t[e]) /\ Chain(t[o]) /\ Stopped(t[e]) /\ Stopped(t[o])
        /\ OldestKey(t[e]) = NextInKey(t[o]) /\ OldestKey(t[o]) = NextInKey(t[e])
    BY <1>2 DEF IInv, Keyed, o
  <2>2. Chain(d) /\ Stopped(d) /\ OldestKey(d) = OldestKey(t[e]) /\ NextInKey(d) = NextInKey(t[e])
    BY DEF Turn, KeepsKeys
  <2>3. \A a \in Ends : Chain(t'[a]) /\ Stopped(t'[a]) /\ OldestKey(t'[a]) = NextInKey(t'[Other(a)])
    <3>1. Chain(t'[e]) /\ Stopped(t'[e]) /\ OldestKey(t'[e]) = NextInKey(t'[o])
      BY <1>4, <2>1, <2>2
    <3>2. Chain(t'[o]) /\ Stopped(t'[o]) /\ OldestKey(t'[o]) = NextInKey(t'[e])
      BY <1>4, <2>1, <2>2
    <3>3. Other(e) = o
      BY DEF o
    <3> QED
      BY <1>2, <3>1, <3>2, <3>3
  <2> QED
    BY <2>3 DEF Keyed
<1> DEFINE Streams(s, c, f) ==
             /\ InOrder(s, "KEXINIT", f.theirs, c.kexno)
             /\ InOrder(s, "HIGHER", f.got, c.sent - Len(c.held))
             /\ Quiet(s, f.pc \in Mid)
             /\ c.pc \in After => Closed(s, f.pc \in Mid)
<1>8. \A a \in Ends : Streams(t[Other(a)].in_pq \o Out(t[a]), t[a], t[Other(a)])
  BY DEF IInv, Numbered, Silent, Sent
<1>9. (\A a \in Ends : Streams(t'[Other(a)].in_pq \o Out(t'[a]), t'[a], t'[Other(a)]))
        => Numbered' /\ Silent'
  BY DEF Numbered, Silent, Sent
<1>10. Streams(t[o].in_pq \o Out(t[e]), t[e], t[o]) /\ Streams(t[e].in_pq \o Out(t[o]), t[o], t[e])
  BY <1>2, <1>8, Zenon DEF o
<1>11. Streams(t[o].in_pq \o Out(d), d, t[o])
  <2>1. PICK x \in Seq(Packet) : Sends(t[e], d, x)
    BY DEF Turn
  <2> QED
    BY <1>3, <1>10, <2>1, SendsKeeps
<1>12. Streams(d.in_pq \o Out(t[o]), t[o], d)
  <2>1. Takes(t[e], d)
    BY DEF Turn
  <2> QED
    BY <1>3, <1>10, <2>1, TakesKeeps
<1> HIDE DEF Streams
<1>13. \A a \in Ends : Streams(t'[Other(a)].in_pq \o Out(t'[a]), t'[a], t'[Other(a)])
  <2>1. Streams(t'[o].in_pq \o Out(t'[e]), t'[e], t'[o])
    BY <1>4, <1>11
  <2>2. Streams(t'[e].in_pq \o Out(t'[o]), t'[o], t'[e])
    BY <1>4, <1>12
  <2>3. Other(e) = o
    BY DEF o
  <2> QED
    BY <1>2, <2>1, <2>2, <2>3
<1> QED
  BY <1>5, <1>6, <1>7, <1>9, <1>13 DEF IInv

Good(c) == Phase(c) /\ HeldInOrder(c) /\ Chain(c) /\ Stopped(c)

LEMMA SendsOther ==
  ASSUME NEW c \in Transport, NEW d \in Transport, NEW x \in Seq(Packet), Out(d) = Out(c) \o x,
         \A i \in 1..Len(x) : x[i].type # "KEXINIT" /\ x[i].type # "HIGHER",
         d.kexno = c.kexno, d.sent - Len(d.held) = c.sent - Len(c.held),
         d.pc \in After => c.pc \in After \/ \E k \in 1..Len(x) : x[k].type = "NEWKEYS"
  PROVE  Sends(c, d, x)
<1>1. c.kexno \in Int /\ c.sent - Len(c.held) \in Int
  BY TransportType
<1>2. InOrder(x, "KEXINIT", c.kexno, c.kexno)
  BY <1>1, InOrderNone
<1>3. InOrder(x, "HIGHER", c.sent - Len(c.held), c.sent - Len(c.held))
  BY <1>1, InOrderNone
<1> QED
  BY <1>2, <1>3 DEF Sends

LEMMA SendsNothing ==
  ASSUME NEW c \in Transport, NEW d \in Transport, SameOut(c, d),
         d.kexno = c.kexno, d.sent - Len(d.held) = c.sent - Len(c.held), d.pc \in After => c.pc \in After
  PROVE  Sends(c, d, <<>>)
<1>1. Out(d) = Out(c) /\ Out(c) \in Seq(Packet)
  BY OutType DEF Out, SameOut
<1>2. Out(d) = Out(c) \o <<>> /\ <<>> \in Seq(Packet) /\ Len(<<>>) = 0
  BY <1>1
<1>3. \A i \in 1..0 : FALSE
  OBVIOUS
<1> QED
  BY <1>2, <1>3, SendsOther

LEMMA StoppedTail ==
  ASSUME NEW c \in Transport, NEW d \in Transport, Stopped(c), c.in_pq # <<>>, d.in_pq = Tail(c.in_pq)
  PROVE  /\ /\ Head(c.in_pq).type # "NEWKEYS"
            /\ d.pending_newkeys = c.pending_newkeys
            => Stopped(d)
         /\ /\ Head(c.in_pq).type = "NEWKEYS"
            /\ d.pending_newkeys = FALSE
            => Stopped(d) /\ c.pending_newkeys
<1> DEFINE s == c.in_pq
           r == d.in_pq
<1>1. s \in Seq(Packet)
  BY TransportType
<1>2. /\ Len(s) \in Nat /\ Len(s) > 0 /\ Len(r) = Len(s) - 1
      /\ Head(s) = s[1] /\ r \in Seq(Packet)
      /\ \A i \in 1..Len(r) : i + 1 \in 1..Len(s) /\ r[i] = s[i + 1]
  <2> HIDE DEF s
  <2>1. s # <<>> /\ r = Tail(s)
    BY DEF s
  <2> HIDE DEF r
  <2> QED
    BY <1>1, <2>1, TailAt
<1>3. /\ c.pending_newkeys => s[Len(s)].type = "NEWKEYS"
      /\ \A i \in 1..Len(s) : s[i].type = "NEWKEYS" => c.pending_newkeys /\ i = Len(s)
  BY DEF Stopped
<1> HIDE DEF s, r
<1>4. Len(r) = 0 <=> r = <<>>
  <2>1. r \in Seq(Packet)
    BY <1>2
  <2> QED
    BY <2>1
<1>5. ASSUME Head(s).type # "NEWKEYS", d.pending_newkeys = c.pending_newkeys
      PROVE  Stopped(d)
  <2>1. ASSUME NEW i \in 1..Len(r), r[i].type = "NEWKEYS" PROVE d.pending_newkeys /\ i = Len(r)
    <3>1. i + 1 \in 1..Len(s) /\ s[i + 1].type = "NEWKEYS"
      BY <1>2, <2>1
    <3>2. c.pending_newkeys /\ i + 1 = Len(s)
      BY <1>3, <3>1
    <3>3. i = Len(r)
      BY <1>2, <3>2
    <3>4. d.pending_newkeys
      BY <1>5, <3>2
    <3> QED
      BY <3>3, <3>4
  <2>2. ASSUME d.pending_newkeys PROVE r # <<>> /\ r[Len(r)].type = "NEWKEYS"
    <3>1. s[Len(s)].type = "NEWKEYS" /\ Len(s) # 1
      BY <1>2, <1>3, <1>5, <2>2
    <3>2. Len(r) \in 1..Len(r) /\ Len(r) + 1 = Len(s)
      BY <1>2, <3>1
    <3> QED
      BY <1>2, <1>4, <3>1, <3>2
  <2> QED
    BY <2>1, <2>2 DEF Stopped, r
<1>6. ASSUME Head(s).type = "NEWKEYS", d.pending_newkeys = FALSE
      PROVE  Stopped(d) /\ c.pending_newkeys
  <2>1. 1 \in 1..Len(s)
    BY <1>2
  <2>2. c.pending_newkeys /\ Len(s) = 1
    BY <1>2, <1>3, <1>6, <2>1
  <2>3. Len(r) = 0
    BY <1>2, <2>2
  <2>4. \A i \in 1..Len(r) : FALSE
    BY <2>3
  <2> QED
    BY <1>6, <2>2, <2>4 DEF Stopped, r
<1> QED
  BY <1>5, <1>6 DEF s

LEMMA KeepsKeysSame ==
  ASSUME NEW c \in Transport, NEW d \in Transport, Chain(c), Stopped(c), SameKeys(c, d), d.wire = c.wire,
         \A i \in 1..Len(d.out_pq) : d.out_pq[i].type # "NEWKEYS",
         d.in_pq = c.in_pq \/ (c.in_pq # <<>> /\ d.in_pq = Tail(c.in_pq) /\ Head(c.in_pq).type # "NEWKEYS")
  PROVE  KeepsKeys(c, d)
<1>1. Chain(d)
  BY DEF Chain, SameKeys
<1>2. Stopped(d)
  <2>1. CASE d.in_pq = c.in_pq
    BY <2>1 DEF Stopped, SameKeys
  <2>2. CASE c.in_pq # <<>> /\ d.in_pq = Tail(c.in_pq) /\ Head(c.in_pq).type # "NEWKEYS"
    BY <2>2, StoppedTail DEF SameKeys
  <2> QED
    BY <2>1, <2>2
<1>3. OldestKey(d) = OldestKey(c) /\ NextInKey(d) = NextInKey(c)
  BY DEF OldestKey, NextInKey, SameKeys
<1> QED
  BY <1>1, <1>2, <1>3 DEF KeepsKeys

\* More packets on the wire, under the key in force; if the last is a NEWKEYS, the key changes.
LEMMA ChainMore ==
  ASSUME NEW c \in Transport, NEW d \in Transport, Chain(c), NEW q \in Seq(Packet),
         d.wire = c.wire \o Under(q, c.outkey),
         \A i \in 1..Len(q) : q[i].type = "NEWKEYS" => i = Len(q),
         Len(q) > 0 /\ q[Len(q)].type = "NEWKEYS" => d.outkey = Bump(c.outkey),
         Len(q) = 0 \/ q[Len(q)].type # "NEWKEYS" => d.outkey = c.outkey,
         \A i \in 1..Len(d.out_pq) : d.out_pq[i].type # "NEWKEYS"
  PROVE  Chain(d) /\ OldestKey(d) = OldestKey(c)
<1> DEFINE w == c.wire
           u == Under(q, c.outkey)
           v == d.wire
<1>1. /\ u \in Seq(WirePacket) /\ Len(u) = Len(q)
      /\ \A i \in 1..Len(q) : u[i].type = q[i].type /\ u[i].key = c.outkey
  BY UnderType, TransportType
<1>2. w \in Seq(WirePacket) /\ v = w \o u
  BY TransportType
<1> HIDE DEF w, u, v
<1>3. /\ Len(v) = Len(w) + Len(q) /\ Len(w) \in Nat /\ Len(q) \in Nat
      /\ \A i \in 1..Len(w) : v[i] = w[i]
      /\ \A i \in 1..Len(q) : v[Len(w) + i] = u[i]
  <2>1. u \in Seq(WirePacket) /\ w \in Seq(WirePacket)
    BY <1>1, <1>2
  <2>2. /\ Len(w \o u) = Len(w) + Len(u) /\ Len(w) \in Nat
        /\ \A i \in 1..Len(w) : (w \o u)[i] = w[i]
        /\ \A i \in 1..Len(u) : (w \o u)[Len(w) + i] = u[i]
    BY <2>1, ConcatAt
  <2>3. Len(u) = Len(q) /\ Len(q) \in Nat
    BY <1>1
  <2> QED
    BY <1>2, <2>2, <2>3
<1>4. /\ \A i \in 1..Len(w) - 1 : w[i + 1].key = KeyAfter(w[i])
      /\ w # <<>> => c.outkey = KeyAfter(w[Len(w)])
  BY DEF Chain, w
<1>5. (w = <<>> <=> Len(w) = 0) /\ (v = <<>> <=> Len(v) = 0)
  <2>1. w \in Seq(WirePacket) /\ v \in Seq(WirePacket)
    BY <1>1, <1>2
  <2>2. w = <<>> <=> Len(w) = 0
    BY <2>1
  <2>3. v = <<>> <=> Len(v) = 0
    BY <2>1
  <2> QED
    BY <2>2, <2>3
<1>6. \A i \in 1..Len(q) : /\ v[Len(w) + i].key = c.outkey /\ v[Len(w) + i].type = q[i].type
  BY <1>1, <1>3
<1>7. ASSUME NEW i \in 1..Len(v) - 1 PROVE v[i + 1].key = KeyAfter(v[i])
  <2>1. CASE i < Len(w)
    <3>1. i \in 1..Len(w) - 1 /\ i \in 1..Len(w) /\ i + 1 \in 1..Len(w)
      BY <1>3, <2>1
    <3> QED
      BY <1>3, <1>4, <3>1
  <2>2. CASE i = Len(w)
    <3>1. i \in 1..Len(w) /\ 1 \in 1..Len(q) /\ w # <<>>
      BY <1>3, <1>5, <2>2
    <3>2. v[i + 1].key = c.outkey /\ v[i] = w[i]
      BY <1>3, <1>6, <2>2, <3>1
    <3> QED
      BY <1>4, <2>2, <3>1, <3>2
  <2>3. CASE i > Len(w)
    <3>1. PICK j \in 1..Len(q) : i = Len(w) + j
      <4>1. i - Len(w) \in 1..Len(q) /\ i = Len(w) + (i - Len(w))
        BY <1>3, <2>3
      <4> QED
        BY <4>1
    <3>2. j + 1 \in 1..Len(q) /\ i + 1 = Len(w) + (j + 1) /\ j # Len(q)
      BY <1>3, <3>1
    <3>3. v[i].key = c.outkey /\ v[i].type # "NEWKEYS"
      BY <1>6, <3>1, <3>2
    <3>4. v[i + 1].key = c.outkey
      BY <1>6, <3>2
    <3> QED
      BY <3>3, <3>4 DEF KeyAfter
  <2> QED
    BY <1>3, <2>1, <2>2, <2>3
<1>8. ASSUME v # <<>> PROVE d.outkey = KeyAfter(v[Len(v)])
  <2>1. CASE Len(q) = 0
    <3>1. w # <<>> /\ Len(v) = Len(w) /\ Len(w) \in 1..Len(w)
      BY <1>3, <1>5, <1>8, <2>1
    <3>2. v[Len(v)] = w[Len(w)] /\ d.outkey = c.outkey
      BY <1>3, <2>1, <3>1
    <3> QED
      BY <1>4, <3>1, <3>2
  <2>2. CASE Len(q) # 0
    <3>1. Len(q) \in 1..Len(q) /\ Len(v) = Len(w) + Len(q) /\ Len(q) > 0
      BY <1>3, <2>2
    <3>2. v[Len(v)].key = c.outkey /\ v[Len(v)].type = q[Len(q)].type
      BY <1>6, <3>1
    <3> QED
      BY <3>1, <3>2 DEF KeyAfter
  <2> QED
    BY <2>1, <2>2
<1>9. Chain(d)
  BY <1>7, <1>8 DEF Chain, v
<1>10. OldestKey(d) = OldestKey(c)
  <2>1. CASE Len(w) # 0
    <3>1. 1 \in 1..Len(w) /\ w # <<>> /\ v # <<>>
      BY <1>3, <1>5, <2>1
    <3> QED
      BY <1>3, <3>1 DEF OldestKey, v, w
  <2>2. CASE Len(w) = 0 /\ Len(q) # 0
    <3>1. 1 \in 1..Len(q) /\ w = <<>> /\ v # <<>> /\ Len(w) + 1 = 1
      BY <1>3, <1>5, <2>2
    <3>2. v[1].key = c.outkey
      BY <1>6, <3>1
    <3> QED
      BY <3>1, <3>2 DEF OldestKey, v, w
  <2>3. CASE Len(w) = 0 /\ Len(q) = 0
    <3>1. w = <<>> /\ v = <<>> /\ d.outkey = c.outkey
      BY <1>3, <1>5, <2>3
    <3> QED
      BY <3>1 DEF OldestKey, v, w
  <2> QED
    BY <2>1, <2>2, <2>3
<1> QED
  BY <1>9, <1>10

-----------------------------------------------------------------------------
(* What a turn is made of: each lemma describes the outcome by its fields   *)

\* The coroutine goes on elsewhere in the same part of an exchange, or nowhere.
LEMMA TurnMoves ==
  ASSUME NEW c \in Transport, NEW d \in Transport, Good(c),
         SameKeys(c, d), SameKexinits(c, d), SameHeld(c, d), SameIn(c, d), SameOut(c, d),
         d.pc = c.pc \/ (c.pc \in Before /\ d.pc \in Before) \/ (c.pc \in {"service", "run"} /\ d.pc = "run")
  PROVE  Turn(c, d)
<1>1. Phase(d)
  BY DEF Good, Phase, SameKeys, SameKexinits, Before
<1>2. HeldInOrder(d)
  BY DEF Good, HeldInOrder, SameHeld
<1>3. KeepsKeys(c, d)
  <2>1. \A i \in 1..Len(d.out_pq) : d.out_pq[i].type # "NEWKEYS"
    BY DEF SameOut, Good, Chain
  <2> QED
    BY <2>1, KeepsKeysSame DEF Good, SameIn, SameOut
<1>4. Takes(c, d)
  BY DEF Takes, SameKexinits, Mid, Before
<1>5. Sends(c, d, <<>>)
  <2>1. d.kexno = c.kexno /\ d.sent - Len(d.held) = c.sent - Len(c.held) /\ (d.pc \in After => c.pc \in After)
    BY DEF SameKexinits, SameHeld, After, Before
  <2> QED
    BY <2>1, SendsNothing
<1>6. <<>> \in Seq(Packet)
  OBVIOUS
<1> QED
  BY <1>1, <1>2, <1>3, <1>4, <1>5, <1>6 DEF Turn

\* One turn after another, if the second takes no packet.
LEMMA TurnThen ==
  ASSUME NEW c \in Transport, NEW b \in Transport, NEW d, Turn(c, b), Turn(b, d), b.kexno = c.kexno,
         SameIn(b, d), d.theirs = b.theirs, d.pc \in Mid => b.pc \in Mid
  PROVE  Turn(c, d)
<1>1. d \in Transport /\ Phase(d) /\ HeldInOrder(d)
  BY DEF Turn
<1>2. KeepsKeys(c, d)
  BY DEF Turn, KeepsKeys
<1>3. Takes(c, d)
  <2>1. d.in_pq = b.in_pq /\ d.got = b.got
    BY DEF SameIn
  <2>2. Takes(c, b)
    BY DEF Turn
  <2> QED
    BY <2>1, <2>2 DEF Takes, SameIn
<1>4. PICK x \in Seq(Packet) : Sends(c, b, x)
  BY DEF Turn
<1>5. PICK y \in Seq(Packet) : Sends(b, d, y)
  BY DEF Turn
<1> DEFINE z == x \o y
<1>6. z \in Seq(Packet)
  OBVIOUS
<1>7. Out(d) = Out(c) \o z
  <2>1. Out(d) = (Out(c) \o x) \o y
    BY <1>4, <1>5 DEF Sends
  <2> DEFINE p == Out(c)
  <2>2. p \in Seq(Packet)
    BY OutType
  <2> HIDE DEF p
  <2>3. (p \o x) \o y = p \o (x \o y)
    BY <2>2, ConcatAssociative
  <2> QED
    BY <2>1, <2>3 DEF p
<1>8. /\ c.kexno \in Int /\ b.kexno \in Int /\ d.kexno \in Int
      /\ c.sent - Len(c.held) \in Int /\ b.sent - Len(b.held) \in Int /\ d.sent - Len(d.held) \in Int
  BY <1>1, TransportType
<1>9. InOrder(z, "KEXINIT", c.kexno, d.kexno)
  BY <1>4, <1>5, <1>8, InOrderConcat DEF Sends
<1>10. InOrder(z, "HIGHER", c.sent - Len(c.held), d.sent - Len(d.held))
  BY <1>4, <1>5, <1>8, InOrderConcat DEF Sends
<1>11. \A i \in 1..Len(x) : x[i].type # "KEXINIT"
  <2>1. InOrder(x, "KEXINIT", c.kexno, c.kexno)
    BY <1>4 DEF Sends
  <2>2. \A i \in 1..Len(x) : x[i].type = "KEXINIT" => c.kexno < x[i].n /\ x[i].n <= c.kexno
    BY <1>8, <2>1, InOrderIs
  <2>3. \A i \in 1..Len(x) : x[i].n \in Int
    BY PacketOf
  <2> QED
    BY <1>8, <2>2, <2>3
<1>12. /\ Len(z) = Len(x) + Len(y) /\ Len(x) \in Nat /\ Len(y) \in Nat
       /\ \A i \in 1..Len(x) : z[i] = x[i]
       /\ \A i \in 1..Len(y) : z[Len(x) + i] = y[i]
  BY ConcatAt
<1>13. \A i \in 1..Len(z) : \/ i \in 1..Len(x) /\ z[i] = x[i]
                            \/ \E k \in 1..Len(y) : i = Len(x) + k /\ z[i] = y[k]
  BY PacketCases
<1> HIDE DEF z
<1>14. ASSUME NEW i \in 1..Len(z), z[i].type = "KEXINIT" PROVE i = Len(z)
  <2>1. PICK k \in 1..Len(y) : i = Len(x) + k /\ z[i] = y[k]
    BY <1>11, <1>13, <1>14
  <2>2. k = Len(y)
    BY <1>5, <1>14, <2>1 DEF Sends
  <2> QED
    BY <1>12, <2>1, <2>2
<1>15. b.pc \in After => c.pc \in After \/ \E k \in 1..Len(x) : x[k].type = "NEWKEYS"
  BY <1>4 DEF Sends
<1>16. \A k \in 1..Len(x) : k \in 1..Len(z) /\ z[k] = x[k]
  BY <1>12
<1>17. ASSUME NEW j \in 1..Len(z), z[j].type = "HIGHER"
       PROVE  c.pc \in After \/ \E k \in 1..(j - 1) : z[k].type = "NEWKEYS"
  <2>1. CASE j \in 1..Len(x) /\ z[j] = x[j]
    <3>1. c.pc \in After \/ \E k \in 1..(j - 1) : x[k].type = "NEWKEYS"
      BY <1>4, <1>17, <2>1 DEF Sends
    <3>2. \A k \in 1..(j - 1) : k \in 1..Len(x)
      BY <1>12, <2>1
    <3> QED
      BY <1>16, <3>1, <3>2
  <2>2. ASSUME NEW m \in 1..Len(y), j = Len(x) + m, z[j] = y[m]
        PROVE  c.pc \in After \/ \E k \in 1..(j - 1) : z[k].type = "NEWKEYS"
    <3>1. b.pc \in After \/ \E k \in 1..(m - 1) : y[k].type = "NEWKEYS"
      BY <1>5, <1>17, <2>2 DEF Sends
    <3>2. \A k \in 1..Len(x) : k \in 1..(j - 1)
      BY <1>12, <2>2
    <3>3. \A k \in 1..(m - 1) : Len(x) + k \in 1..(j - 1) /\ z[Len(x) + k] = y[k]
      BY <1>12, <2>2
    <3> QED
      BY <1>15, <1>16, <3>1, <3>2, <3>3
  <2> QED
    BY <1>13, <2>1, <2>2
<1>18. ASSUME d.pc \in After
       PROVE  /\ \A i \in 1..Len(z) : z[i].type # "KEXINIT"
              /\ c.pc \in After \/ \E k \in 1..Len(z) : z[k].type = "NEWKEYS"
  <2>1. /\ \A i \in 1..Len(y) : y[i].type # "KEXINIT"
        /\ b.pc \in After \/ \E k \in 1..Len(y) : y[k].type = "NEWKEYS"
    BY <1>5, <1>18 DEF Sends
  <2>2. \A i \in 1..Len(z) : z[i].type # "KEXINIT"
    BY <1>11, <1>13, <2>1
  <2>3. \A k \in 1..Len(y) : Len(x) + k \in 1..Len(z) /\ z[Len(x) + k] = y[k]
    BY <1>12
  <2> QED
    BY <1>15, <1>16, <2>1, <2>2, <2>3
<1>19. Sends(c, d, z)
  BY <1>7, <1>9, <1>10, <1>14, <1>17, <1>18 DEF Sends
<1> QED
  BY <1>1, <1>2, <1>3, <1>6, <1>19 DEF Turn

\* What comes out of a turn may differ in the fields the invariant does not speak of.
LEMMA TurnAlike ==
  ASSUME NEW c \in Transport, NEW b \in Transport, NEW d \in Transport, Turn(c, b), Alike(b, d)
  PROVE  Turn(c, d)
<1>1. Phase(d) /\ HeldInOrder(d) /\ Chain(d) /\ Stopped(d)
  BY DEF Turn, KeepsKeys, Alike, Phase, HeldInOrder, Chain, Stopped, SameKeys, SameKexinits, SameHeld,
         SameIn, SameOut
<1>2. OldestKey(d) = OldestKey(c) /\ NextInKey(d) = NextInKey(c)
  BY DEF Turn, KeepsKeys, Alike, OldestKey, NextInKey, SameKeys, SameOut
<1>3. Takes(c, d)
  <2>1. d.pc = b.pc /\ d.in_pq = b.in_pq /\ d.got = b.got /\ d.theirs = b.theirs
    BY DEF Alike, SameIn, SameKexinits
  <2>2. Takes(c, b)
    BY DEF Turn
  <2> QED
    BY <2>1, <2>2 DEF Takes, SameIn
<1>4. PICK x \in Seq(Packet) : Sends(c, b, x)
  BY DEF Turn
<1>5. Sends(c, d, x)
  <2>1. d.pc = b.pc /\ d.kexno = b.kexno /\ d.sent = b.sent /\ d.held = b.held
    BY DEF Alike, SameHeld, SameKexinits
  <2>2. Out(d) = Out(b)
    BY DEF Alike, SameOut, Out
  <2> QED
    BY <1>4, <2>1, <2>2 DEF Sends
<1> QED
  BY <1>1, <1>2, <1>3, <1>5 DEF Turn, KeepsKeys

\* A packet is taken that changes nothing else yet.
LEMMA TurnTakes ==
  ASSUME NEW c \in Transport, NEW d \in Transport, Good(c), c.in_pq # <<>>, d.in_pq = Tail(c.in_pq),
         Head(c.in_pq).type \notin {"KEXINIT", "NEWKEYS"},
         Head(c.in_pq).type = "HIGHER" => d.got = Head(c.in_pq).n,
         Head(c.in_pq).type # "HIGHER" => d.got = c.got,
         d.pc = c.pc, SameKeys(c, d), SameKexinits(c, d), SameHeld(c, d), SameOut(c, d)
  PROVE  Turn(c, d)
<1>1. Phase(d)
  BY DEF Good, Phase, SameKeys, SameKexinits
<1>2. HeldInOrder(d)
  BY DEF Good, HeldInOrder, SameHeld
<1>3. KeepsKeys(c, d)
  <2>1. \A i \in 1..Len(d.out_pq) : d.out_pq[i].type # "NEWKEYS"
    BY DEF SameOut, Good, Chain
  <2> QED
    BY <2>1, KeepsKeysSame DEF Good, SameOut
<1>4. Takes(c, d)
  BY DEF Takes, SameKexinits
<1>5. Sends(c, d, <<>>)
  <2>1. d.kexno = c.kexno /\ d.sent - Len(d.held) = c.sent - Len(c.held) /\ (d.pc \in After => c.pc \in After)
    BY DEF SameKexinits, SameHeld
  <2> QED
    BY <2>1, SendsNothing
<1>6. <<>> \in Seq(Packet)
  OBVIOUS
<1> QED
  BY <1>1, <1>2, <1>3, <1>4, <1>5, <1>6 DEF Turn

\* The far end's KEXINIT is taken.
LEMMA TurnTakesKexinit ==
  ASSUME NEW c \in Transport, NEW d \in Transport, Good(c), c.pc = "kexinit",
         c.in_pq # <<>>, d.in_pq = Tail(c.in_pq), Head(c.in_pq).type = "KEXINIT",
         Head(c.in_pq).n = c.theirs + 1, d.theirs = Head(c.in_pq).n, d.got = c.got, d.kexno = c.kexno,
         d.pc \in Before, SameKeys(c, d), SameHeld(c, d), SameOut(c, d)
  PROVE  Turn(c, d)
<1>1. Phase(d)
  BY DEF Good, Phase, SameKeys, Before
<1>2. HeldInOrder(d)
  BY DEF Good, HeldInOrder, SameHeld
<1>3. KeepsKeys(c, d)
  <2>1. \A i \in 1..Len(d.out_pq) : d.out_pq[i].type # "NEWKEYS"
    BY DEF SameOut, Good, Chain
  <2> QED
    BY <2>1, KeepsKeysSame DEF Good, SameOut
<1>4. Takes(c, d)
  BY DEF Takes
<1>5. Sends(c, d, <<>>)
  <2>1. d.kexno = c.kexno /\ d.sent - Len(d.held) = c.sent - Len(c.held) /\ (d.pc \in After => c.pc \in After)
    BY DEF SameHeld, Before, After
  <2> QED
    BY <2>1, SendsNothing
<1>6. <<>> \in Seq(Packet)
  OBVIOUS
<1> QED
  BY <1>1, <1>2, <1>3, <1>4, <1>5, <1>6 DEF Turn

\* The far end's NEWKEYS is taken, and the key changes.
LEMMA TurnTakesNewKeys ==
  ASSUME NEW c \in Transport, NEW d \in Transport, Good(c), c.pc = "newkeys",
         c.in_pq # <<>>, d.in_pq = Tail(c.in_pq), Head(c.in_pq).type = "NEWKEYS",
         d.inkey = Key(c.kexno), d.outkey = c.outkey, d.pending_newkeys = FALSE, d.got = c.got,
         d.pc \in {"service", "run"}, SameKexinits(c, d), SameHeld(c, d), SameOut(c, d)
  PROVE  Turn(c, d)
<1>1. c.kexno \in Nat /\ c.kexno > 0 /\ c.theirs = c.kexno /\ c.outkey = Key(c.kexno) /\ c.inkey = Key(c.kexno - 1)
  BY TransportType DEF Good, Phase
<1>2. Phase(d)
  BY <1>1 DEF Phase, SameKexinits, Before
<1>3. HeldInOrder(d)
  BY DEF Good, HeldInOrder, SameHeld
<1>4. Stopped(d) /\ c.pending_newkeys
  BY StoppedTail DEF Good
<1>5. Chain(d) /\ OldestKey(d) = OldestKey(c)
  BY DEF Good, Chain, SameOut, OldestKey
<1>6. NextInKey(d) = NextInKey(c)
  <2>1. NextInKey(d) = Key(c.kexno) /\ NextInKey(c) = Bump(Key(c.kexno - 1))
    BY <1>1, <1>4 DEF NextInKey
  <2>2. Bump(Key(c.kexno - 1)) = Key(c.kexno)
    BY <1>1 DEF Bump, Key
  <2> QED
    BY <2>1, <2>2
<1>7. Takes(c, d)
  BY DEF Takes, SameKexinits, Mid
<1>8. Sends(c, d, <<>>)
  <2>1. d.kexno = c.kexno /\ d.sent - Len(d.held) = c.sent - Len(c.held) /\ (d.pc \in After => c.pc \in After)
    BY DEF SameKexinits, SameHeld, After
  <2> QED
    BY <2>1, SendsNothing
<1>9. <<>> \in Seq(Packet)
  OBVIOUS
<1> QED
  BY <1>2, <1>3, <1>4, <1>5, <1>6, <1>7, <1>8, <1>9 DEF Turn, KeepsKeys

\* A packet of the key exchange, or a service packet, is queued.
LEMMA TurnPushes ==
  ASSUME NEW c \in Transport, NEW d \in Transport, Good(c),
         NEW type \in PacketTypes \ {"KEXINIT", "HIGHER", "NEWKEYS"},
         d.pc = c.pc, SameKeys(c, d), SameKexinits(c, d), SameHeld(c, d), SameIn(c, d),
         d.wire = c.wire, d.out_pq = Append(c.out_pq, [type |-> type, n |-> 0])
  PROVE  Turn(c, d)
<1> DEFINE p == [type |-> type, n |-> 0]
           x == <<p>>
<1>1. p \in Packet /\ p.type \notin {"KEXINIT", "HIGHER", "NEWKEYS"}
  BY DEF Packet
<1>2. c.out_pq \in Seq(Packet)
  BY TransportType
<1>3. \A i \in 1..Len(c.out_pq) : c.out_pq[i].type # "NEWKEYS"
  BY DEF Good, Chain
<1> HIDE DEF p
<1>4. x \in Seq(Packet) /\ Len(x) = 1 /\ x[1] = p
  BY <1>1
<1>5. d.out_pq = c.out_pq \o x
  <2>1. d.out_pq = Append(c.out_pq, p)
    BY DEF p
  <2> DEFINE q == c.out_pq
  <2>2. q \in Seq(Packet)
    BY <1>2
  <2> HIDE DEF q
  <2>3. Append(q, p) = q \o <<p>>
    BY <1>1, <2>2, AppendIsConcat
  <2> QED
    BY <2>1, <2>3 DEF q
<1> HIDE DEF x
<1>6. Out(d) = Out(c) \o x
  BY <1>4, <1>5, OutAppended
<1>7. \A i \in 1..Len(x) : x[i].type \notin {"KEXINIT", "HIGHER", "NEWKEYS"}
  BY <1>1, <1>4
<1>8. Sends(c, d, x)
  <2>1. d.kexno = c.kexno /\ d.sent - Len(d.held) = c.sent - Len(c.held)
    BY DEF SameKexinits, SameHeld
  <2> QED
    BY <1>4, <1>6, <1>7, <2>1, SendsOther
<1>9. \A i \in 1..Len(d.out_pq) : d.out_pq[i].type # "NEWKEYS"
  <2> DEFINE q == c.out_pq
  <2>1. q \in Seq(Packet) /\ d.out_pq = q \o x
    BY <1>2, <1>5
  <2>2. \A i \in 1..Len(q) : q[i].type # "NEWKEYS"
    BY <1>3
  <2> HIDE DEF q
  <2>3. \A i \in 1..Len(x) : x[i].type # "NEWKEYS"
    BY <1>7
  <2>4. \A i \in 1..Len(q \o x) : (q \o x)[i].type # "NEWKEYS"
    BY <1>4, <2>1, <2>2, <2>3, ConcatNone
  <2> QED
    BY <2>1, <2>4
<1>10. KeepsKeys(c, d)
  BY <1>9, KeepsKeysSame DEF Good, SameIn
<1>11. Phase(d) /\ HeldInOrder(d)
  BY DEF Good, Phase, HeldInOrder, SameKeys, SameKexinits, SameHeld
<1>12. Takes(c, d)
  BY DEF Takes, SameKexinits
<1> QED
  BY <1>4, <1>8, <1>10, <1>11, <1>12 DEF Turn

\* The packets held back, in their order.
LEMMA HeldRun ==
  ASSUME NEW c \in Transport, HeldInOrder(c)
  PROVE  InOrder(c.held, "HIGHER", c.sent - Len(c.held), c.sent)
<1> DEFINE h == c.held
           lo == c.sent - Len(c.held)
<1>1. h \in Seq(Packet) /\ lo \in Int /\ lo + Len(h) = c.sent
      /\ \A i \in 1..Len(h) : h[i].type = "HIGHER"
  BY TransportType
<1>2. \A i \in 1..Len(h) : h[i].type = "HIGHER" /\ h[i].n = lo + i
  BY <1>1 DEF HeldInOrder
<1> HIDE DEF h, lo
<1>3. InOrder(h, "HIGHER", lo, lo + Len(h))
  BY <1>1, <1>2, InOrderRun
<1> QED
  BY <1>1, <1>3 DEF h, lo

\* An exchange begins.
LEMMA TurnBegins ==
  ASSUME NEW c \in Transport, NEW d \in Transport, Good(c), c.pc \in {"start", "run"},
         d.pc = "kexinit", d.kexno = c.kexno + 1, d.theirs = c.theirs,
         SameKeys(c, d), SameHeld(c, d), SameIn(c, d),
         d.wire = c.wire, d.out_pq = Append(c.out_pq, [type |-> "KEXINIT", n |-> c.kexno + 1])
  PROVE  Turn(c, d)
<1> DEFINE p == [type |-> "KEXINIT", n |-> c.kexno + 1]
           x == <<p>>
<1>1. c.kexno \in Nat /\ c.out_pq \in Seq(Packet)
  BY TransportType
<1>2. p \in Packet /\ p.type = "KEXINIT" /\ p.n = c.kexno + 1
  BY <1>1 DEF Packet, PacketTypes, TransportTypes
<1>3. d.out_pq = Append(c.out_pq, p)
  OBVIOUS
<1> HIDE DEF p
<1>4. x \in Seq(Packet) /\ Len(x) = 1 /\ x[1] = p
  BY <1>2
<1>5. d.out_pq = c.out_pq \o x
  <2> DEFINE q == c.out_pq
  <2>1. q \in Seq(Packet)
    BY <1>1
  <2> HIDE DEF q
  <2>2. Append(q, p) = q \o <<p>>
    BY <1>2, <2>1, AppendIsConcat
  <2> QED
    BY <1>3, <2>2 DEF q
<1> HIDE DEF x
<1>6. Out(d) = Out(c) \o x
  BY <1>4, <1>5, OutAppended
<1>7. \A i \in 1..Len(x) : i = 1 /\ x[i] = p
  BY <1>4
<1>8. Sends(c, d, x)
  <2>1. InOrder(x, "KEXINIT", c.kexno, c.kexno + 1)
    <3>1. \A i \in 1..Len(x) : x[i].type = "KEXINIT" /\ x[i].n = c.kexno + i
      BY <1>2, <1>7
    <3> DEFINE lo == c.kexno
    <3>2. lo \in Int /\ x \in Seq(Packet) /\ \A i \in 1..Len(x) : x[i].type = "KEXINIT" /\ x[i].n = lo + i
      BY <1>1, <1>4, <3>1
    <3> HIDE DEF lo
    <3>3. InOrder(x, "KEXINIT", lo, lo + Len(x))
      BY <3>2, InOrderRun
    <3> QED
      BY <1>4, <3>3 DEF lo
  <2>2. InOrder(x, "HIGHER", c.sent - Len(c.held), d.sent - Len(d.held))
    <3>1. c.sent - Len(c.held) \in Int /\ d.sent - Len(d.held) = c.sent - Len(c.held)
      BY TransportType DEF SameHeld
    <3>2. \A i \in 1..Len(x) : x[i].type # "HIGHER"
      BY <1>2, <1>7
    <3>3. InOrder(x, "HIGHER", c.sent - Len(c.held), c.sent - Len(c.held))
      BY <1>4, <3>1, <3>2, InOrderNone
    <3> QED
      BY <3>1, <3>3
  <2>3. \A i \in 1..Len(x) : i = Len(x) /\ x[i].type = "KEXINIT"
    BY <1>2, <1>4, <1>7
  <2>4. d.pc \notin After
    BY DEF After
  <2> QED
    BY <1>6, <2>1, <2>2, <2>3, <2>4 DEF Sends
<1>9. \A i \in 1..Len(d.out_pq) : d.out_pq[i].type # "NEWKEYS"
  <2> DEFINE q == c.out_pq
  <2>1. q \in Seq(Packet) /\ d.out_pq = q \o x
    BY <1>1, <1>5
  <2>2. \A i \in 1..Len(q) : q[i].type # "NEWKEYS"
    BY DEF Good, Chain
  <2>3. \A i \in 1..Len(x) : x[i].type # "NEWKEYS"
    BY <1>2, <1>7
  <2> HIDE DEF q
  <2>4. \A i \in 1..Len(q \o x) : (q \o x)[i].type # "NEWKEYS"
    BY <1>4, <2>1, <2>2, <2>3, ConcatNone
  <2> QED
    BY <2>1, <2>4
<1>10. KeepsKeys(c, d)
  BY <1>9, KeepsKeysSame DEF Good, SameIn
<1>11. Phase(d)
  BY <1>1 DEF Good, Phase, SameKeys, Before
<1>12. HeldInOrder(d)
  BY DEF Good, HeldInOrder, SameHeld
<1>13. Takes(c, d)
  BY DEF Takes, Mid
<1> QED
  BY <1>4, <1>8, <1>10, <1>11, <1>12, <1>13 DEF Turn

\* What was held back is queued, while no exchange is under way.
LEMMA TurnFlushes ==
  ASSUME NEW c \in Transport, NEW d \in Transport, Good(c), c.pc = "run", d.pc = "run",
         SameKeys(c, d), SameKexinits(c, d), SameIn(c, d), d.sent = c.sent, d.held = <<>>,
         d.wire = c.wire, d.out_pq = c.out_pq \o c.held
  PROVE  Turn(c, d)
<1> DEFINE x == c.held
<1>1. /\ x \in Seq(Packet) /\ c.out_pq \in Seq(Packet) /\ c.kexno \in Int
      /\ \A i \in 1..Len(x) : x[i].type = "HIGHER"
  BY TransportType
<1>2. InOrder(x, "HIGHER", c.sent - Len(c.held), c.sent)
  BY HeldRun DEF Good
<1>3. d.out_pq = c.out_pq \o x
  OBVIOUS
<1> HIDE DEF x
<1>4. Out(d) = Out(c) \o x
  BY <1>1, <1>3, OutAppended
<1>5. d.sent - Len(d.held) = c.sent
  <2>1. Len(d.held) = 0 /\ c.sent \in Nat
    BY TransportType
  <2> QED
    BY <2>1
<1>6. Sends(c, d, x)
  <2>1. \A i \in 1..Len(x) : x[i].type # "KEXINIT"
    BY <1>1
  <2>2. InOrder(x, "KEXINIT", c.kexno, c.kexno)
    BY <1>1, <2>1, InOrderNone
  <2>3. c.pc \in After /\ d.kexno = c.kexno
    BY DEF After, SameKexinits
  <2> QED
    BY <1>2, <1>4, <1>5, <2>1, <2>2, <2>3 DEF Sends
<1>7. \A i \in 1..Len(d.out_pq) : d.out_pq[i].type # "NEWKEYS"
  <2> DEFINE q == c.out_pq
  <2>1. q \in Seq(Packet) /\ d.out_pq = q \o x
    BY <1>1, <1>3
  <2>2. \A i \in 1..Len(q) : q[i].type # "NEWKEYS"
    BY DEF Good, Chain
  <2>3. \A i \in 1..Len(x) : x[i].type # "NEWKEYS"
    BY <1>1
  <2> HIDE DEF q
  <2>4. \A i \in 1..Len(q \o x) : (q \o x)[i].type # "NEWKEYS"
    BY <1>1, <2>1, <2>2, <2>3, ConcatNone
  <2> QED
    BY <2>1, <2>4
<1>8. KeepsKeys(c, d)
  BY <1>7, KeepsKeysSame DEF Good, SameIn
<1>9. Phase(d)
  BY DEF Good, Phase, SameKeys, SameKexinits
<1>10. HeldInOrder(d)
  <2>1. Len(d.held) = 0 /\ d.sent \in Nat
    BY TransportType
  <2> QED
    BY <2>1 DEF HeldInOrder
<1>11. Takes(c, d)
  BY DEF Takes, SameKexinits
<1> QED
  BY <1>1, <1>6, <1>8, <1>9, <1>10, <1>11 DEF Turn

\* The higher layer hands in a packet.
LEMMA TurnHolds ==
  ASSUME NEW c \in Transport, NEW d \in Transport, Good(c), d.pc = c.pc, SameKeys(c, d), SameKexinits(c, d),
         SameIn(c, d), SameOut(c, d), d.sent = c.sent + 1,
         d.held = Append(c.held, [type |-> "HIGHER", n |-> c.sent + 1])
  PROVE  Turn(c, d)
<1> DEFINE h == c.held
           p == [type |-> "HIGHER", n |-> c.sent + 1]
<1>1. h \in Seq(Packet) /\ c.sent \in Nat /\ Len(h) \in Nat
  BY TransportType
<1>2. Len(h) <= c.sent /\ \A i \in 1..Len(h) : h[i].n = c.sent - Len(h) + i
  BY DEF Good, HeldInOrder
<1>3. d.held = Append(h, p) /\ p.n = c.sent + 1 /\ p \in Packet
  BY <1>1 DEF Packet, PacketTypes
<1> HIDE DEF h, p
<1>4. /\ Len(d.held) = Len(h) + 1
      /\ \A i \in 1..Len(h) : d.held[i] = h[i]
      /\ d.held[Len(h) + 1] = p
  BY <1>1, <1>3, AppendProperties
<1>5. HeldInOrder(d)
  <2>1. Len(d.held) <= d.sent
    BY <1>1, <1>2, <1>4
  <2>2. ASSUME NEW i \in 1..Len(d.held) PROVE d.held[i].n = d.sent - Len(d.held) + i
    <3>1. CASE i \in 1..Len(h)
      BY <1>1, <1>2, <1>4, <3>1
    <3>2. CASE i = Len(h) + 1
      BY <1>1, <1>3, <1>4, <3>2
    <3> QED
      BY <1>1, <1>4, <3>1, <3>2
  <2> QED
    BY <2>1, <2>2 DEF HeldInOrder
<1>6. d.sent - Len(d.held) = c.sent - Len(c.held)
  BY <1>1, <1>4 DEF h
<1>7. Sends(c, d, <<>>)
  <2>1. d.kexno = c.kexno /\ (d.pc \in After => c.pc \in After)
    BY DEF SameKexinits
  <2> QED
    BY <1>6, <2>1, SendsNothing
<1>8. KeepsKeys(c, d)
  <2>1. \A i \in 1..Len(d.out_pq) : d.out_pq[i].type # "NEWKEYS"
    BY DEF SameOut, Good, Chain
  <2> QED
    BY <2>1, KeepsKeysSame DEF Good, SameIn, SameOut
<1>9. Phase(d)
  BY DEF Good, Phase, SameKeys, SameKexinits
<1>10. Takes(c, d)
  BY DEF Takes, SameKexinits
<1>11. <<>> \in Seq(Packet)
  OBVIOUS
<1> QED
  BY <1>5, <1>7, <1>8, <1>9, <1>10, <1>11 DEF Turn

\* The BPP sends what is on out_pq.
LEMMA TurnMarshals ==
  ASSUME NEW c \in Transport, NEW d \in Transport, Good(c), d.pc = c.pc,
         SameKeys(c, d), SameKexinits(c, d), SameHeld(c, d), SameIn(c, d),
         d.wire = c.wire \o Under(c.out_pq, c.outkey), d.out_pq = <<>>
  PROVE  Turn(c, d)
<1> DEFINE q == c.out_pq
           k == c.outkey
           w == c.wire
<1>1. q \in Seq(Packet) /\ k \in Keys /\ w \in Seq(WirePacket) /\ Chain(c) /\ Stopped(c)
  BY TransportType DEF Good
<1>2. \A i \in 1..Len(q) : q[i].type # "NEWKEYS"
  BY DEF Good, Chain
<1>3. d.wire = w \o Under(q, k) /\ d.outkey = k
  BY DEF SameKeys
<1>4. \A i \in 1..Len(d.out_pq) : d.out_pq[i].type # "NEWKEYS"
  OBVIOUS
<1> HIDE DEF q, k
<1>5. Chain(d) /\ OldestKey(d) = OldestKey(c)
  <2>1. Len(q) > 0 => Len(q) \in 1..Len(q)
    BY <1>1
  <2>2. Len(q) > 0 => q[Len(q)].type # "NEWKEYS"
    BY <1>2, <2>1
  <2>3. d.wire = c.wire \o Under(q, c.outkey) /\ d.outkey = c.outkey
    BY <1>3 DEF k
  <2> QED
    BY <1>1, <1>2, <1>4, <2>2, <2>3, ChainMore
<1>6. Stopped(d) /\ NextInKey(d) = NextInKey(c)
  BY <1>1 DEF Stopped, NextInKey, SameKeys, SameIn
<1>7. Out(d) = Out(c) \o <<>>
  <2> DEFINE p == Plain(w)
  <2>1. p \in Seq(Packet)
    BY <1>1, PlainIs
  <2>2. Out(d) = (Plain(c.wire) \o q) \o d.out_pq
    BY <1>1, <1>3, OutMarshalled
  <2>3. Out(c) = p \o q
    BY DEF Out, q
  <2> HIDE DEF p
  <2>4. (p \o q) \in Seq(Packet)
    BY <1>1, <2>1
  <2> QED
    BY <2>2, <2>3, <2>4 DEF p
<1>8. Sends(c, d, <<>>)
  <2>1. d.kexno = c.kexno /\ d.sent - Len(d.held) = c.sent - Len(c.held) /\ (d.pc \in After => c.pc \in After)
    BY DEF SameKexinits, SameHeld
  <2>2. <<>> \in Seq(Packet) /\ \A i \in 1..Len(<<>>) : FALSE
    OBVIOUS
  <2> QED
    BY <1>7, <2>1, <2>2, SendsOther
<1>9. Phase(d) /\ HeldInOrder(d)
  BY DEF Good, Phase, HeldInOrder, SameKeys, SameKexinits, SameHeld
<1>10. Takes(c, d)
  BY DEF Takes, SameKexinits
<1>11. <<>> \in Seq(Packet)
  OBVIOUS
<1> QED
  BY <1>5, <1>6, <1>8, <1>9, <1>10, <1>11 DEF Turn, KeepsKeys

\* NEWKEYS goes out, and behind it, under the new key, what was held back.
LEMMA TurnSendsNewKeys ==
  ASSUME NEW c \in Transport, NEW d \in Transport, NEW e \in Ends, Good(c), c.pc \in Before,
         d.pc = "newkeys", d.outkey = Hash(e, c), d.inkey = c.inkey, d.pending_newkeys = c.pending_newkeys,
         SameKexinits(c, d), SameIn(c, d), d.sent = c.sent, d.held = <<>>, d.out_pq = c.held,
         d.wire = c.wire \o Under(Append(c.out_pq, [type |-> "NEWKEYS", n |-> 0]), c.outkey)
  PROVE  Turn(c, d)
<1> DEFINE p == [type |-> "NEWKEYS", n |-> 0]
           o == c.out_pq
           q == Append(o, p)
           h == c.held
           x == <<p>> \o h
<1>1. /\ c.kexno \in Nat /\ c.kexno > 0 /\ c.theirs = c.kexno
      /\ c.outkey = Key(c.kexno - 1) /\ c.inkey = Key(c.kexno - 1)
  BY TransportType DEF Good, Phase, Before
<1>2. Hash(e, c) = Key(c.kexno) /\ Bump(c.outkey) = Key(c.kexno)
  BY <1>1 DEF Hash, Key, Bump
<1>3. /\ o \in Seq(Packet) /\ h \in Seq(Packet) /\ c.wire \in Seq(WirePacket) /\ c.outkey \in Keys
      /\ \A i \in 1..Len(h) : h[i].type = "HIGHER"
  BY TransportType
<1>4. p \in Packet /\ p.type = "NEWKEYS"
  BY DEF Packet, PacketTypes, TransportTypes
<1>5. \A i \in 1..Len(o) : o[i].type # "NEWKEYS"
  BY DEF Good, Chain
<1>6. d.wire = c.wire \o Under(q, c.outkey) /\ d.out_pq = h
  OBVIOUS
<1> HIDE DEF p, o, h
<1>7. /\ q \in Seq(Packet) /\ Len(q) = Len(o) + 1 /\ Len(o) \in Nat /\ q = o \o <<p>>
      /\ \A i \in 1..Len(o) : q[i] = o[i]
      /\ q[Len(o) + 1] = p
  BY <1>3, <1>4, AppendProperties, AppendIsConcat
<1>8. /\ <<p>> \in Seq(Packet) /\ x \in Seq(Packet) /\ Len(x) = 1 + Len(h) /\ Len(h) \in Nat
      /\ x[1] = p /\ \A i \in 1..Len(h) : x[1 + i] = h[i]
  BY <1>3, <1>4
<1> HIDE DEF q, x
<1>9. Chain(d) /\ OldestKey(d) = OldestKey(c)
  <2>1. \A i \in 1..Len(q) : q[i].type = "NEWKEYS" => i = Len(q)
    BY <1>5, <1>7
  <2>2. Len(q) > 0 /\ q[Len(q)].type = "NEWKEYS"
    BY <1>4, <1>7
  <2>3. d.outkey = Bump(c.outkey)
    BY <1>2
  <2>4. \A i \in 1..Len(d.out_pq) : d.out_pq[i].type # "NEWKEYS"
    BY <1>3, <1>6
  <2>5. Chain(c)
    BY DEF Good
  <2> QED
    <3>1. q \in Seq(Packet) /\ d.wire = c.wire \o Under(q, c.outkey)
      BY <1>6, <1>7
    <3>2. ~(Len(q) = 0 \/ q[Len(q)].type # "NEWKEYS")
      BY <2>2, <3>1
    <3> QED
      BY <2>1, <2>2, <2>3, <2>4, <2>5, <3>1, <3>2, ChainMore
<1>10. Stopped(d) /\ NextInKey(d) = NextInKey(c)
  BY DEF Good, Stopped, NextInKey, SameIn
<1>11. Out(d) = Out(c) \o x
  <2> DEFINE w == Plain(c.wire)
  <2>1. w \in Seq(Packet)
    BY <1>3, PlainIs
  <2>2. Out(d) = (Plain(c.wire) \o q) \o d.out_pq
    BY <1>3, <1>6, <1>7, OutMarshalled
  <2>3. Out(c) = w \o o
    BY DEF Out, o
  <2> HIDE DEF w
  <2>4. Out(d) = (w \o (o \o <<p>>)) \o h
    BY <1>6, <1>7, <2>2 DEF w
  <2> DEFINE y == <<p>>
  <2>5. y \in Seq(Packet)
    BY <1>8
  <2>6. Out(d) = (w \o (o \o y)) \o h /\ x = y \o h
    BY <2>4 DEF x
  <2> HIDE DEF y
  <2>7. w \o (o \o y) = (w \o o) \o y
    BY <1>3, <2>1, <2>5, ConcatAssociative
  <2> DEFINE z == w \o o
  <2>8. z \in Seq(Packet)
    BY <1>3, <2>1
  <2> HIDE DEF z
  <2>9. (z \o y) \o h = z \o (y \o h)
    BY <1>3, <2>5, <2>8, ConcatAssociative
  <2> QED
    BY <2>3, <2>6, <2>7, <2>9 DEF z
<1>12. \A i \in 1..Len(x) : (i = 1 /\ x[i].type = "NEWKEYS") \/ (i > 1 /\ x[i].type = "HIGHER")
  <2> SUFFICES ASSUME NEW i \in 1..Len(x)
               PROVE  (i = 1 /\ x[i].type = "NEWKEYS") \/ (i > 1 /\ x[i].type = "HIGHER")
    OBVIOUS
  <2>1. CASE i = 1
    BY <1>4, <1>8, <2>1
  <2>2. CASE i # 1
    <3>1. i - 1 \in 1..Len(h) /\ i = 1 + (i - 1) /\ i > 1
      BY <1>8, <2>2
    <3>2. x[1 + (i - 1)] = h[i - 1]
      BY <1>8, <3>1
    <3> QED
      BY <1>3, <3>1, <3>2
  <2> QED
    BY <2>1, <2>2
<1>13. Sends(c, d, x)
  <2>1. InOrder(x, "KEXINIT", c.kexno, d.kexno)
    <3>1. \A i \in 1..Len(x) : x[i].type # "KEXINIT"
      BY <1>12
    <3>2. c.kexno \in Int /\ d.kexno = c.kexno
      BY <1>1 DEF SameKexinits
    <3>3. InOrder(x, "KEXINIT", c.kexno, c.kexno)
      BY <1>8, <3>1, <3>2, InOrderNone
    <3> QED
      BY <3>2, <3>3
  <2>2. InOrder(x, "HIGHER", c.sent - Len(c.held), d.sent - Len(d.held))
    <3> DEFINE lo == c.sent - Len(c.held)
               y == <<p>>
               n == c.sent
    <3>1. lo \in Int /\ n \in Int /\ d.sent - Len(d.held) = n
      BY <1>3, TransportType
    <3>2. InOrder(h, "HIGHER", lo, n)
      BY HeldRun DEF Good, h
    <3>3. y \in Seq(Packet) /\ \A i \in 1..Len(y) : y[i].type # "HIGHER"
      BY <1>4, <1>8
    <3>4. x = y \o h
      BY DEF x
    <3> HIDE DEF lo, y, n
    <3>5. InOrder(y, "HIGHER", lo, lo)
      BY <3>1, <3>3, InOrderNone
    <3>6. InOrder(y \o h, "HIGHER", lo, n)
      BY <1>3, <3>1, <3>2, <3>3, <3>5, InOrderConcat
    <3> QED
      BY <3>1, <3>4, <3>6 DEF lo
  <2>3. \A i \in 1..Len(x) : x[i].type # "KEXINIT"
    BY <1>12
  <2>4. \A j \in 1..Len(x) : x[j].type = "HIGHER" => \E k \in 1..(j - 1) : x[k].type = "NEWKEYS"
    <3>1. \A j \in 1..Len(x) : x[j].type = "HIGHER" => 1 \in 1..(j - 1)
      BY <1>12
    <3>2. x[1].type = "NEWKEYS"
      BY <1>4, <1>8
    <3> QED
      BY <3>1, <3>2
  <2>5. \E k \in 1..Len(x) : x[k].type = "NEWKEYS"
    <3>1. 1 \in 1..Len(x) /\ x[1].type = "NEWKEYS"
      BY <1>4, <1>8
    <3> QED
      BY <3>1
  <2> QED
    BY <1>11, <2>1, <2>2, <2>3, <2>4, <2>5 DEF Sends
<1>14. Phase(d)
  <2>1. d.outkey = Key(c.kexno) /\ d.inkey = Key(c.kexno - 1) /\ d.kexno = c.kexno /\ d.theirs = c.kexno
    BY <1>1, <1>2 DEF SameKexinits
  <2> QED
    BY <1>1, <2>1 DEF Phase, Before
<1>15. HeldInOrder(d)
  <2>1. Len(d.held) = 0 /\ d.sent \in Nat
    BY TransportType
  <2> QED
    BY <2>1 DEF HeldInOrder
<1>16. Takes(c, d)
  <2>1. c.pc \in Mid /\ d.theirs = c.theirs
    BY DEF Mid, Before, SameKexinits
  <2> QED
    BY <2>1 DEF Takes
<1> QED
  BY <1>8, <1>9, <1>10, <1>13, <1>14, <1>15, <1>16 DEF Turn, KeepsKeys

-----------------------------------------------------------------------------
(* A packet is decrypted                                                    *)

\* The sender's half: what is left on the wire.
LEMMA WireTail ==
  ASSUME NEW c \in Transport, NEW b \in Transport, Chain(c), c.wire # <<>>, b.wire = Tail(c.wire),
         b.out_pq = c.out_pq, b.outkey = c.outkey
  PROVE  LET p == Head(c.wire)
         IN /\ p \in WirePacket /\ [type |-> p.type, n |-> p.n] \in Packet
            /\ Chain(b) /\ OldestKey(b) = KeyAfter(p)
            /\ Out(c) = <<[type |-> p.type, n |-> p.n]>> \o Out(b)
<1> DEFINE w == c.wire
           v == b.wire
           p == Head(c.wire)
           r == [type |-> p.type, n |-> p.n]
<1>1. w \in Seq(WirePacket) /\ v \in Seq(WirePacket) /\ w # <<>> /\ v = Tail(w) /\ p = Head(w)
  BY TransportType
<1>2. c.out_pq \in Seq(Packet)
  BY TransportType
<1>3. /\ \A i \in 1..Len(w) - 1 : w[i + 1].key = KeyAfter(w[i])
      /\ w # <<>> => c.outkey = KeyAfter(w[Len(w)])
      /\ \A i \in 1..Len(c.out_pq) : c.out_pq[i].type # "NEWKEYS"
  BY DEF Chain
<1>4. b.outkey = c.outkey /\ b.out_pq = c.out_pq
  OBVIOUS
<1>5. OldestKey(b) = IF v = <<>> THEN c.outkey ELSE v[1].key
  BY DEF OldestKey
<1> HIDE DEF w, v, p
<1>6. /\ Len(w) \in Nat /\ Len(w) > 0 /\ Len(v) = Len(w) - 1 /\ p = w[1]
      /\ \A i \in 1..Len(v) : i + 1 \in 1..Len(w) /\ v[i] = w[i + 1]
  BY <1>1, TailAt
<1>7. v = <<>> <=> Len(v) = 0
  <2>1. v \in Seq(WirePacket)
    BY <1>1
  <2> QED
    BY <2>1
<1>8. p \in WirePacket /\ r \in Packet
  <2>1. w[1] \in WirePacket
    BY <1>1, <1>6
  <2> QED
    BY <1>6, <2>1 DEF WirePacket, Packet
<1>9. Chain(b)
  <2>1. \A i \in 1..Len(v) - 1 : v[i + 1].key = KeyAfter(v[i])
    <3> SUFFICES ASSUME NEW i \in 1..Len(v) - 1 PROVE v[i + 1].key = KeyAfter(v[i])
      OBVIOUS
    <3>1. i \in 1..Len(v) /\ i + 1 \in 1..Len(v) /\ i + 1 \in 1..Len(w) - 1
      BY <1>6
    <3>2. v[i] = w[i + 1] /\ v[i + 1] = w[(i + 1) + 1]
      BY <1>6, <3>1
    <3>3. w[(i + 1) + 1].key = KeyAfter(w[i + 1])
      BY <1>3, <3>1
    <3> QED
      BY <3>2, <3>3
  <2>2. v # <<>> => c.outkey = KeyAfter(v[Len(v)])
    <3>1. v # <<>> => Len(v) \in 1..Len(v) /\ Len(v) + 1 = Len(w)
      BY <1>6, <1>7
    <3> QED
      BY <1>1, <1>3, <1>6, <3>1
  <2> QED
    BY <1>3, <1>4, <2>1, <2>2 DEF Chain, v
<1>10. OldestKey(b) = KeyAfter(p)
  <2>1. CASE Len(v) = 0
    <3>1. Len(w) = 1 /\ v = <<>>
      BY <1>6, <1>7, <2>1
    <3> QED
      BY <1>1, <1>3, <1>5, <1>6, <3>1
  <2>2. CASE Len(v) # 0
    <3>1. 1 \in 1..Len(v) /\ 1 \in 1..Len(w) - 1 /\ v # <<>>
      BY <1>6, <1>7, <2>2
    <3>2. v[1] = w[1 + 1] /\ w[1 + 1].key = KeyAfter(w[1])
      BY <1>3, <1>6, <3>1
    <3> QED
      BY <1>5, <1>6, <3>1, <3>2
  <2> QED
    BY <2>1, <2>2
<1>11. Out(c) = <<r>> \o Out(b)
  <2> DEFINE x == <<r>>
             y == Plain(v)
             z == c.out_pq
  <2>1. /\ Plain(w) \in Seq(Packet) /\ Len(Plain(w)) = Len(w)
        /\ \A i \in 1..Len(w) : Plain(w)[i] = [type |-> w[i].type, n |-> w[i].n]
    BY <1>1, PlainIs
  <2>2. /\ y \in Seq(Packet) /\ Len(y) = Len(v)
        /\ \A i \in 1..Len(v) : y[i] = [type |-> v[i].type, n |-> v[i].n]
    BY <1>1, PlainIs
  <2>3. x \in Seq(Packet) /\ Len(x) = 1 /\ x[1] = r
    BY <1>8
  <2>4. r = [type |-> w[1].type, n |-> w[1].n]
    BY <1>6
  <2>5. Out(c) = Plain(w) \o z /\ Out(b) = y \o z
    BY <1>4 DEF Out, w, v
  <2>6. z \in Seq(Packet)
    BY <1>2
  <2> HIDE DEF x, y, z, r
  <2>7. /\ x \o y \in Seq(Packet) /\ Len(x \o y) = 1 + Len(v) /\ (x \o y)[1] = r
        /\ \A i \in 1..Len(v) : (x \o y)[1 + i] = y[i]
    <3>1. x \in Seq(Packet) /\ y \in Seq(Packet)
      BY <2>2, <2>3
    <3>2. /\ x \o y \in Seq(Packet) /\ Len(x \o y) = Len(x) + Len(y)
          /\ \A i \in 1..Len(x) : (x \o y)[i] = x[i]
          /\ \A i \in 1..Len(y) : (x \o y)[Len(x) + i] = y[i]
      BY <3>1, ConcatAt
    <3> QED
      BY <2>2, <2>3, <3>2
  <2>8. Plain(w) = x \o y
    <3>1. Len(Plain(w)) = Len(x \o y)
      BY <1>6, <2>1, <2>7
    <3>2. ASSUME NEW i \in 1..Len(Plain(w)) PROVE Plain(w)[i] = (x \o y)[i]
      <4>1. CASE i = 1
        BY <1>6, <2>1, <2>4, <2>7, <4>1
      <4>2. CASE i # 1
        <5>1. i - 1 \in 1..Len(v) /\ i = 1 + (i - 1) /\ i = (i - 1) + 1 /\ i \in 1..Len(w)
          BY <1>6, <2>1, <4>2
        <5>2. v[i - 1] = w[i]
          BY <1>6, <5>1
        <5>3. Plain(w)[i] = y[i - 1]
          BY <2>1, <2>2, <5>1, <5>2
        <5>4. (x \o y)[1 + (i - 1)] = y[i - 1]
          BY <2>7, <5>1
        <5> QED
          BY <5>1, <5>3, <5>4
      <4> QED
        BY <4>1, <4>2
    <3> QED
      BY <2>1, <2>7, <3>1, <3>2, SeqEqual
  <2>9. (x \o y) \o z = x \o (y \o z)
    BY <2>2, <2>3, <2>6, ConcatAssociative
  <2> QED
    BY <2>5, <2>8, <2>9 DEF x
<1> QED
  BY <1>8, <1>9, <1>10, <1>11 DEF p

\* The receiver's half: what has arrived.
LEMMA InAppended ==
  ASSUME NEW f \in Transport, NEW g \in Transport, Stopped(f), ~f.pending_newkeys, NEW p \in WirePacket,
         p.key = f.inkey, g.inkey = f.inkey, g.in_pq = Append(f.in_pq, [type |-> p.type, n |-> p.n]),
         g.pending_newkeys = (p.type = "NEWKEYS")
  PROVE  Stopped(g) /\ NextInKey(g) = KeyAfter(p)
<1> DEFINE r == [type |-> p.type, n |-> p.n]
           s == f.in_pq
           u == g.in_pq
<1>1. r \in Packet /\ s \in Seq(Packet) /\ u = Append(s, r)
  BY TransportType DEF WirePacket, Packet
<1>2. r.type = p.type
  OBVIOUS
<1>3. \A i \in 1..Len(s) : s[i].type # "NEWKEYS"
  BY DEF Stopped
<1> HIDE DEF r, s, u
<1>4. /\ u \in Seq(Packet) /\ Len(u) = Len(s) + 1 /\ Len(s) \in Nat
      /\ \A i \in 1..Len(s) : u[i] = s[i]
      /\ u[Len(s) + 1] = r
  BY <1>1, AppendProperties
<1>5. u # <<>> /\ u[Len(u)].type = p.type
  BY <1>2, <1>4
<1>6. \A i \in 1..Len(u) : u[i].type = "NEWKEYS" => p.type = "NEWKEYS" /\ i = Len(u)
  BY <1>2, <1>3, <1>4
<1>7. CASE p.type = "NEWKEYS"
  <2>1. g.pending_newkeys
    BY <1>7
  <2> QED
    BY <1>5, <1>6, <1>7, <2>1 DEF Stopped, NextInKey, KeyAfter, u
<1>8. CASE p.type # "NEWKEYS"
  <2>1. ~g.pending_newkeys
    BY <1>8
  <2> QED
    BY <1>5, <1>6, <1>8, <2>1 DEF Stopped, NextInKey, KeyAfter, u
<1> QED
  BY <1>7, <1>8

LEMMA RestKept ==
  ASSUME IInv
  PROVE  Rest /\ (UNCHANGED <<requests, changes, stages, authed>> => Rest')
<1>1. Rest
  BY TypeIs DEF IInv
<1> QED
  BY <1>1 DEF Rest

LEMMA StepDecrypt ==
  ASSUME IInv, NEW e \in Ends, Decrypt(e)
  PROVE  IInv'
<1> DEFINE o == Other(e)
           p == Head(t[o].wire)
           r == [type |-> p.type, n |-> p.n]
<1>1. t \in [Ends -> Transport] /\ Rest'
  BY TypeIs, RestKept DEF IInv, Decrypt
<1>2. /\ o \in Ends /\ o # e /\ Other(e) = o /\ Other(o) = e
      /\ \A a \in Ends : a = e \/ a = o
  BY TheEnds
<1>3. /\ ~t[e].pending_newkeys /\ t[o].wire # <<>> /\ p.key = t[e].inkey
      /\ t' = [t EXCEPT ![o].wire = Tail(@),
                        ![e].in_pq = Append(@, r),
                        ![e].pending_newkeys = p.type = "NEWKEYS",
                        ![e].calls = @ \cup {"in"}]
  BY DEF Decrypt
<1> DEFINE c == t[o]
           f == t[e]
           b == [c EXCEPT !.wire = Tail(@)]
           g == [f EXCEPT !.in_pq = Append(@, r), !.pending_newkeys = p.type = "NEWKEYS",
                          !.calls = @ \cup {"in"}]
<1> HIDE DEF o
<1>4. c \in Transport /\ f \in Transport
  BY <1>1, <1>2
<1>5. t'[o] = b /\ t'[e] = g /\ DOMAIN t' = Ends
  <2> HIDE DEF r, p
  <2> QED
    BY <1>1, <1>2, <1>3, <1>4 DEF Transport
<1>6. Chain(c) /\ Stopped(c) /\ Chain(f) /\ Stopped(f) /\ OldestKey(f) = NextInKey(c)
  BY <1>2 DEF IInv, Keyed
<1>7. c.wire \in Seq(WirePacket) /\ c.wire # <<>> /\ f.in_pq \in Seq(Packet)
  BY <1>3, <1>4, TransportType
<1>8. p \in WirePacket /\ r \in Packet
  <2> DEFINE w == c.wire
  <2>1. w \in Seq(WirePacket) /\ w # <<>> /\ p = Head(w)
    BY <1>7
  <2> HIDE DEF w, p
  <2>2. p \in WirePacket
    BY <2>1
  <2> QED
    BY <2>2 DEF WirePacket, Packet
<1>9. /\ b \in Transport /\ b.wire = Tail(c.wire)
      /\ b.pc = c.pc /\ SameKeys(c, b) /\ SameKexinits(c, b) /\ SameHeld(c, b) /\ SameIn(c, b)
      /\ b.out_pq = c.out_pq
  <2>1. Tail(c.wire) \in Seq(WirePacket)
    BY <1>7
  <2> HIDE DEF c
  <2> QED
    BY <1>4, <2>1 DEF Transport, SameKeys, SameKexinits, SameHeld, SameIn
<1>10. /\ g \in Transport /\ g.in_pq = Append(f.in_pq, r)
       /\ g.pending_newkeys = (p.type = "NEWKEYS")
       /\ g.pc = f.pc /\ g.outkey = f.outkey /\ g.inkey = f.inkey
       /\ SameKexinits(f, g) /\ SameHeld(f, g) /\ SameOut(f, g) /\ g.got = f.got
  <2>1. Append(f.in_pq, r) \in Seq(Packet)
    <3> DEFINE s == f.in_pq
    <3>1. s \in Seq(Packet)
      BY <1>7
    <3> HIDE DEF s, r
    <3>2. Append(s, r) \in Seq(Packet)
      BY <1>8, <3>1
    <3> QED
      BY <3>2 DEF s
  <2>2. (p.type = "NEWKEYS") \in BOOLEAN
    OBVIOUS
  <2>3. f.calls \cup {"in"} \in SUBSET {"in", "out"}
    BY <1>4 DEF Transport
  <2> DEFINE z == (p.type = "NEWKEYS")
  <2> HIDE DEF f, r, p, z
  <2>4. z \in BOOLEAN
    BY <2>2 DEF z
  <2>5. g = [f EXCEPT !.in_pq = Append(@, r), !.pending_newkeys = z, !.calls = @ \cup {"in"}]
    BY DEF z
  <2> HIDE DEF g
  <2>6. /\ g \in Transport /\ g.in_pq = Append(f.in_pq, r) /\ g.pending_newkeys = z
        /\ g.pc = f.pc /\ g.outkey = f.outkey /\ g.inkey = f.inkey
        /\ SameKexinits(f, g) /\ SameHeld(f, g) /\ SameOut(f, g) /\ g.got = f.got
    BY <1>4, <2>1, <2>3, <2>4, <2>5 DEF Transport, SameKexinits, SameHeld, SameOut
  <2> QED
    BY <2>6 DEF z
<1> HIDE DEF b, g
<1>11. /\ Chain(b) /\ OldestKey(b) = KeyAfter(p) /\ Out(c) = <<r>> \o Out(b)
  BY <1>4, <1>6, <1>7, <1>9, WireTail DEF SameKeys
<1>12. Stopped(g) /\ NextInKey(g) = KeyAfter(p)
  <2> HIDE DEF c, f, p
  <2>1. g.in_pq = Append(f.in_pq, [type |-> p.type, n |-> p.n]) /\ ~f.pending_newkeys /\ p.key = f.inkey
    BY <1>3, <1>10 DEF f
  <2> QED
    BY <1>4, <1>6, <1>8, <1>10, <2>1, InAppended
<1>13. /\ Stopped(b) /\ NextInKey(b) = NextInKey(c)
       /\ Chain(g) /\ OldestKey(g) = OldestKey(f)
  <2> HIDE DEF c, f
  <2>1. Stopped(b) /\ NextInKey(b) = NextInKey(c)
    BY <1>6, <1>9 DEF Stopped, NextInKey, SameKeys, SameIn
  <2>2. Chain(g) /\ OldestKey(g) = OldestKey(f)
    BY <1>6, <1>10 DEF Chain, OldestKey, SameOut
  <2> QED
    BY <2>1, <2>2
<1>14. g.in_pq \o Out(b) = f.in_pq \o Out(c)
  <2> DEFINE s == f.in_pq
             y == <<r>>
             z == Out(b)
  <2>1. s \in Seq(Packet) /\ y \in Seq(Packet) /\ z \in Seq(Packet)
    BY <1>7, <1>8, <1>9, OutType
  <2>2. Append(s, r) = s \o y
    BY <1>7, <1>8, AppendIsConcat
  <2> HIDE DEF s, y, z, r
  <2>3. (s \o y) \o z = s \o (y \o z)
    BY <2>1, ConcatAssociative
  <2>4. Out(c) = y \o z
    BY <1>11 DEF y, z
  <2>5. g.in_pq = s \o y
    BY <1>10, <2>2 DEF s
  <2> QED
    BY <2>3, <2>4, <2>5 DEF s, z
<1>15. b.in_pq \o Out(g) = c.in_pq \o Out(f)
  <2> HIDE DEF c, f
  <2> QED
    BY <1>9, <1>10 DEF Out, SameOut, SameIn
<1>16. Sent(e)' = Sent(e) /\ Sent(o)' = Sent(o)
  BY <1>2, <1>5, <1>14, <1>15 DEF Sent
<1> DEFINE Same(x, y) == y.pc = x.pc /\ SameKexinits(x, y) /\ SameHeld(x, y) /\ y.got = x.got
<1>17. \A a \in Ends : Same(t[a], t'[a])
  <2>1. Same(c, b) /\ Same(f, g)
    BY <1>9, <1>10 DEF SameIn
  <2> HIDE DEF Same
  <2> QED
    BY <1>2, <1>5, <2>1
<1>18. \A a \in Ends : Other(a) \in Ends /\ Sent(a)' = Sent(a)
  BY <1>2, <1>16
<1>19. TypeOK'
  <2>1. t' \in [Ends -> Transport]
    <3>1. \A a \in Ends : t'[a] \in Transport
      BY <1>2, <1>5, <1>9, <1>10
    <3>2. t' = [a \in Ends |-> t'[a]]
      <4> HIDE DEF p, r
      <4> QED
        BY <1>1, <1>3
    <3> QED
      BY <3>1, <3>2
  <2> QED
    BY <1>1, <2>1, TypeIs DEF TypeOK, Rest, Transport, Packet, WirePacket, HeldPacket
<1>20. Keyed'
  <2>1. Chain(t'[e]) /\ Stopped(t'[e]) /\ OldestKey(t'[e]) = NextInKey(t'[o])
    BY <1>5, <1>6, <1>12, <1>13
  <2>2. Chain(t'[o]) /\ Stopped(t'[o]) /\ OldestKey(t'[o]) = NextInKey(t'[e])
    BY <1>5, <1>11, <1>12, <1>13
  <2>3. \A a \in Ends : Chain(t'[a]) /\ Stopped(t'[a]) /\ OldestKey(t'[a]) = NextInKey(t'[Other(a)])
    BY <1>2, <2>1, <2>2
  <2> QED
    BY <2>3 DEF Keyed
<1>21. Locals'
  <2>1. \A a \in Ends : Phase(t[a]) /\ HeldInOrder(t[a])
    BY DEF IInv, Locals
  <2>2. Phase(b) /\ HeldInOrder(b)
    BY <1>2, <1>9, <2>1 DEF Phase, HeldInOrder, SameKeys, SameKexinits, SameHeld
  <2>3. Phase(g) /\ HeldInOrder(g)
    BY <1>2, <1>10, <2>1 DEF Phase, HeldInOrder, SameKexinits, SameHeld
  <2> QED
    BY <1>2, <1>5, <2>2, <2>3 DEF Locals
<1>22. Numbered'
  <2> SUFFICES ASSUME NEW a \in Ends
               PROVE  /\ InOrder(Sent(a)', "KEXINIT", t'[Other(a)].theirs, t'[a].kexno)
                      /\ InOrder(Sent(a)', "HIGHER", t'[Other(a)].got, t'[a].sent - Len(t'[a].held))
    BY DEF Numbered
  <2>1. Same(t[a], t'[a]) /\ Same(t[Other(a)], t'[Other(a)])
    BY <1>17, <1>18
  <2>2. /\ InOrder(Sent(a), "KEXINIT", t[Other(a)].theirs, t[a].kexno)
        /\ InOrder(Sent(a), "HIGHER", t[Other(a)].got, t[a].sent - Len(t[a].held))
    BY DEF IInv, Numbered
  <2> QED
    BY <1>18, <2>1, <2>2 DEF SameKexinits, SameHeld
<1>23. Silent'
  <2> SUFFICES ASSUME NEW a \in Ends
               PROVE  /\ Quiet(Sent(a)', t'[Other(a)].pc \in Mid)
                      /\ t'[a].pc \in After => Closed(Sent(a)', t'[Other(a)].pc \in Mid)
    BY DEF Silent
  <2>1. t'[a].pc = t[a].pc /\ t'[Other(a)].pc = t[Other(a)].pc
    BY <1>17, <1>18
  <2>2. /\ Quiet(Sent(a), t[Other(a)].pc \in Mid)
        /\ t[a].pc \in After => Closed(Sent(a), t[Other(a)].pc \in Mid)
    BY DEF IInv, Silent
  <2> QED
    BY <1>18, <2>1, <2>2
<1> QED
  BY <1>19, <1>20, <1>21, <1>22, <1>23 DEF IInv

-----------------------------------------------------------------------------
(* The actions                                                              *)

LEMMA EndIs ==
  ASSUME IInv, NEW e \in Ends
  PROVE  t[e] \in Transport /\ Good(t[e])
  BY TypeIs DEF IInv, Locals, Keyed, Good

LEMMA TurnGood ==
  ASSUME NEW c, NEW d, Turn(c, d)
  PROVE  d \in Transport /\ Good(d)
  BY DEF Turn, KeepsKeys, Good

\* The KEXINIT that comes next is the one after the last.
LEMMA NextKexinit ==
  ASSUME IInv, NEW e \in Ends, t[e].in_pq # <<>>, Head(t[e].in_pq).type = "KEXINIT"
  PROVE  Head(t[e].in_pq).n = t[e].theirs + 1
<1> DEFINE o == Other(e)
           a == t[e].in_pq
           q == Out(t[o])
           s == a \o q
           lo == t[e].theirs
           hi == t[o].kexno
<1>1. o \in Ends /\ Other(o) = e
  BY TheEnds
<1>2. t[e] \in Transport /\ t[o] \in Transport
  BY <1>1, EndIs
<1>3. InOrder(s, "KEXINIT", lo, hi)
  BY <1>1 DEF IInv, Numbered, Sent
<1>4. a \in Seq(Packet) /\ q \in Seq(Packet) /\ lo \in Int /\ hi \in Int
  BY <1>2, TransportType, OutType
<1>5. a # <<>> /\ Head(a).type = "KEXINIT"
  OBVIOUS
<1> HIDE DEF o, a, q, lo, hi
<1>6. s \in Seq(Packet) /\ s # <<>> /\ Head(s) = Head(a)
  BY <1>4, <1>5
<1> HIDE DEF s
<1>7. Head(s).n = lo + 1
  BY <1>3, <1>4, <1>5, <1>6, InOrderTail
<1> QED
  BY <1>6, <1>7 DEF a, lo

LEMMA HeadType ==
  ASSUME NEW c \in Transport, c.in_pq # <<>>
  PROVE  Head(c.in_pq).type \in PacketTypes /\ Head(c.in_pq).n \in Nat
<1> DEFINE s == c.in_pq
<1>1. s \in Seq(Packet) /\ s # <<>>
  BY TransportType
<1> HIDE DEF s
<1>2. Head(s) \in Packet
  BY <1>1
<1>3. Head(s).type \in PacketTypes /\ Head(s).n \in Nat
  BY <1>2 DEF Packet
<1> QED
  BY <1>3 DEF s

\* A turn and the callbacks that are queued after it.
LEMMA RunsKeeps ==
  ASSUME IInv, NEW e \in Ends, NEW c, Turn(t[e], c), Runs(e, c),
         UNCHANGED <<requests, changes, stages, authed>>
  PROVE  IInv'
<1>1. PICK call \in t[e].calls :
        Become(e, [c EXCEPT !.calls = (t[e].calls \ {call})
                     \cup (IF c.in_pq = <<>> \/ c.pc \in {"askCrypto", "askKey", "run"} THEN {} ELSE {"in"})])
  BY DEF Runs
<1> DEFINE z == (t[e].calls \ {call})
                  \cup (IF c.in_pq = <<>> \/ c.pc \in {"askCrypto", "askKey", "run"} THEN {} ELSE {"in"})
           d == [c EXCEPT !.calls = z]
<1>2. t[e] \in Transport /\ c \in Transport
  BY EndIs, TurnGood
<1>3. z \in SUBSET {"in", "out"}
  BY <1>2 DEF Transport
<1>4. t' = [t EXCEPT ![e] = d]
  BY <1>1 DEF Become
<1> HIDE DEF z
<1>5. d \in Transport /\ Alike(c, d)
  BY <1>2, <1>3 DEF Transport, Alike, SameKeys, SameKexinits, SameHeld, SameIn, SameOut
<1> HIDE DEF d
<1>6. Turn(t[e], d)
  BY <1>2, <1>5, TurnAlike
<1> QED
  BY <1>4, <1>6, RestKept, TurnKeeps

LEMMA StepMarshal ==
  ASSUME IInv, NEW e \in Ends, Marshal(e)
  PROVE  IInv'
<1> DEFINE d == Marshalled(t[e])
<1>1. t[e] \in Transport /\ Good(t[e])
  BY EndIs
<1>2. t' = [t EXCEPT ![e] = d]
  BY DEF Marshal, Become
<1>3. /\ d \in Transport /\ d.pc = t[e].pc
      /\ SameKeys(t[e], d) /\ SameKexinits(t[e], d) /\ SameHeld(t[e], d) /\ SameIn(t[e], d)
      /\ d.wire = t[e].wire \o Under(t[e].out_pq, t[e].outkey) /\ d.out_pq = <<>>
  BY <1>1, MarshalledFields
<1>4. Rest'
  BY RestKept DEF Marshal
<1> HIDE DEF d
<1>5. Turn(t[e], d)
  BY <1>1, <1>3, TurnMarshals
<1> QED
  BY <1>2, <1>4, <1>5, TurnKeeps

LEMMA StepPassUp ==
  ASSUME IInv, NEW e \in Ends, PassUp(e)
  PROVE  IInv'
<1> DEFINE c == t[e]
           n == Head(c.in_pq).n
           d == [c EXCEPT !.in_pq = Tail(@), !.got = n]
<1>1. c \in Transport /\ Good(c)
  BY EndIs
<1>2. t' = [t EXCEPT ![e] = d] /\ c.in_pq # <<>> /\ Head(c.in_pq).type = "HIGHER"
  BY DEF PassUp, Become
<1>3. Rest'
  BY RestKept DEF PassUp
<1>4. n \in Nat
  BY <1>1, <1>2, HeadType
<1>5. Tail(c.in_pq) \in Seq(Packet)
  BY <1>1, <1>2, PoppedFields, TransportType
<1> HIDE DEF c, n
<1>6. /\ d \in Transport /\ d.pc = c.pc
      /\ SameKeys(c, d) /\ SameKexinits(c, d) /\ SameHeld(c, d) /\ SameOut(c, d)
      /\ d.in_pq = Tail(c.in_pq) /\ d.got = n
  BY <1>1, <1>4, <1>5 DEF Transport, SameKeys, SameKexinits, SameHeld, SameOut
<1> HIDE DEF d
<1>7. Turn(c, d)
  BY <1>1, <1>2, <1>6, TurnTakes DEF n
<1> QED
  BY <1>2, <1>3, <1>7, TurnKeeps DEF c

LEMMA StepEnter ==
  ASSUME IInv, NEW e \in Ends, Enter(e)
  PROVE  IInv'
<1> DEFINE d == Begun(t[e])
<1>1. t[e] \in Transport /\ Good(t[e])
  BY EndIs
<1>2. /\ d \in Transport
      /\ d.pc = "kexinit" /\ d.kexno = t[e].kexno + 1 /\ d.theirs = t[e].theirs
      /\ SameKeys(t[e], d) /\ SameHeld(t[e], d) /\ SameIn(t[e], d)
      /\ d.wire = t[e].wire
      /\ d.out_pq = Append(t[e].out_pq, [type |-> "KEXINIT", n |-> t[e].kexno + 1])
  BY <1>1, BegunFields
<1>3. Runs(e, d) /\ t[e].pc = "start" /\ UNCHANGED <<requests, changes, stages, authed>>
  BY DEF Enter
<1> HIDE DEF d
<1>4. Turn(t[e], d)
  BY <1>1, <1>2, <1>3, TurnBegins
<1> QED
  BY <1>3, <1>4, RunsKeeps

LEMMA StepDoze ==
  ASSUME IInv, NEW e \in Ends, Doze(e)
  PROVE  IInv'
<1>1. t[e] \in Transport /\ Good(t[e])
  BY EndIs
<1>2. Runs(e, t[e]) /\ UNCHANGED <<requests, changes, stages, authed>>
  BY DEF Doze
<1>3. Turn(t[e], t[e])
  BY <1>1, TurnMoves DEF SameKeys, SameKexinits, SameHeld, SameIn, SameOut
<1> QED
  BY <1>2, <1>3, RunsKeeps

LEMMA StepLoop ==
  ASSUME IInv, NEW e \in Ends, Loop(e)
  PROVE  IInv'
<1> DEFINE c == t[e]
           b == [c EXCEPT !.out_pq = @ \o c.held, !.held = <<>>,
                          !.rekey_class = IF @ = "POST_USERAUTH" THEN "NONE" ELSE @]
           d == Begun(b)
<1>1. c \in Transport /\ Good(c) /\ c.pc = "run"
  BY EndIs DEF Loop
<1>2. UNCHANGED <<requests, changes, stages, authed>> /\ (Runs(e, b) \/ Runs(e, d))
  <2>1. Runs(e, IF b.in_pq # <<>> \/ b.rekey_class = "NORMAL" THEN d ELSE b)
    BY DEF Loop
  <2> HIDE DEF b, d
  <2> QED
    BY <2>1 DEF Loop
<1>3. c.out_pq \o c.held \in Seq(Packet) /\ <<>> \in Seq(HeldPacket)
  <2> DEFINE q == c.out_pq
             h == c.held
  <2>1. q \in Seq(Packet) /\ h \in Seq(Packet)
    BY <1>1, TransportType
  <2> HIDE DEF q, h
  <2>2. q \o h \in Seq(Packet)
    BY <2>1
  <2> QED
    BY <2>2 DEF q, h
<1> HIDE DEF c
<1>4. /\ b \in Transport /\ b.pc = "run"
      /\ SameKeys(c, b) /\ SameKexinits(c, b) /\ SameIn(c, b)
      /\ b.sent = c.sent /\ b.held = <<>> /\ b.wire = c.wire /\ b.out_pq = c.out_pq \o c.held
  BY <1>1, <1>3 DEF Transport, SameKeys, SameKexinits, SameIn
<1> HIDE DEF b
<1>5. Turn(c, b) /\ Good(b)
  BY <1>1, <1>4, TurnFlushes, TurnGood
<1>6. /\ d \in Transport
      /\ d.pc = "kexinit" /\ d.kexno = b.kexno + 1 /\ d.theirs = b.theirs
      /\ SameKeys(b, d) /\ SameHeld(b, d) /\ SameIn(b, d)
      /\ d.wire = b.wire /\ d.out_pq = Append(b.out_pq, [type |-> "KEXINIT", n |-> b.kexno + 1])
  BY <1>4, BegunFields
<1> HIDE DEF d
<1>7. Turn(b, d)
  BY <1>4, <1>5, <1>6, TurnBegins
<1>8. Turn(c, d)
  <2>1. b.kexno = c.kexno /\ (d.pc \in Mid => b.pc \in Mid)
    BY <1>4, <1>6 DEF SameKexinits, Mid
  <2> QED
    BY <1>1, <1>4, <1>5, <1>6, <1>7, <2>1, TurnThen
<1> QED
  BY <1>2, <1>5, <1>8, RunsKeeps DEF c

\* The user, or nobody, was asked about the algorithms.
LEMMA AgreedTurn ==
  ASSUME NEW c \in Transport, NEW e \in Ends, Good(c), c.pc \in Before
  PROVE  /\ Turn(c, Agreed(e, c))
         /\ SameIn(c, Agreed(e, c)) /\ Agreed(e, c).theirs = c.theirs
<1> DEFINE b == [c EXCEPT !.pc = "kex"]
           d == Push(b, "KEX_INIT", 0)
<1>1. /\ b \in Transport /\ b.pc = "kex"
      /\ SameKeys(c, b) /\ SameKexinits(c, b) /\ SameHeld(c, b) /\ SameIn(c, b) /\ SameOut(c, b)
  BY DEF Transport, Places, SameKeys, SameKexinits, SameHeld, SameIn, SameOut
<1>2. Agreed(e, c) = d \/ Agreed(e, c) = b
  BY DEF Agreed
<1> HIDE DEF b
<1>3. Turn(c, b) /\ Good(b)
  <2>1. b.pc \in Before
    BY <1>1 DEF Before
  <2> QED
    BY <1>1, <2>1, TurnMoves, TurnGood
<1>4. /\ d \in Transport /\ d.pc = b.pc
      /\ SameKeys(b, d) /\ SameKexinits(b, d) /\ SameHeld(b, d) /\ SameIn(b, d)
      /\ d.wire = b.wire /\ d.out_pq = Append(b.out_pq, [type |-> "KEX_INIT", n |-> 0])
  <2>1. "KEX_INIT" \in PacketTypes
    BY DEF PacketTypes, TransportTypes
  <2> QED
    BY <1>1, <2>1, PushFields
<1> HIDE DEF d
<1>5. Turn(b, d)
  <2>1. "KEX_INIT" \in PacketTypes \ {"KEXINIT", "HIGHER", "NEWKEYS"}
    BY DEF PacketTypes, TransportTypes
  <2> QED
    BY <1>1, <1>3, <1>4, <2>1, TurnPushes
<1>6. Turn(c, d)
  <2>1. b.kexno = c.kexno /\ d.theirs = b.theirs
    BY <1>1, <1>4 DEF SameKexinits
  <2> QED
    BY <1>1, <1>3, <1>4, <1>5, <2>1, TurnThen
<1>7. SameIn(c, b) /\ b.theirs = c.theirs /\ SameIn(c, d) /\ d.theirs = c.theirs
  BY <1>1, <1>4 DEF SameIn, SameKexinits
<1> QED
  BY <1>2, <1>3, <1>6, <1>7

LEMMA NewKeysTurn ==
  ASSUME NEW c \in Transport, NEW e \in Ends, Good(c), c.pc \in Before
  PROVE  /\ Turn(c, NewKeysSent(e, c))
         /\ SameIn(c, NewKeysSent(e, c)) /\ NewKeysSent(e, c).theirs = c.theirs
<1> DEFINE d == NewKeysSent(e, c)
<1>1. /\ d \in Transport
      /\ d.pc = "newkeys" /\ d.outkey = Hash(e, c)
      /\ d.inkey = c.inkey /\ d.pending_newkeys = c.pending_newkeys
      /\ SameKexinits(c, d) /\ SameIn(c, d)
      /\ d.sent = c.sent /\ d.held = <<>>
      /\ d.wire = c.wire \o Under(Append(c.out_pq, [type |-> "NEWKEYS", n |-> 0]), c.outkey)
      /\ d.out_pq = c.held
  BY NewKeysSentFields
<1> HIDE DEF d
<1>2. Turn(c, d)
  BY <1>1, TurnSendsNewKeys
<1>3. d.theirs = c.theirs
  BY <1>1 DEF SameKexinits
<1> QED
  BY <1>1, <1>2, <1>3 DEF d

\* What comes before may be any turn that leaves the end before its NEWKEYS.
LEMMA ThenNewKeys ==
  ASSUME NEW c \in Transport, NEW b \in Transport, NEW e \in Ends, Turn(c, b), b.pc \in Before,
         b.kexno = c.kexno
  PROVE  Turn(c, NewKeysSent(e, b))
<1> DEFINE d == NewKeysSent(e, b)
<1>1. Good(b)
  BY TurnGood
<1>2. Turn(b, d) /\ SameIn(b, d) /\ d.theirs = b.theirs
  BY <1>1, NewKeysTurn
<1>3. b.pc \in Mid
  BY DEF Before, Mid
<1> HIDE DEF d
<1>4. Turn(c, d)
  BY <1>2, <1>3, TurnThen
<1> QED
  BY <1>4 DEF d

LEMMA ThenAgreed ==
  ASSUME NEW c \in Transport, NEW b \in Transport, NEW e \in Ends, Turn(c, b), b.pc \in Before,
         b.kexno = c.kexno
  PROVE  Turn(c, Agreed(e, b))
<1> DEFINE d == Agreed(e, b)
<1>1. Good(b)
  BY TurnGood
<1>2. Turn(b, d) /\ SameIn(b, d) /\ d.theirs = b.theirs
  BY <1>1, AgreedTurn
<1>3. b.pc \in Mid
  BY DEF Before, Mid
<1> HIDE DEF d
<1>4. Turn(c, d)
  BY <1>2, <1>3, TurnThen
<1> QED
  BY <1>4 DEF d

LEMMA StepAnswer ==
  ASSUME IInv, NEW e \in Ends, Answer(e)
  PROVE  IInv'
<1> DEFINE c == t[e]
           z == c.calls \cup (IF c.in_pq = <<>> THEN {} ELSE {"in"})
           b == [c EXCEPT !.calls = z]
<1>1. c \in Transport /\ Good(c) /\ c.pc \in {"askCrypto", "askKey"}
  BY EndIs DEF Answer
<1>2. /\ t' = [t EXCEPT ![e] = IF b.pc = "askCrypto" THEN Agreed(e, b) ELSE NewKeysSent(e, b)]
      /\ Rest'
  BY RestKept DEF Answer, Become
<1>3. z \in SUBSET {"in", "out"}
  BY <1>1 DEF Transport
<1> HIDE DEF c, z
<1>4. /\ b \in Transport /\ b.pc = c.pc
      /\ SameKeys(c, b) /\ SameKexinits(c, b) /\ SameHeld(c, b) /\ SameIn(c, b) /\ SameOut(c, b)
  BY <1>1, <1>3 DEF Transport, SameKeys, SameKexinits, SameHeld, SameIn, SameOut
<1> HIDE DEF b
<1>5. Turn(c, b) /\ Good(b) /\ b.pc \in Before /\ b.kexno = c.kexno
  BY <1>1, <1>4, TurnMoves, TurnGood DEF Before, SameKexinits
<1>6. Turn(c, NewKeysSent(e, b))
  BY <1>1, <1>4, <1>5, ThenNewKeys
<1>7. Turn(c, Agreed(e, b))
  BY <1>1, <1>4, <1>5, ThenAgreed
<1>8. \E d : t' = [t EXCEPT ![e] = d] /\ Turn(c, d)
  BY <1>2, <1>6, <1>7
<1>9. PICK d : t' = [t EXCEPT ![e] = d] /\ Turn(t[e], d)
  BY <1>8 DEF c
<1> QED
  BY <1>2, <1>9, TurnKeeps

LEMMA StepHigherSend ==
  ASSUME IInv, NEW e \in Ends, HigherSend(e)
  PROVE  IInv'
<1> DEFINE c == t[e]
           p == [type |-> "HIGHER", n |-> c.sent + 1]
           d == [c EXCEPT !.held = Append(@, p), !.sent = @ + 1, !.calls = @ \cup {"out"}]
<1>1. c \in Transport /\ Good(c)
  BY EndIs
<1>2. t' = [t EXCEPT ![e] = d] /\ Rest'
  BY RestKept DEF HigherSend, Become
<1>3. c.sent + 1 \in Nat /\ c.held \in Seq(HeldPacket) /\ c.calls \cup {"out"} \in SUBSET {"in", "out"}
  <2> HIDE DEF c
  <2>1. c.sent \in Nat /\ c.held \in Seq(HeldPacket) /\ c.calls \in SUBSET {"in", "out"}
    BY <1>1 DEF Transport
  <2> QED
    BY <2>1
<1>4. p \in HeldPacket
  BY <1>3 DEF HeldPacket
<1> HIDE DEF c, p
<1>5. Append(c.held, p) \in Seq(HeldPacket)
  BY <1>3, <1>4
<1>6. /\ d \in Transport /\ d.pc = c.pc /\ d.sent = c.sent + 1 /\ d.held = Append(c.held, p)
      /\ SameKeys(c, d) /\ SameKexinits(c, d) /\ SameIn(c, d) /\ SameOut(c, d)
  BY <1>1, <1>3, <1>5 DEF Transport, SameKeys, SameKexinits, SameIn, SameOut
<1> HIDE DEF d
<1>7. Turn(c, d)
  BY <1>1, <1>6, TurnHolds DEF p
<1> QED
  BY <1>2, <1>7, TurnKeeps DEF c

\* What only asks for new keys.
LEMMA AskingKeeps ==
  ASSUME IInv, NEW e \in Ends, NEW d, d \in Transport, Alike(t[e], d), t' = [t EXCEPT ![e] = d], Rest'
  PROVE  IInv'
<1>1. t[e] \in Transport /\ Good(t[e])
  BY EndIs
<1>2. Turn(t[e], d)
  BY <1>1, TurnMoves DEF Alike
<1> QED
  BY <1>2, TurnKeeps

LEMMA WantedFields ==
  ASSUME NEW c \in Transport
  PROVE  Wanted(c) \in Transport /\ Alike(c, Wanted(c))
<1>1. c.calls \cup {"in"} \in SUBSET {"in", "out"}
  BY DEF Transport
<1> QED
  BY <1>1 DEF Wanted, Transport, Alike, SameKeys, SameKexinits, SameHeld, SameIn, SameOut

LEMMA StepRequest ==
  ASSUME IInv, NEW e \in Ends, Request(e)
  PROVE  IInv'
<1>1. t[e] \in Transport
  BY EndIs
<1>2. Wanted(t[e]) \in Transport /\ Alike(t[e], Wanted(t[e]))
  BY <1>1, WantedFields
<1>3. /\ t' = [t EXCEPT ![e] = Wanted(t[e])]
      /\ requests' = [requests EXCEPT ![e] = @ + 1] /\ UNCHANGED <<changes, stages, authed>>
  BY DEF Request, Become
<1>4. Rest'
  BY <1>3, RestKept DEF Rest
<1> QED
  BY <1>2, <1>3, <1>4, AskingKeeps

LEMMA StepAuthDone ==
  ASSUME IInv, AuthDone
  PROVE  IInv'
<1> DEFINE c == t[Client]
           d == [c EXCEPT !.rekey_class = "POST_USERAUTH", !.calls = @ \cup {"in"}]
<1>1. Client \in Ends /\ c \in Transport
  BY EndIs DEF Ends
<1>2. /\ t' = [t EXCEPT ![Client] = d]
      /\ authed' = TRUE /\ UNCHANGED <<requests, changes, stages>>
  BY DEF AuthDone, Become
<1>3. Rest'
  BY <1>2, RestKept DEF Rest
<1> HIDE DEF c
<1>4. c.calls \cup {"in"} \in SUBSET {"in", "out"}
  BY <1>1 DEF Transport
<1>5. d \in Transport /\ Alike(c, d)
  BY <1>1, <1>4 DEF Transport, Alike, SameKeys, SameKexinits, SameHeld, SameIn, SameOut
<1> HIDE DEF d
<1> QED
  BY <1>1, <1>2, <1>3, <1>5, AskingKeeps DEF c

\* What a change of settings makes of the client's end: it is noted for the end of the
\* exchange (or of the user authentication), or asks for new keys.
LEMMA ReconfigureIs ==
  ASSUME Reconfigure
  PROVE  \E inadvisable \in Inadvisable :
           LET c == t[Client]
               b == IF c.kex_in_progress \/ inadvisable THEN [c EXCEPT !.deferred = TRUE] ELSE Wanted(c)
           IN /\ t' = [t EXCEPT ![Client] = [b EXCEPT !.conf = changes']]
              /\ changes < MaxChanges /\ changes' = changes + 1
              /\ stages' = stages \cup {Stage(c)} /\ UNCHANGED <<requests, authed>>
  BY DEF Reconfigure, Changed, Become

LEMMA StepReconfigure ==
  ASSUME IInv, Reconfigure
  PROVE  IInv'
<1> DEFINE c == t[Client]
           k == [c EXCEPT !.deferred = TRUE]
           w == Wanted(c)
<1>1. Client \in Ends /\ c \in Transport
  BY EndIs DEF Ends
<1>2. PICK b \in {k, w} :
        /\ t' = [t EXCEPT ![Client] = [b EXCEPT !.conf = changes']]
        /\ changes < MaxChanges /\ changes' = changes + 1
        /\ stages' = stages \cup {Stage(c)} /\ UNCHANGED <<requests, authed>>
  <2> HIDE DEF k, w
  <2> QED
    BY ReconfigureIs DEF k, w
<1>3. Rest' /\ changes' \in Nat
  <2>1. Stage(c) \in {"first", "login", "other"}
    BY DEF Stage
  <2> QED
    BY <1>2, <2>1, RestKept, RekeyAssumption DEF Rest
<1> HIDE DEF c
<1>4. b \in Transport /\ Alike(c, b)
  <2>1. k \in Transport /\ Alike(c, k)
    BY <1>1 DEF Transport, Alike, SameKeys, SameKexinits, SameHeld, SameIn, SameOut
  <2>2. w \in Transport /\ Alike(c, w)
    BY <1>1, WantedFields
  <2> HIDE DEF k, w
  <2> QED
    BY <2>1, <2>2
<1> DEFINE d == [b EXCEPT !.conf = changes']
<1>5. d \in Transport /\ Alike(c, d)
  BY <1>3, <1>4 DEF Transport, Alike, SameKeys, SameKexinits, SameHeld, SameIn, SameOut
<1>6. t' = [t EXCEPT ![Client] = d]
  BY <1>2
<1> HIDE DEF d
<1> QED
  BY <1>1, <1>3, <1>5, <1>6, AskingKeeps DEF c

-----------------------------------------------------------------------------
(* The coroutine pops the packet it waits for                               *)

LEMMA AwaitedIs ==
  ASSUME NEW e, NEW pc
  PROVE  /\ pc = "kexinit" => Awaited(e, pc) = "KEXINIT"
         /\ pc = "kex" => Awaited(e, pc) \in {"KEX_REPLY", "KEX_INIT"}
         /\ pc = "newkeys" => Awaited(e, pc) = "NEWKEYS"
         /\ pc = "service" => Awaited(e, pc) \in {"SERVICE_ACCEPT", "SERVICE_REQUEST"}
  BY Zenon DEF Awaited

\* The end c, whose coroutine has popped p, and what may come of it.
Popped(c) == [c EXCEPT !.in_pq = Tail(@)]

LEMMA ResumeKexinit ==
  ASSUME IInv, NEW e \in Ends, t[e].pc = "kexinit", t[e].in_pq # <<>>,
         Head(t[e].in_pq).type = "KEXINIT", NEW d \in Continued(e, Popped(t[e]), Head(t[e].in_pq))
  PROVE  Turn(t[e], d)
<1> DEFINE c == t[e]
           p == Head(c.in_pq)
           k == Popped(c)
           m == [k EXCEPT !.theirs = p.n]
           b == [m EXCEPT !.pc = "askCrypto"]
<1>1. c \in Transport /\ Good(c) /\ c.pc = "kexinit" /\ c.in_pq # <<>> /\ p.type = "KEXINIT"
  BY EndIs
<1>2. p.n = c.theirs + 1 /\ p.n \in Nat
  BY <1>1, NextKexinit, HeadType
<1>3. /\ k \in Transport /\ k.pc = c.pc
      /\ SameKeys(c, k) /\ SameKexinits(c, k) /\ SameHeld(c, k) /\ SameOut(c, k)
      /\ k.in_pq = Tail(c.in_pq) /\ k.got = c.got
  BY <1>1, PoppedFields DEF Popped
<1>4. d \in {Agreed(e, m)} \cup (IF e = Client THEN {b} ELSE {})
  <2>1. k.pc = "kexinit" /\ d \in Continued(e, k, p)
    BY <1>1, <1>3
  <2> HIDE DEF k, p
  <2>2. Continued(e, k, p) = {Agreed(e, m)} \cup (IF e = Client THEN {b} ELSE {})
    BY <2>1, Zenon DEF Continued
  <2> QED
    BY <2>1, <2>2
<1>5. d = Agreed(e, m) \/ d = b
  BY <1>4
<1> HIDE DEF c, p, k
<1>6. m \in Transport /\ b \in Transport
  BY <1>2, <1>3 DEF Transport, Places
<1>7. /\ b.pc = "askCrypto" /\ b.theirs = p.n /\ b.kexno = c.kexno
      /\ SameKeys(c, b) /\ SameHeld(c, b) /\ SameOut(c, b)
      /\ b.in_pq = Tail(c.in_pq) /\ b.got = c.got
  BY <1>2, <1>3 DEF Transport, SameKeys, SameKexinits, SameHeld, SameOut
<1>8. Agreed(e, m) = Agreed(e, b)
  <2>1. [m EXCEPT !.pc = "kex"] = [b EXCEPT !.pc = "kex"]
    BY <1>6 DEF Transport
  <2> HIDE DEF m, b
  <2> QED
    BY <2>1 DEF Agreed
<1> HIDE DEF m, b
<1>9. Turn(c, b)
  <2>1. b.pc \in Before
    BY <1>7 DEF Before
  <2> QED
    BY <1>1, <1>2, <1>6, <1>7, <2>1, TurnTakesKexinit DEF p
<1>10. Turn(c, Agreed(e, b))
  <2>1. b.pc \in Before
    BY <1>7 DEF Before
  <2> QED
    BY <1>1, <1>6, <1>7, <1>9, <2>1, ThenAgreed
<1> QED
  BY <1>5, <1>8, <1>9, <1>10 DEF c

\* A packet that only lets the coroutine go on.
LEMMA PoppedTurn ==
  ASSUME NEW c \in Transport, Good(c), c.in_pq # <<>>,
         Head(c.in_pq).type \notin {"KEXINIT", "NEWKEYS", "HIGHER"}
  PROVE  LET k == Popped(c)
         IN k \in Transport /\ k.pc = c.pc /\ k.kexno = c.kexno /\ Good(k) /\ Turn(c, k)
<1> DEFINE k == Popped(c)
<1>1. /\ k \in Transport /\ k.pc = c.pc
      /\ SameKeys(c, k) /\ SameKexinits(c, k) /\ SameHeld(c, k) /\ SameOut(c, k)
      /\ k.in_pq = Tail(c.in_pq) /\ k.got = c.got
  BY PoppedFields DEF Popped
<1> HIDE DEF k
<1>2. Turn(c, k)
  BY <1>1, TurnTakes
<1>3. Good(k) /\ k.kexno = c.kexno
  BY <1>1, <1>2, TurnGood DEF SameKexinits
<1> QED
  BY <1>1, <1>2, <1>3 DEF k

\* ... and a reply to it.
LEMMA ThenPushes ==
  ASSUME NEW c \in Transport, NEW b \in Transport, Turn(c, b), b.kexno = c.kexno,
         NEW type \in PacketTypes \ {"KEXINIT", "HIGHER", "NEWKEYS"}
  PROVE  LET d == Push(b, type, 0)
         IN d \in Transport /\ d.pc = b.pc /\ d.kexno = b.kexno /\ Turn(c, d)
<1> DEFINE d == Push(b, type, 0)
<1>1. /\ d \in Transport /\ d.pc = b.pc
      /\ SameKeys(b, d) /\ SameKexinits(b, d) /\ SameHeld(b, d) /\ SameIn(b, d)
      /\ d.wire = b.wire /\ d.out_pq = Append(b.out_pq, [type |-> type, n |-> 0])
  BY PushFields
<1>2. Good(b)
  BY TurnGood
<1> HIDE DEF d
<1>3. Turn(b, d)
  BY <1>1, <1>2, TurnPushes
<1>4. d.theirs = b.theirs /\ d.kexno = b.kexno
  BY <1>1 DEF SameKexinits
<1>5. Turn(c, d)
  BY <1>1, <1>3, <1>4, TurnThen
<1> QED
  BY <1>1, <1>4, <1>5 DEF d

LEMMA ResumeKex ==
  ASSUME IInv, NEW e \in Ends, t[e].pc = "kex", t[e].in_pq # <<>>,
         Head(t[e].in_pq).type \in {"KEX_REPLY", "KEX_INIT"},
         NEW d \in Continued(e, Popped(t[e]), Head(t[e].in_pq))
  PROVE  Turn(t[e], d)
<1> DEFINE c == t[e]
           k == Popped(c)
           b == Push(k, "KEX_REPLY", 0)
           a == [k EXCEPT !.pc = "askKey"]
<1>1. c \in Transport /\ Good(c) /\ c.pc = "kex"
  BY EndIs
<1>2. k \in Transport /\ k.pc = "kex" /\ k.kexno = c.kexno /\ Good(k) /\ Turn(c, k)
  BY <1>1, PoppedTurn
<1>3. d = NewKeysSent(e, b) \/ d = NewKeysSent(e, k) \/ d = a
  <2>1. d \in IF e = Server THEN {NewKeysSent(e, b)}
              ELSE {NewKeysSent(e, k)} \cup (IF k.kexno = 1 THEN {a} ELSE {})
    <3> DEFINE p == Head(c.in_pq)
    <3>1. k.pc = "kex" /\ d \in Continued(e, k, p)
      BY <1>2
    <3> HIDE DEF k, p
    <3>2. Continued(e, k, p) =
            IF e = Server THEN {NewKeysSent(e, b)}
            ELSE {NewKeysSent(e, k)} \cup (IF k.kexno = 1 THEN {a} ELSE {})
      BY <3>1, Zenon DEF Continued
    <3> QED
      BY <3>1, <3>2
  <2> HIDE DEF a, b, k
  <2> QED
    BY <2>1
<1> HIDE DEF c, k
<1>4. b \in Transport /\ b.pc = "kex" /\ b.kexno = c.kexno /\ Turn(c, b)
  <2>1. "KEX_REPLY" \in PacketTypes \ {"KEXINIT", "HIGHER", "NEWKEYS"}
    BY DEF PacketTypes, TransportTypes
  <2> QED
    BY <1>1, <1>2, <2>1, ThenPushes
<1>5. /\ a \in Transport /\ a.pc = "askKey"
      /\ SameKeys(k, a) /\ SameKexinits(k, a) /\ SameHeld(k, a) /\ SameIn(k, a) /\ SameOut(k, a)
  BY <1>2 DEF Transport, Places, SameKeys, SameKexinits, SameHeld, SameIn, SameOut
<1> HIDE DEF a, b
<1>6. Turn(c, NewKeysSent(e, b)) /\ Turn(c, NewKeysSent(e, k))
  BY <1>1, <1>2, <1>4, ThenNewKeys DEF Before
<1>7. Turn(c, a)
  <2>1. Turn(k, a)
    BY <1>2, <1>5, TurnMoves DEF Before
  <2>2. k.pc \in Mid /\ a.theirs = k.theirs
    BY <1>2, <1>5 DEF Mid, SameKexinits
  <2> QED
    BY <1>1, <1>2, <1>5, <2>1, <2>2, TurnThen
<1> QED
  BY <1>3, <1>6, <1>7 DEF c

LEMMA ResumeService ==
  ASSUME IInv, NEW e \in Ends, t[e].pc = "service", t[e].in_pq # <<>>,
         Head(t[e].in_pq).type \in {"SERVICE_ACCEPT", "SERVICE_REQUEST"},
         NEW d \in Continued(e, Popped(t[e]), Head(t[e].in_pq))
  PROVE  Turn(t[e], d)
<1> DEFINE c == t[e]
           k == Popped(c)
           b == Push(k, "SERVICE_ACCEPT", 0)
<1>1. c \in Transport /\ Good(c) /\ c.pc = "service"
  BY EndIs
<1>2. k \in Transport /\ k.pc = "service" /\ k.kexno = c.kexno /\ Good(k) /\ Turn(c, k)
  BY <1>1, PoppedTurn
<1>3. d = Running(k) \/ d = Running(b)
  <2>1. d \in {Running(IF e = Client THEN k ELSE b)}
    <3> DEFINE p == Head(c.in_pq)
    <3>1. k.pc = "service" /\ d \in Continued(e, k, p)
      BY <1>2
    <3> HIDE DEF k, p
    <3>2. Continued(e, k, p) = {Running(IF e = Client THEN k ELSE b)}
      BY <3>1, Zenon DEF Continued
    <3> QED
      BY <3>1, <3>2
  <2> HIDE DEF b, k
  <2> QED
    BY <2>1
<1> HIDE DEF c, k
<1>4. b \in Transport /\ b.pc = "service" /\ b.kexno = c.kexno /\ Turn(c, b)
  <2>1. "SERVICE_ACCEPT" \in PacketTypes \ {"KEXINIT", "HIGHER", "NEWKEYS"}
    BY DEF PacketTypes, TransportTypes
  <2> QED
    BY <1>1, <1>2, <2>1, ThenPushes
<1> HIDE DEF b
<1>5. ASSUME NEW x \in Transport, x.pc = "service", x.kexno = c.kexno, Turn(c, x)
      PROVE  Turn(c, Running(x))
  <2> DEFINE r == Running(x)
  <2>1. /\ r \in Transport /\ r.pc = "run"
        /\ SameKeys(x, r) /\ SameKexinits(x, r) /\ SameHeld(x, r) /\ SameIn(x, r) /\ SameOut(x, r)
    BY RunningFields
  <2>2. Good(x)
    BY <1>5, TurnGood
  <2> HIDE DEF r
  <2>3. Turn(x, r)
    BY <1>5, <2>1, <2>2, TurnMoves
  <2>4. r.theirs = x.theirs /\ r.pc \notin Mid
    BY <2>1 DEF SameKexinits, Mid
  <2>5. Turn(c, r)
    BY <1>1, <1>5, <2>1, <2>3, <2>4, TurnThen
  <2> QED
    BY <2>5 DEF r
<1> QED
  BY <1>2, <1>3, <1>4, <1>5 DEF c

LEMMA ResumeNewKeys ==
  ASSUME IInv, NEW e \in Ends, t[e].pc = "newkeys", t[e].in_pq # <<>>,
         Head(t[e].in_pq).type = "NEWKEYS",
         NEW d \in Continued(e, Popped(t[e]), Head(t[e].in_pq))
  PROVE  Turn(t[e], d)
<1> DEFINE c == t[e]
           k == Popped(c)
           m == [k EXCEPT !.inkey = Hash(e, k), !.pending_newkeys = FALSE]
           \* the same, at the next place but for the flags
           At(pc) == [m EXCEPT !.pc = pc]
           next == [m EXCEPT !.deferred = FALSE]
           over == [m EXCEPT !.kex_in_progress = FALSE]
           service == [m EXCEPT !.pc = "service", !.kex_in_progress = FALSE]
<1>1. c \in Transport /\ Good(c) /\ c.pc = "newkeys" /\ c.in_pq # <<>> /\ Head(c.in_pq).type = "NEWKEYS"
  BY EndIs
<1>2. /\ k \in Transport /\ k.pc = c.pc
      /\ SameKeys(c, k) /\ SameKexinits(c, k) /\ SameHeld(c, k) /\ SameOut(c, k)
      /\ k.in_pq = Tail(c.in_pq) /\ k.got = c.got
  BY <1>1, PoppedFields DEF Popped
<1>3. d = NewKeysReceived(e, k)
  <2> DEFINE p == Head(c.in_pq)
  <2>1. k.pc = "newkeys" /\ d \in Continued(e, k, p)
    BY <1>1, <1>2
  <2> HIDE DEF k, p
  <2>2. Continued(e, k, p) = {NewKeysReceived(e, k)}
    BY <2>1, Zenon DEF Continued
  <2> QED
    BY <2>1, <2>2
<1>4. d \in {Begun(next), Running(over), Push(service, "SERVICE_REQUEST", 0), service}
  <2>1. d = IF m.deferred THEN Begun(next)
            ELSE IF m.higher_ok THEN Running(over)
            ELSE IF e = Client THEN Push(service, "SERVICE_REQUEST", 0) ELSE service
    BY <1>3, Zenon DEF NewKeysReceived
  <2> HIDE DEF m, next, over, service
  <2> QED
    BY <2>1
<1>5. Hash(e, k) = Key(c.kexno) /\ Hash(e, k) \in Keys
  <2>1. k.kexno = c.kexno /\ k.theirs = c.kexno /\ c.kexno \in Nat
    BY <1>1, <1>2, TransportType DEF Good, Phase, SameKexinits
  <2> HIDE DEF k
  <2> QED
    BY <2>1 DEF Hash, Key, Keys
<1> HIDE DEF c, k
<1>6. /\ m \in Transport /\ m.inkey = Key(c.kexno) /\ m.outkey = c.outkey /\ m.pending_newkeys = FALSE
      /\ m.got = c.got /\ m.in_pq = Tail(c.in_pq)
      /\ SameKexinits(c, m) /\ SameHeld(c, m) /\ SameOut(c, m)
  <2> DEFINE h == Hash(e, k)
  <2>1. h \in Keys /\ h = Key(c.kexno)
    BY <1>5
  <2>2. m = [k EXCEPT !.inkey = h, !.pending_newkeys = FALSE]
    OBVIOUS
  <2> HIDE DEF h, m
  <2>3. /\ m \in Transport /\ m.inkey = h /\ m.outkey = k.outkey /\ m.pending_newkeys = FALSE
        /\ m.got = k.got /\ m.in_pq = k.in_pq
        /\ SameKexinits(k, m) /\ SameHeld(k, m) /\ SameOut(k, m)
    BY <1>2, <2>1, <2>2 DEF Transport, SameKexinits, SameHeld, SameOut
  <2> QED
    BY <1>2, <2>1, <2>3 DEF SameKeys, SameKexinits, SameHeld, SameOut
<1> HIDE DEF m
<1>7. ASSUME NEW b \in Transport, b.pc \in {"service", "run"}, SameKeys(m, b), SameKexinits(m, b),
             SameHeld(m, b), SameIn(m, b), SameOut(m, b)
      PROVE  Turn(c, b) /\ b.kexno = c.kexno
  <2>1. /\ b.in_pq = Tail(c.in_pq) /\ b.inkey = Key(c.kexno) /\ b.outkey = c.outkey
        /\ b.pending_newkeys = FALSE /\ b.got = c.got
        /\ SameKexinits(c, b) /\ SameHeld(c, b) /\ SameOut(c, b)
    BY <1>6, <1>7 DEF SameKeys, SameKexinits, SameHeld, SameIn, SameOut
  <2> QED
    BY <1>1, <1>7, <2>1, TurnTakesNewKeys DEF SameKexinits
<1>8. Turn(c, Begun(next))
  <2> DEFINE b == At("run")
             g == Begun(next)
  <2>1. next \in Transport
    BY <1>6 DEF Transport
  <2>2. /\ b \in Transport /\ b.pc = "run"
        /\ SameKeys(m, b) /\ SameKexinits(m, b) /\ SameHeld(m, b) /\ SameIn(m, b) /\ SameOut(m, b)
    BY <1>6 DEF Transport, Places, SameKeys, SameKexinits, SameHeld, SameIn, SameOut
  <2>3. /\ SameKeys(m, next) /\ SameKexinits(m, next) /\ SameHeld(m, next) /\ SameIn(m, next)
        /\ SameOut(m, next)
    BY <1>6 DEF Transport, SameKeys, SameKexinits, SameHeld, SameIn, SameOut
  <2> HIDE DEF next, b
  <2>4. /\ g \in Transport
        /\ g.pc = "kexinit" /\ g.kexno = next.kexno + 1 /\ g.theirs = next.theirs
        /\ SameKeys(next, g) /\ SameHeld(next, g) /\ SameIn(next, g)
        /\ g.wire = next.wire
        /\ g.out_pq = Append(next.out_pq, [type |-> "KEXINIT", n |-> next.kexno + 1])
    BY <2>1, BegunFields
  <2> HIDE DEF g
  <2>5. /\ g.kexno = b.kexno + 1 /\ g.theirs = b.theirs
        /\ SameKeys(b, g) /\ SameHeld(b, g) /\ SameIn(b, g)
        /\ g.wire = b.wire
        /\ g.out_pq = Append(b.out_pq, [type |-> "KEXINIT", n |-> b.kexno + 1])
    BY <2>2, <2>3, <2>4 DEF SameKeys, SameKexinits, SameHeld, SameIn, SameOut
  <2>6. Turn(c, b) /\ b.kexno = c.kexno
    BY <1>7, <2>2
  <2>7. Good(b)
    BY <2>6, TurnGood
  <2>8. Turn(b, g)
    BY <2>2, <2>4, <2>5, <2>7, TurnBegins
  <2>9. g.pc \notin Mid
    BY <2>4 DEF Mid
  <2>10. Turn(c, g)
    BY <1>1, <2>2, <2>5, <2>6, <2>8, <2>9, TurnThen
  <2> QED
    BY <2>10 DEF g
<1>9. Turn(c, Running(over))
  <2> DEFINE r == Running(over)
  <2>1. over \in Transport
    BY <1>6 DEF Transport
  <2>2. /\ SameKeys(m, over) /\ SameKexinits(m, over) /\ SameHeld(m, over) /\ SameIn(m, over)
        /\ SameOut(m, over)
    BY <1>6 DEF Transport, SameKeys, SameKexinits, SameHeld, SameIn, SameOut
  <2> HIDE DEF over
  <2>3. /\ r \in Transport /\ r.pc = "run"
        /\ SameKeys(over, r) /\ SameKexinits(over, r) /\ SameHeld(over, r) /\ SameIn(over, r)
        /\ SameOut(over, r)
    BY <2>1, RunningFields
  <2> HIDE DEF r
  <2>4. SameKeys(m, r) /\ SameKexinits(m, r) /\ SameHeld(m, r) /\ SameIn(m, r) /\ SameOut(m, r)
    BY <2>2, <2>3 DEF SameKeys, SameKexinits, SameHeld, SameIn, SameOut
  <2>5. Turn(c, r)
    BY <1>7, <2>3, <2>4
  <2> QED
    BY <2>5 DEF r
<1>10. /\ service \in Transport /\ service.pc = "service"
       /\ SameKeys(m, service) /\ SameKexinits(m, service) /\ SameHeld(m, service)
       /\ SameIn(m, service) /\ SameOut(m, service)
  BY <1>6 DEF Transport, Places, SameKeys, SameKexinits, SameHeld, SameIn, SameOut
<1> HIDE DEF service, next, over
<1>11. Turn(c, service) /\ service.kexno = c.kexno
  BY <1>7, <1>10
<1>12. Turn(c, Push(service, "SERVICE_REQUEST", 0))
  <2>1. "SERVICE_REQUEST" \in PacketTypes \ {"KEXINIT", "HIGHER", "NEWKEYS"}
    BY DEF PacketTypes, TransportTypes
  <2> QED
    BY <1>1, <1>10, <1>11, <2>1, ThenPushes
<1> QED
  BY <1>4, <1>8, <1>9, <1>11, <1>12 DEF c

LEMMA StepResume ==
  ASSUME IInv, NEW e \in Ends, Resume(e)
  PROVE  IInv'
<1>1. /\ t[e].pc \in {"kexinit", "kex", "newkeys", "service"}
      /\ t[e].in_pq # <<>> /\ Head(t[e].in_pq).type = Awaited(e, t[e].pc)
      /\ UNCHANGED <<requests, changes, stages, authed>>
  BY DEF Resume
<1>2. PICK d \in Continued(e, Popped(t[e]), Head(t[e].in_pq)) : Runs(e, d)
  BY DEF Resume, Popped
<1>3. CASE t[e].pc = "kexinit"
  <2>1. Head(t[e].in_pq).type = "KEXINIT"
    BY <1>1, <1>3, AwaitedIs
  <2>2. Turn(t[e], d)
    BY <1>1, <1>3, <2>1, ResumeKexinit
  <2> QED
    BY <1>1, <1>2, <2>2, RunsKeeps
<1>4. CASE t[e].pc = "kex"
  <2>1. Head(t[e].in_pq).type \in {"KEX_REPLY", "KEX_INIT"}
    BY <1>1, <1>4, AwaitedIs
  <2>2. Turn(t[e], d)
    BY <1>1, <1>4, <2>1, ResumeKex
  <2> QED
    BY <1>1, <1>2, <2>2, RunsKeeps
<1>5. CASE t[e].pc = "newkeys"
  <2>1. Head(t[e].in_pq).type = "NEWKEYS"
    BY <1>1, <1>5, AwaitedIs
  <2>2. Turn(t[e], d)
    BY <1>1, <1>5, <2>1, ResumeNewKeys
  <2> QED
    BY <1>1, <1>2, <2>2, RunsKeeps
<1>6. CASE t[e].pc = "service"
  <2>1. Head(t[e].in_pq).type \in {"SERVICE_ACCEPT", "SERVICE_REQUEST"}
    BY <1>1, <1>6, AwaitedIs
  <2>2. Turn(t[e], d)
    BY <1>1, <1>6, <2>1, ResumeService
  <2> QED
    BY <1>1, <1>2, <2>2, RunsKeeps
<1> QED
  BY <1>1, <1>3, <1>4, <1>5, <1>6

-----------------------------------------------------------------------------
(* The invariant holds in every state                                       *)

LEMMA InitHolds == Init => IInv
<1> SUFFICES ASSUME Init PROVE IInv
  OBVIOUS
<1>1. /\ t = [e \in Ends |-> Start] /\ requests = [e \in Ends |-> 0]
      /\ changes = 0 /\ stages = {} /\ authed = FALSE
  BY DEF Init
<1>2. Start \in Transport
  <2>1. <<>> \in Seq(HeldPacket) /\ <<>> \in Seq(Packet) /\ <<>> \in Seq(WirePacket)
    OBVIOUS
  <2>2. NoKey \in Keys
    BY DEF NoKey, Keys
  <2> QED
    BY <2>1, <2>2 DEF Start, Transport, Places
<1>3. /\ Start.pc = "start" /\ Start.kexno = 0 /\ Start.theirs = 0
      /\ Start.outkey = Key(0) /\ Start.inkey = Key(0) /\ Start.pending_newkeys = FALSE
      /\ Start.held = <<>> /\ Start.in_pq = <<>> /\ Start.out_pq = <<>> /\ Start.wire = <<>>
      /\ Start.sent = 0 /\ Start.got = 0
  BY DEF Start, NoKey, Key
<1> DEFINE c == Start
<1> HIDE DEF c
<1>4. \A e \in Ends : t[e] = c /\ Other(e) \in Ends /\ t[Other(e)] = c
  BY <1>1, TheEnds DEF c
<1>5. TypeOK
  <2>1. t \in [Ends -> Transport]
    BY <1>1, <1>2
  <2>2. requests \in [Ends -> Nat] /\ changes \in 0..MaxChanges
    BY <1>1, RekeyAssumption
  <2>3. stages \subseteq {"first", "login", "other"} /\ authed \in BOOLEAN
    BY <1>1
  <2> QED
    BY <2>1, <2>2, <2>3, TypeIs DEF Rest
<1>6. Phase(c) /\ HeldInOrder(c)
  BY <1>3 DEF Phase, HeldInOrder, Before, c
<1>7. Chain(c) /\ Stopped(c) /\ OldestKey(c) = NextInKey(c)
  BY <1>3 DEF Chain, Stopped, OldestKey, NextInKey, c
<1>8. \A e \in Ends : Sent(e) = <<>>
  <2>1. Plain(<<>>) = <<>>
    BY DEF Plain
  <2>2. <<>> \o (<<>> \o <<>>) = <<>>
    OBVIOUS
  <2> QED
    BY <1>3, <1>4, <2>1, <2>2 DEF Sent, Out, c
<1>9. <<>> \in Seq(Packet) /\ Len(<<>>) = 0
  OBVIOUS
<1>10. InOrder(<<>>, "KEXINIT", 0, 0) /\ InOrder(<<>>, "HIGHER", 0, 0)
  <2> DEFINE z == <<>>
  <2>1. z \in Seq(Packet) /\ 0 \in Int
    BY <1>9
  <2>2. \A i \in 1..Len(z) : z[i].type # "KEXINIT" /\ z[i].type # "HIGHER"
    BY <1>9
  <2> HIDE DEF z
  <2>3. InOrder(z, "KEXINIT", 0, 0) /\ InOrder(z, "HIGHER", 0, 0)
    BY <2>1, <2>2, InOrderNone
  <2> QED
    BY <2>3 DEF z
<1>11. Numbered
  BY <1>3, <1>4, <1>8, <1>9, <1>10 DEF Numbered, c
<1>12. Silent
  <2>1. c.pc \notin Mid /\ c.pc \notin After
    BY <1>3 DEF Mid, After, c
  <2>2. \A mid : Quiet(<<>>, mid)
    BY <1>9 DEF Quiet
  <2> QED
    BY <1>4, <1>8, <2>1, <2>2 DEF Silent
<1> QED
  BY <1>4, <1>5, <1>6, <1>7, <1>11, <1>12 DEF IInv, Locals, Keyed

LEMMA NextHolds == IInv /\ [Next]_vars => IInv'
<1> SUFFICES ASSUME IInv, [Next]_vars PROVE IInv'
  OBVIOUS
<1>1. CASE UNCHANGED vars
  BY <1>1 DEF vars, IInv, TypeOK, Locals, Keyed, Numbered, Silent, Sent
<1>2. ASSUME NEW e \in Ends, Proceed(e) PROVE IInv'
  BY <1>2, StepMarshal, StepDecrypt, StepEnter, StepPassUp, StepResume, StepDoze, StepLoop, StepAnswer
     DEF Proceed
<1>3. ASSUME NEW e \in Ends, HigherSend(e) PROVE IInv'
  BY <1>3, StepHigherSend
<1>4. ASSUME NEW e \in Ends, Request(e) PROVE IInv'
  BY <1>4, StepRequest
<1>5. CASE AuthDone
  BY <1>5, StepAuthDone
<1>6. CASE Reconfigure
  BY <1>6, StepReconfigure
<1> QED
  BY <1>1, <1>2, <1>3, <1>4, <1>5, <1>6 DEF Next

\* The inductive invariant: where the two KEXINITs and the keys of an end have come, the
\* keys along the wire, the numbers of what is under way, and where NEWKEYS lies in it.
THEOREM Inductive == Spec => []IInv
<1>1. Init => IInv
  BY InitHolds
<1>2. IInv /\ [Next]_vars => IInv'
  BY NextHolds
<1> QED
  BY <1>1, <1>2, PTL DEF Spec

\* Every field of the transport layer (ssh2transport.h) keeps its type, whatever is asked
\* and sent.
THEOREM TypesKept == Spec => []TypeOK
<1>1. IInv => TypeOK
  BY DEF IInv
<1> QED
  BY <1>1, Inductive, PTL

\* A packet the BPP may decrypt was encrypted with the key the BPP has: both ends change
\* keys at the same place of the stream, and to the same key (ssh2_bpp_new_outgoing_crypto,
\* pending_newkeys in ssh2bpp.c).
THEOREM KeysAlwaysMatch == Spec => []KeysMatch
<1>1. IInv => KeysMatch
  <2> SUFFICES ASSUME IInv, NEW e \in Ends, ~t[e].pending_newkeys, t[Other(e)].wire # <<>>
               PROVE  Head(t[Other(e)].wire).key = t[e].inkey
    BY DEF KeysMatch
  <2> DEFINE c == t[Other(e)]
             w == c.wire
  <2>1. Other(e) \in Ends /\ Other(Other(e)) = e
    BY TheEnds
  <2>2. OldestKey(c) = NextInKey(t[e])
    BY <2>1 DEF IInv, Keyed
  <2>3. NextInKey(t[e]) = t[e].inkey
    BY DEF NextInKey
  <2>4. w \in Seq(WirePacket) /\ w # <<>>
    BY <2>1, EndIs, TransportType
  <2>5. OldestKey(c) = w[1].key
    BY <2>4 DEF OldestKey
  <2> HIDE DEF w
  <2>6. Head(w) = w[1]
    BY <2>4
  <2> QED
    BY <2>2, <2>3, <2>5, <2>6 DEF w
<1> QED
  BY <1>1, Inductive, PTL

-----------------------------------------------------------------------------
(* The stream as the properties have it, packets on the wire with their keys *)

Sequence == Seq(Packet \cup WirePacket)

\* The same packets, but for the keys.
Like(s, u) ==
  Len(s) = Len(u) /\ \A i \in 1..Len(s) : s[i].type = u[i].type /\ s[i].n = u[i].n

LEMMA LikeConcat ==
  ASSUME NEW S, NEW a \in Seq(S), NEW b \in Seq(S), NEW x \in Seq(S), NEW y \in Seq(S),
         Like(a, x), Like(b, y)
  PROVE  Like(a \o b, x \o y)
<1> DEFINE s == a \o b
           u == x \o y
<1>1. /\ Len(s) = Len(a) + Len(b) /\ Len(a) \in Nat /\ Len(b) \in Nat
      /\ \A i \in 1..Len(a) : s[i] = a[i]
      /\ \A i \in 1..Len(b) : s[Len(a) + i] = b[i]
  BY ConcatAt
<1>2. /\ Len(u) = Len(x) + Len(y)
      /\ \A i \in 1..Len(x) : u[i] = x[i]
      /\ \A i \in 1..Len(y) : u[Len(x) + i] = y[i]
  BY ConcatAt
<1>3. Len(a) = Len(x) /\ Len(b) = Len(y)
  BY DEF Like
<1>4. \A i \in 1..Len(s) : \/ i \in 1..Len(a) /\ s[i] = a[i]
                           \/ \E k \in 1..Len(b) : i = Len(a) + k /\ s[i] = b[k]
  BY ConcatCases
<1> HIDE DEF s, u
<1>5. ASSUME NEW i \in 1..Len(s) PROVE s[i].type = u[i].type /\ s[i].n = u[i].n
  <2>1. CASE i \in 1..Len(a) /\ s[i] = a[i]
    BY <1>2, <1>3, <2>1 DEF Like
  <2>2. ASSUME NEW k \in 1..Len(b), i = Len(a) + k, s[i] = b[k]
        PROVE  s[i].type = u[i].type /\ s[i].n = u[i].n
    BY <1>2, <1>3, <2>2 DEF Like
  <2> QED
    BY <1>4, <2>1, <2>2
<1>6. Like(s, u)
  BY <1>1, <1>2, <1>3, <1>5 DEF Like
<1> QED
  BY <1>6 DEF s, u

LEMMA LikePlain ==
  ASSUME NEW w \in Seq(WirePacket)
  PROVE  Like(w, Plain(w))
<1>1. /\ Len(Plain(w)) = Len(w)
      /\ \A i \in 1..Len(w) : Plain(w)[i] = [type |-> w[i].type, n |-> w[i].n]
  BY PlainIs
<1>2. ASSUME NEW i \in 1..Len(w) PROVE w[i].type = Plain(w)[i].type /\ w[i].n = Plain(w)[i].n
  <2>1. Plain(w)[i] = [type |-> w[i].type, n |-> w[i].n]
    BY <1>1
  <2> QED
    BY <2>1
<1> QED
  BY <1>1, <1>2 DEF Like

LEMMA StreamIs ==
  ASSUME IInv, NEW e \in Ends
  PROVE  /\ Stream(e) \in Sequence /\ Sent(e) \in Seq(Packet) /\ Sent(e) \in Sequence
         /\ Like(Stream(e), Sent(e))
<1> DEFINE a == t[Other(e)].in_pq
           w == t[e].wire
           p == Plain(t[e].wire)
           q == t[e].out_pq
           S == Packet \cup WirePacket
<1>1. t[Other(e)] \in Transport /\ t[e] \in Transport
  BY TheEnds, EndIs
<1>2. a \in Seq(Packet) /\ w \in Seq(WirePacket) /\ p \in Seq(Packet) /\ q \in Seq(Packet)
  BY <1>1, TransportType, PlainIs
<1>3. Like(w, p)
  BY <1>1, TransportType, LikePlain
<1>4. Stream(e) = (a \o w) \o q /\ Sent(e) = a \o (p \o q)
  BY Zenon DEF Stream, Sent, Out
<1> HIDE DEF a, w, p, q
<1>5. Packet \subseteq S /\ WirePacket \subseteq S
  OBVIOUS
<1> HIDE DEF S
<1>6. a \in Seq(S) /\ w \in Seq(S) /\ p \in Seq(S) /\ q \in Seq(S)
  BY <1>2, <1>5, SeqMonotonic
<1>7. Like(a, a) /\ Like(q, q)
  BY DEF Like
<1>8. a \o w \in Seq(S) /\ a \o p \in Seq(S) /\ Like(a \o w, a \o p)
  BY <1>3, <1>6, <1>7, LikeConcat
<1>9. Like((a \o w) \o q, (a \o p) \o q)
  <2> DEFINE x == a \o w
             y == a \o p
  <2>1. x \in Seq(S) /\ y \in Seq(S) /\ Like(x, y)
    BY <1>8
  <2> HIDE DEF x, y
  <2>2. Like(x \o q, y \o q)
    BY <1>6, <1>7, <2>1, LikeConcat
  <2> QED
    BY <2>2 DEF x, y
<1>10. (a \o p) \o q = a \o (p \o q)
  BY <1>2, ConcatAssociative
<1>11. (a \o w) \o q \in Seq(S) /\ (a \o p) \o q \in Seq(S) /\ (a \o p) \o q \in Seq(Packet)
  BY <1>2, <1>6
<1> QED
  BY <1>4, <1>9, <1>10, <1>11 DEF Sequence, S

LEMMA InOrderLike ==
  ASSUME NEW S, NEW s \in Seq(S), NEW u \in Seq(S), Like(s, u), NEW type, NEW lo, NEW hi,
         InOrder(u, type, lo, hi)
  PROVE  InOrder(s, type, lo, hi)
<1> DEFINE its == {i \in DOMAIN s : s[i].type = type}
           old == {i \in DOMAIN u : u[i].type = type}
<1>1. DOMAIN s = 1..Len(s) /\ DOMAIN u = 1..Len(s)
  BY DEF Like
<1>2. its = old /\ \A i \in its : s[i].n = u[i].n
  BY <1>1 DEF Like
<1>3. /\ lo <= hi
      /\ \A i \in old : u[i].n \in (lo + 1)..hi
      /\ \A n \in (lo + 1)..hi : \E i \in old : u[i].n = n
      /\ \A i, j \in old : i < j => u[i].n < u[j].n
  BY Zenon DEF InOrder
<1> HIDE DEF its, old
<1>4. /\ lo <= hi
      /\ \A i \in its : s[i].n \in (lo + 1)..hi
      /\ \A n \in (lo + 1)..hi : \E i \in its : s[i].n = n
      /\ \A i, j \in its : i < j => s[i].n < s[j].n
  BY <1>2, <1>3
<1> QED
  BY <1>4, Zenon DEF InOrder, its

\* Between its KEXINIT and its NEWKEYS an end sends none of the higher layer's packets,
\* however the exchange began (pq_out_higher in ssh2_transport_process_queue).
THEOREM AlwaysQuiet == Spec => []QuietDuringExchange
<1>1. IInv => QuietDuringExchange
  <2> SUFFICES ASSUME IInv, NEW e \in Ends, NEW j \in DOMAIN Stream(e), Stream(e)[j].type = "HIGHER"
               PROVE  /\ \A i \in 1..(j - 1) : Stream(e)[i].type = "KEXINIT" =>
                           \E k \in (i + 1)..(j - 1) : Stream(e)[k].type = "NEWKEYS"
                      /\ MidExchange(e) => \E k \in 1..(j - 1) : Stream(e)[k].type = "NEWKEYS"
    BY DEF QuietDuringExchange
  <2> DEFINE s == Stream(e)
             u == Sent(e)
             mid == t[Other(e)].pc \in Mid
  <2>1. Quiet(u, mid)
    BY DEF IInv, Silent
  <2>2. s \in Sequence /\ u \in Sequence /\ Like(s, u)
    BY StreamIs
  <2>3. MidExchange(e) <=> mid
    BY DEF MidExchange, Mid
  <2>4. j \in DOMAIN s /\ s[j].type = "HIGHER"
    OBVIOUS
  <2> HIDE DEF s, u, mid
  <2>5. DOMAIN s = 1..Len(u) /\ Len(u) \in Nat
    BY <2>2 DEF Like, Sequence
  <2>6. \A i \in 1..Len(u) : s[i].type = u[i].type
    BY <2>2 DEF Like
  <2>7. \A i \in 1..(j - 1) : i \in 1..Len(u)
    BY <2>4, <2>5
  <2>8. /\ \A i \in 1..(j - 1) : u[i].type = "KEXINIT" =>
             \E k \in (i + 1)..(j - 1) : u[k].type = "NEWKEYS"
        /\ mid => \E k \in 1..(j - 1) : u[k].type = "NEWKEYS"
    BY <2>1, <2>4, <2>5, <2>6 DEF Quiet
  <2>9. ASSUME NEW i \in 1..(j - 1), s[i].type = "KEXINIT"
        PROVE  \E k \in (i + 1)..(j - 1) : s[k].type = "NEWKEYS"
    <3>1. u[i].type = "KEXINIT"
      BY <2>6, <2>7, <2>9
    <3>2. PICK k \in (i + 1)..(j - 1) : u[k].type = "NEWKEYS"
      BY <2>8, <3>1
    <3>3. k \in 1..(j - 1)
      OBVIOUS
    <3> QED
      BY <2>6, <2>7, <3>2, <3>3
  <2>10. mid => \E k \in 1..(j - 1) : s[k].type = "NEWKEYS"
    BY <2>6, <2>7, <2>8
  <2> QED
    BY <2>3, <2>9, <2>10 DEF s
<1> QED
  BY <1>1, Inductive, PTL

\* The higher layer's packets come out at the far end each once and in their order: what
\* has arrived, what is under way and what is held back follow each other without a gap.
THEOREM AlwaysInOrder == Spec => []HigherInOrder
<1>1. IInv => HigherInOrder
  <2> SUFFICES ASSUME IInv, NEW e \in Ends
               PROVE  InOrder(Stream(e) \o t[e].held, "HIGHER", t[Other(e)].got, t[e].sent)
    BY DEF HigherInOrder
  <2> DEFINE s == Stream(e)
             u == Sent(e)
             h == t[e].held
             lo == t[Other(e)].got
             mid == t[e].sent - Len(t[e].held)
             hi == t[e].sent
             S == Packet \cup WirePacket
  <2>1. t[e] \in Transport /\ t[Other(e)] \in Transport /\ HeldInOrder(t[e])
    BY TheEnds, EndIs DEF Good
  <2>2. h \in Seq(Packet) /\ lo \in Int /\ mid \in Int /\ hi \in Int
    BY <2>1, TransportType
  <2>3. InOrder(u, "HIGHER", lo, mid)
    BY DEF IInv, Numbered
  <2>4. InOrder(h, "HIGHER", mid, hi)
    BY <2>1, HeldRun
  <2>5. s \in Seq(S) /\ u \in Seq(S) /\ u \in Seq(Packet) /\ Like(s, u)
    BY StreamIs DEF Sequence
  <2>6. Packet \subseteq S
    OBVIOUS
  <2> HIDE DEF s, u, h, lo, mid, hi, S
  <2>7. InOrder(u \o h, "HIGHER", lo, hi)
    BY <2>2, <2>3, <2>4, <2>5, InOrderConcat
  <2>8. h \in Seq(S) /\ Like(h, h)
    BY <2>2, <2>6, SeqMonotonic DEF Like
  <2>9. Like(s \o h, u \o h) /\ s \o h \in Seq(S) /\ u \o h \in Seq(S)
    BY <2>5, <2>8, LikeConcat
  <2> DEFINE x == s \o h
             y == u \o h
  <2>10. x \in Seq(S) /\ y \in Seq(S) /\ Like(x, y) /\ InOrder(y, "HIGHER", lo, hi)
    BY <2>7, <2>9
  <2> HIDE DEF x, y
  <2>11. InOrder(x, "HIGHER", lo, hi)
    BY <2>10, InOrderLike
  <2> QED
    BY <2>11 DEF x, s, h, lo, hi
<1> QED
  BY <1>1, Inductive, PTL

-----------------------------------------------------------------------------
(* The order of the transport's packets, when no settings change in the      *)
(* first exchange                                                            *)

\* Where a stream of packets stands: in the first exchange at K1, X1, N1 and S, the service
\* packets, and then between two exchanges at K, or in one at X and N.
Stages == {"K1", "X1", "N1", "S", "K", "X", "N"}

Kex(e) == IF e = Client THEN "KEX_INIT" ELSE "KEX_REPLY"
Service(e) == IF e = Client THEN "SERVICE_REQUEST" ELSE "SERVICE_ACCEPT"

\* In the stream of e, a packet of that type takes the stage a to the stage b.
Leads(e, a, type, b) ==
  \/ a = "K1" /\ type = "KEXINIT" /\ b = "X1"
  \/ a = "X1" /\ type = Kex(e) /\ b = "N1"
  \/ a = "N1" /\ type = "NEWKEYS" /\ b = "S"
  \/ a = "S" /\ type = Service(e) /\ b = "K"
  \/ a = "K" /\ type = "HIGHER" /\ b = "K"
  \/ a = "K" /\ type = "KEXINIT" /\ b = "X"
  \/ a = "X" /\ type = Kex(e) /\ b = "N"
  \/ a = "N" /\ type = "NEWKEYS" /\ b = "K"

\* The packets s lead the stream of e from one stage to another.
Legal(e, s, from, to) ==
  \E q \in [0..Len(s) -> Stages] :
    /\ q[0] = from /\ q[Len(s)] = to
    /\ \A i \in 1..Len(s) : Leads(e, q[i - 1], s[i].type, q[i])

\* The stage of what c has taken of the far end's stream, and of what it has sent.
Reads(c) ==
  IF c.pc = "service" THEN "S"
  ELSE IF c.pc = "run" THEN "K"
  ELSE IF c.pc \in {"start", "kexinit"} THEN (IF c.higher_ok THEN "K" ELSE "K1")
  ELSE IF c.pc \in {"askCrypto", "kex"} THEN (IF c.higher_ok THEN "X" ELSE "X1")
  ELSE (IF c.higher_ok THEN "N" ELSE "N1")

Writes(e, c) ==
  IF c.pc = "start" THEN "K1"
  ELSE IF c.pc = "run" THEN "K"
  ELSE IF c.pc = "service" THEN (IF e = Client THEN "K" ELSE "S")
  ELSE IF c.pc = "newkeys" THEN (IF c.higher_ok THEN "K" ELSE "S")
  ELSE IF c.pc \in {"kexinit", "askCrypto"} \/ (c.pc = "kex" /\ e # Client)
    THEN (IF c.higher_ok THEN "X" ELSE "X1")
  ELSE (IF c.higher_ok THEN "N" ELSE "N1")

\* The higher layer runs from the first time the coroutine is in its loop, and only then is
\* there anything to send, to hold back or to put off. Only the client asks its user.
Fit(e, c) ==
  /\ c.pc \in {"start", "service"} => ~c.higher_ok
  /\ c.pc = "run" => c.higher_ok
  /\ c.deferred => c.higher_ok
  /\ ~c.higher_ok => c.held = <<>> /\ c.sent = 0
  /\ e # Client => c.pc \notin {"askCrypto", "askKey"}

Orderly ==
  \A e \in Ends :
    /\ Fit(e, t[e])
    /\ Legal(e, Sent(e), Reads(t[Other(e)]), Writes(e, t[e]))

LEMMA LeadsOneWay ==
  ASSUME NEW e, NEW a, NEW type, NEW b, NEW c, Leads(e, a, type, b), Leads(e, a, type, c)
  PROVE  b = c /\ b \in Stages
<1>1. Kex(e) \in {"KEX_INIT", "KEX_REPLY"} /\ Service(e) \in {"SERVICE_REQUEST", "SERVICE_ACCEPT"}
  BY DEF Kex, Service
<1> QED
  BY <1>1 DEF Leads, Stages

LEMMA LegalNone ==
  ASSUME NEW e, NEW a \in Stages
  PROVE  Legal(e, <<>>, a, a)
<1> DEFINE q == [i \in 0..0 |-> a]
<1>1. Len(<<>>) = 0
  OBVIOUS
<1>2. q \in [0..0 -> Stages] /\ q[0] = a
  OBVIOUS
<1>3. \A i \in 1..0 : Leads(e, q[i - 1], <<>>[i].type, q[i])
  OBVIOUS
<1> HIDE DEF q
<1> QED
  BY <1>1, <1>2, <1>3 DEF Legal

LEMMA LegalOne ==
  ASSUME NEW e, NEW p \in Packet, NEW a \in Stages, NEW b \in Stages, Leads(e, a, p.type, b)
  PROVE  Legal(e, <<p>>, a, b)
<1> DEFINE q == [i \in 0..1 |-> IF i = 0 THEN a ELSE b]
           s == <<p>>
<1>1. Len(s) = 1 /\ s[1] = p
  OBVIOUS
<1>2. q \in [0..1 -> Stages] /\ q[0] = a /\ q[1] = b
  OBVIOUS
<1> HIDE DEF q, s
<1>3. \A i \in 1..1 : i = 1 /\ i - 1 = 0
  OBVIOUS
<1>4. \A i \in 1..Len(s) : Leads(e, q[i - 1], s[i].type, q[i])
  BY <1>1, <1>2, <1>3
<1>5. Legal(e, s, a, b)
  BY <1>1, <1>2, <1>4 DEF Legal
<1> QED
  BY <1>5 DEF s

LEMMA LegalConcat ==
  ASSUME NEW e, NEW s \in Seq(Packet), NEW u \in Seq(Packet), NEW a, NEW b, NEW c,
         Legal(e, s, a, b), Legal(e, u, b, c)
  PROVE  Legal(e, s \o u, a, c)
<1>1. PICK q \in [0..Len(s) -> Stages] :
        /\ q[0] = a /\ q[Len(s)] = b
        /\ \A i \in 1..Len(s) : Leads(e, q[i - 1], s[i].type, q[i])
  BY DEF Legal
<1>2. PICK r \in [0..Len(u) -> Stages] :
        /\ r[0] = b /\ r[Len(u)] = c
        /\ \A i \in 1..Len(u) : Leads(e, r[i - 1], u[i].type, r[i])
  BY DEF Legal
<1> DEFINE v == s \o u
           w == [i \in 0..Len(v) |-> IF i <= Len(s) THEN q[i] ELSE r[i - Len(s)]]
<1>3. /\ Len(v) = Len(s) + Len(u) /\ Len(s) \in Nat /\ Len(u) \in Nat
      /\ \A i \in 1..Len(s) : v[i] = s[i]
      /\ \A i \in 1..Len(u) : v[Len(s) + i] = u[i]
  BY ConcatAt
<1> HIDE DEF v
<1>4. w \in [0..Len(v) -> Stages]
  <2>1. ASSUME NEW i \in 0..Len(v)
        PROVE  (IF i <= Len(s) THEN q[i] ELSE r[i - Len(s)]) \in Stages
    <3>1. CASE i <= Len(s)
      BY <1>1, <1>3, <3>1
    <3>2. CASE ~(i <= Len(s))
      <4>1. i - Len(s) \in 0..Len(u)
        BY <1>3, <3>2
      <4> QED
        BY <1>2, <3>2, <4>1
    <3> QED
      BY <3>1, <3>2
  <2> QED
    BY <2>1
<1>5. /\ \A i \in 0..Len(s) : w[i] = q[i]
      /\ \A i \in 0..Len(u) : w[Len(s) + i] = r[i]
  <2>1. \A i \in 0..Len(s) : w[i] = q[i]
    BY <1>3
  <2>2. ASSUME NEW i \in 0..Len(u) PROVE w[Len(s) + i] = r[i]
    <3>1. CASE i = 0
      BY <1>1, <1>2, <1>3, <3>1
    <3>2. CASE i # 0
      <4>1. Len(s) + i \in 0..Len(v) /\ ~(Len(s) + i <= Len(s)) /\ (Len(s) + i) - Len(s) = i
        BY <1>3, <3>2
      <4> QED
        BY <4>1
    <3> QED
      BY <3>1, <3>2
  <2> QED
    BY <2>1, <2>2
<1> HIDE DEF w
<1>6. w[0] = a /\ w[Len(v)] = c
  BY <1>1, <1>2, <1>3, <1>5
<1>7. ASSUME NEW i \in 1..Len(v) PROVE Leads(e, w[i - 1], v[i].type, w[i])
  <2>1. CASE i <= Len(s)
    <3>1. i \in 1..Len(s) /\ i \in 0..Len(s) /\ i - 1 \in 0..Len(s)
      BY <1>3, <2>1
    <3>2. w[i] = q[i] /\ w[i - 1] = q[i - 1] /\ v[i] = s[i]
      BY <1>3, <1>5, <3>1
    <3> QED
      BY <1>1, <3>1, <3>2
  <2>2. CASE ~(i <= Len(s))
    <3> DEFINE k == i - Len(s)
    <3>1. /\ k \in 1..Len(u) /\ k \in 0..Len(u) /\ k - 1 \in 0..Len(u)
          /\ i = Len(s) + k /\ i - 1 = Len(s) + (k - 1)
      BY <1>3, <2>2
    <3> HIDE DEF k
    <3>2. w[i] = r[k] /\ w[i - 1] = r[k - 1] /\ v[i] = u[k]
      BY <1>3, <1>5, <3>1
    <3> QED
      BY <1>2, <3>1, <3>2
  <2> QED
    BY <2>1, <2>2
<1>8. Legal(e, v, a, c)
  BY <1>4, <1>6, <1>7 DEF Legal
<1> QED
  BY <1>8 DEF v

LEMMA LegalTail ==
  ASSUME NEW e, NEW s \in Seq(Packet), s # <<>>, NEW a, NEW c, Legal(e, s, a, c)
  PROVE  /\ \E b \in Stages : Leads(e, a, Head(s).type, b)
         /\ \A b : Leads(e, a, Head(s).type, b) => Legal(e, Tail(s), b, c)
<1>1. PICK q \in [0..Len(s) -> Stages] :
        /\ q[0] = a /\ q[Len(s)] = c
        /\ \A i \in 1..Len(s) : Leads(e, q[i - 1], s[i].type, q[i])
  BY DEF Legal
<1> DEFINE u == Tail(s)
           r == [i \in 0..Len(u) |-> q[i + 1]]
<1>2. /\ Len(s) \in Nat /\ Len(s) > 0 /\ Len(u) = Len(s) - 1 /\ Head(s) = s[1]
      /\ \A i \in 1..Len(u) : u[i] = s[i + 1]
  OBVIOUS
<1>3. Leads(e, a, Head(s).type, q[1]) /\ q[1] \in Stages
  <2>1. 1 \in 1..Len(s) /\ 1 \in 0..Len(s) /\ 1 - 1 = 0
    BY <1>2
  <2> QED
    BY <1>1, <1>2, <2>1
<1> HIDE DEF u
<1>4. r \in [0..Len(u) -> Stages] /\ \A i \in 0..Len(u) : r[i] = q[i + 1]
  <2>1. \A i \in 0..Len(u) : i + 1 \in 0..Len(s)
    BY <1>2
  <2> QED
    BY <1>1, <2>1
<1> HIDE DEF r
<1>5. r[0] = q[1] /\ r[Len(u)] = c
  BY <1>1, <1>2, <1>4
<1>6. ASSUME NEW i \in 1..Len(u) PROVE Leads(e, r[i - 1], u[i].type, r[i])
  <2>1. i + 1 \in 1..Len(s) /\ i - 1 \in 0..Len(u) /\ i \in 0..Len(u) /\ (i + 1) - 1 = i /\ (i - 1) + 1 = i
    BY <1>2
  <2>2. Leads(e, q[(i + 1) - 1], s[i + 1].type, q[i + 1])
    BY <1>1, <2>1
  <2>3. r[i - 1] = q[i] /\ r[i] = q[i + 1] /\ u[i] = s[i + 1]
    BY <1>2, <1>4, <2>1
  <2> QED
    BY <2>1, <2>2, <2>3
<1>7. Legal(e, u, q[1], c)
  BY <1>4, <1>5, <1>6 DEF Legal
<1>8. ASSUME NEW b, Leads(e, a, Head(s).type, b) PROVE Legal(e, u, b, c)
  <2>1. b = q[1]
    BY <1>3, <1>8, LeadsOneWay
  <2> QED
    BY <1>7, <2>1
<1> QED
  BY <1>3, <1>8 DEF u

\* d has sent more than c, which leads its stream from one stage to another.
Wrote(e, c, d, from, to) ==
  \E x \in Seq(Packet) : Out(d) = Out(c) \o x /\ Legal(e, x, from, to)

\* d has taken a packet of the far end's stream, or none.
Read(e, c, d) ==
  \/ d.in_pq = c.in_pq /\ Reads(d) = Reads(c)
  \/ c.in_pq # <<>> /\ d.in_pq = Tail(c.in_pq) /\ Leads(Other(e), Reads(c), Head(c.in_pq).type, Reads(d))

Pace(e, c, d) ==
  d \in Transport /\ Fit(e, d) /\ Read(e, c, d) /\ Wrote(e, c, d, Writes(e, c), Writes(e, d))

SameFlags(c, d) == d.higher_ok = c.higher_ok /\ d.deferred = c.deferred /\ d.sent = c.sent

LEMMA StagesOf ==
  ASSUME NEW e, NEW c
  PROVE  Reads(c) \in Stages /\ Writes(e, c) \in Stages
  BY DEF Reads, Writes, Stages

LEMMA WroteNothing ==
  ASSUME NEW e, NEW c \in Transport, NEW d, SameOut(c, d), NEW a \in Stages
  PROVE  Wrote(e, c, d, a, a)
<1>1. Out(d) = Out(c) \o <<>>
  <2>1. Out(d) = Out(c)
    BY DEF SameOut, Out
  <2>2. Out(c) \in Seq(Packet)
    BY OutType
  <2> DEFINE s == Out(c)
  <2>3. s \in Seq(Packet)
    BY <2>2
  <2> HIDE DEF s
  <2>4. s \o <<>> = s
    BY <2>3
  <2> QED
    BY <2>1, <2>4 DEF s
<1>2. <<>> \in Seq(Packet)
  OBVIOUS
<1> QED
  BY <1>1, <1>2, LegalNone DEF Wrote

LEMMA WroteMore ==
  ASSUME NEW e, NEW c \in Transport, NEW d \in Transport, NEW x \in Seq(Packet),
         d.wire = c.wire, d.out_pq = c.out_pq \o x, NEW a, NEW b, Legal(e, x, a, b)
  PROVE  Wrote(e, c, d, a, b)
  BY OutAppended DEF Wrote

LEMMA WroteOne ==
  ASSUME NEW e, NEW c \in Transport, NEW d \in Transport, NEW p \in Packet,
         d.wire = c.wire, d.out_pq = Append(c.out_pq, p),
         NEW a \in Stages, NEW b \in Stages, Leads(e, a, p.type, b)
  PROVE  Wrote(e, c, d, a, b)
<1> DEFINE q == c.out_pq
           x == <<p>>
<1>1. q \in Seq(Packet)
  BY TransportType
<1>2. x \in Seq(Packet) /\ Legal(e, x, a, b)
  BY LegalOne
<1>3. d.out_pq = Append(q, p)
  OBVIOUS
<1> HIDE DEF q
<1>4. Append(q, p) = q \o x
  BY <1>1, AppendIsConcat
<1> HIDE DEF x
<1>5. d.out_pq = c.out_pq \o x
  BY <1>3, <1>4 DEF q
<1> QED
  BY <1>2, <1>5, WroteMore

LEMMA WroteThen ==
  ASSUME NEW e, NEW c \in Transport, NEW b \in Transport, NEW d \in Transport, NEW i, NEW j, NEW k,
         Wrote(e, c, b, i, j), Wrote(e, b, d, j, k)
  PROVE  Wrote(e, c, d, i, k)
<1>1. PICK x \in Seq(Packet) : Out(b) = Out(c) \o x /\ Legal(e, x, i, j)
  BY DEF Wrote
<1>2. PICK y \in Seq(Packet) : Out(d) = Out(b) \o y /\ Legal(e, y, j, k)
  BY DEF Wrote
<1>3. Out(c) \in Seq(Packet)
  BY OutType
<1>4. (Out(c) \o x) \o y = Out(c) \o (x \o y)
  BY <1>3, ConcatAssociative
<1>5. Legal(e, x \o y, i, k) /\ x \o y \in Seq(Packet)
  BY <1>1, <1>2, LegalConcat
<1> QED
  BY <1>1, <1>2, <1>4, <1>5 DEF Wrote

\* The packets of the higher layer.
LEMMA LegalHeld ==
  ASSUME NEW e, NEW s \in Seq(Packet), \A i \in 1..Len(s) : s[i].type = "HIGHER"
  PROVE  Legal(e, s, "K", "K")
<1> DEFINE q == [i \in 0..Len(s) |-> "K"]
<1>1. Len(s) \in Nat
  OBVIOUS
<1>2. q \in [0..Len(s) -> Stages] /\ \A i \in 0..Len(s) : q[i] = "K"
  BY DEF Stages
<1> HIDE DEF q
<1>3. q[0] = "K" /\ q[Len(s)] = "K"
  BY <1>1, <1>2
<1>4. ASSUME NEW i \in 1..Len(s) PROVE Leads(e, q[i - 1], s[i].type, q[i])
  <2>1. i \in 0..Len(s) /\ i - 1 \in 0..Len(s)
    BY <1>1
  <2>2. q[i] = "K" /\ q[i - 1] = "K" /\ s[i].type = "HIGHER"
    BY <1>2, <2>1
  <2> QED
    BY <2>2 DEF Leads
<1> QED
  BY <1>2, <1>3, <1>4 DEF Legal

\* Packets that are all put on the wire are still those that were sent.
LEMMA MarshalledOut ==
  ASSUME NEW c \in Transport, NEW d \in Transport, NEW q \in Seq(Packet), NEW k \in Keys,
         d.wire = c.wire \o Under(c.out_pq \o q, k)
  PROVE  Out(d) = (Out(c) \o q) \o d.out_pq
<1> DEFINE w == Plain(c.wire)
           u == c.out_pq
<1>1. w \in Seq(Packet) /\ u \in Seq(Packet)
  BY TransportType, PlainIs
<1>2. u \o q \in Seq(Packet)
  <2> HIDE DEF u
  <2> QED
    BY <1>1
<1>3. Out(d) = (w \o (u \o q)) \o d.out_pq
  BY <1>2, OutMarshalled
<1>4. Out(c) = w \o u
  BY Zenon DEF Out
<1> HIDE DEF w, u
<1>5. w \o (u \o q) = (w \o u) \o q
  BY <1>1, ConcatAssociative
<1> QED
  BY <1>3, <1>4, <1>5

\* NEWKEYS is sent, and what was held back behind it, if anything.
LEMMA WroteNewKeys ==
  ASSUME NEW e, NEW c \in Transport, NEW d \in Transport, d.out_pq = c.held,
         d.wire = c.wire \o Under(Append(c.out_pq, [type |-> "NEWKEYS", n |-> 0]), c.outkey),
         ~c.higher_ok => c.held = <<>>
  PROVE  Wrote(e, c, d, IF c.higher_ok THEN "N" ELSE "N1", IF c.higher_ok THEN "K" ELSE "S")
<1> DEFINE p == [type |-> "NEWKEYS", n |-> 0]
           x == <<p>>
           q == c.out_pq
           h == c.held
           s == Out(c)
           a == IF c.higher_ok THEN "N" ELSE "N1"
           b == IF c.higher_ok THEN "K" ELSE "S"
<1>1. p \in Packet /\ p.type = "NEWKEYS"
  BY DEF Packet, PacketTypes, TransportTypes
<1>2. /\ q \in Seq(Packet) /\ c.outkey \in Keys /\ s \in Seq(Packet)
      /\ h \in Seq(Packet) /\ \A i \in 1..Len(h) : h[i].type = "HIGHER"
  BY TransportType, OutType
<1>3. Append(q, p) = q \o x
  <2> HIDE DEF q, p
  <2> QED
    BY <1>1, <1>2, AppendIsConcat
<1>4. a \in Stages /\ b \in Stages /\ Leads(e, a, p.type, b)
  BY <1>1 DEF Stages, Leads
<1>5. x \in Seq(Packet) /\ Legal(e, x, a, b)
  <2> HIDE DEF p, a, b
  <2>1. Legal(e, x, a, b)
    BY <1>1, <1>4, LegalOne
  <2> QED
    BY <1>1, <2>1
<1>6. Legal(e, h, b, b)
  <2>1. CASE c.higher_ok
    <3>1. b = "K"
      BY <2>1
    <3> HIDE DEF h, b
    <3>2. Legal(e, h, "K", "K")
      BY <1>2, LegalHeld
    <3> QED
      BY <3>1, <3>2
  <2>2. CASE ~c.higher_ok
    <3>1. h = <<>>
      BY <2>2
    <3> HIDE DEF h, b
    <3> QED
      BY <1>4, <3>1, LegalNone
  <2> QED
    BY <2>1, <2>2
<1>7. Out(d) = (s \o x) \o h
  <2>1. d.wire = c.wire \o Under(c.out_pq \o x, c.outkey)
    BY <1>3
  <2> HIDE DEF x
  <2>2. Out(d) = (Out(c) \o x) \o d.out_pq
    BY <1>2, <1>5, <2>1, MarshalledOut
  <2> QED
    BY <2>2
<1> HIDE DEF x, h, s, a, b
<1>8. (s \o x) \o h = s \o (x \o h) /\ x \o h \in Seq(Packet)
  BY <1>2, <1>5, ConcatAssociative
<1>9. Legal(e, x \o h, a, b)
  BY <1>2, <1>5, <1>6, LegalConcat
<1>10. \E y \in Seq(Packet) : Out(d) = Out(c) \o y /\ Legal(e, y, a, b)
  BY <1>7, <1>8, <1>9 DEF s
<1>11. Wrote(e, c, d, a, b)
  BY <1>10 DEF Wrote
<1> QED
  BY <1>11 DEF a, b

LEMMA PaceAlike ==
  ASSUME NEW e, NEW c \in Transport, NEW b \in Transport, NEW d \in Transport,
         Pace(e, c, b), Alike(b, d), SameFlags(b, d)
  PROVE  Pace(e, c, d)
<1>1. /\ d.pc = b.pc /\ d.in_pq = b.in_pq /\ d.held = b.held /\ d.wire = b.wire /\ d.out_pq = b.out_pq
      /\ d.higher_ok = b.higher_ok /\ d.deferred = b.deferred /\ d.sent = b.sent
  BY DEF Alike, SameIn, SameHeld, SameOut, SameFlags
<1>2. Reads(d) = Reads(b) /\ Writes(e, d) = Writes(e, b) /\ Out(d) = Out(b)
  BY <1>1 DEF Reads, Writes, Out
<1>3. Fit(e, d)
  BY <1>1 DEF Pace, Fit
<1>4. Read(e, c, d)
  BY <1>1, <1>2 DEF Pace, Read
<1>5. Wrote(e, c, d, Writes(e, c), Writes(e, d))
  BY <1>2 DEF Pace, Wrote
<1> QED
  BY <1>3, <1>4, <1>5 DEF Pace

\* A step of one end keeps both streams in order.
LEMMA PaceKeeps ==
  ASSUME IInv, Orderly, NEW e \in Ends, NEW d, Pace(e, t[e], d), t' = [t EXCEPT ![e] = d]
  PROVE  Orderly'
<1> DEFINE o == Other(e)
           c == t[e]
           f == t[o]
<1>1. /\ o \in Ends /\ o # e /\ Other(e) = o /\ Other(o) = e
      /\ \A a \in Ends : a = e \/ a = o
  BY TheEnds
<1>2. t \in [Ends -> Transport]
  BY TypeIs DEF IInv
<1> HIDE DEF o
<1>3. c \in Transport /\ f \in Transport /\ d \in Transport /\ t'[e] = d /\ t'[o] = f
  BY <1>1, <1>2 DEF Pace
<1>4. /\ Fit(o, f)
      /\ Legal(e, f.in_pq \o Out(c), Reads(f), Writes(e, c))
      /\ Legal(o, c.in_pq \o Out(f), Reads(c), Writes(o, f))
  BY <1>1 DEF Orderly, Sent
<1> HIDE DEF c, f
<1>5. f.in_pq \in Seq(Packet) /\ c.in_pq \in Seq(Packet) /\ Out(c) \in Seq(Packet) /\ Out(f) \in Seq(Packet)
  BY <1>3, TransportType, OutType
<1>6. Fit(e, d) /\ Read(e, c, d) /\ Wrote(e, c, d, Writes(e, c), Writes(e, d))
  BY DEF Pace, c
<1>7. Legal(e, f.in_pq \o Out(d), Reads(f), Writes(e, d))
  <2>1. PICK x \in Seq(Packet) : Out(d) = Out(c) \o x /\ Legal(e, x, Writes(e, c), Writes(e, d))
    BY <1>6 DEF Wrote
  <2> DEFINE s == f.in_pq
             y == Out(c)
  <2>2. s \in Seq(Packet) /\ y \in Seq(Packet)
    BY <1>5
  <2>3. Legal(e, s \o y, Reads(f), Writes(e, c)) /\ Out(d) = y \o x
    BY <1>4, <2>1
  <2> HIDE DEF s, y
  <2>4. s \o y \in Seq(Packet) /\ (s \o y) \o x = s \o (y \o x)
    BY <2>2, ConcatAssociative
  <2>5. Legal(e, (s \o y) \o x, Reads(f), Writes(e, d))
    BY <2>1, <2>3, <2>4, LegalConcat
  <2> QED
    BY <2>3, <2>4, <2>5 DEF s
<1>8. Legal(o, d.in_pq \o Out(f), Reads(d), Writes(o, f))
  <2>1. CASE d.in_pq = c.in_pq /\ Reads(d) = Reads(c)
    BY <1>4, <2>1
  <2>2. CASE /\ c.in_pq # <<>> /\ d.in_pq = Tail(c.in_pq)
             /\ Leads(o, Reads(c), Head(c.in_pq).type, Reads(d))
    <3> DEFINE s == c.in_pq
               y == Out(f)
               v == s \o y
    <3>1. s \in Seq(Packet) /\ y \in Seq(Packet) /\ s # <<>>
      BY <1>5, <2>2
    <3> HIDE DEF s, y
    <3>2. v \in Seq(Packet) /\ v # <<>> /\ Head(v) = Head(s) /\ Tail(v) = Tail(s) \o y
      BY <3>1
    <3>3. Legal(o, v, Reads(c), Writes(o, f)) /\ Leads(o, Reads(c), Head(v).type, Reads(d))
      BY <1>4, <2>2, <3>2 DEF s, y
    <3> HIDE DEF v
    <3>4. Legal(o, Tail(v), Reads(d), Writes(o, f))
      BY <3>2, <3>3, LegalTail
    <3> QED
      BY <2>2, <3>2, <3>4 DEF s, y
  <2> QED
    BY <1>1, <1>6, <2>1, <2>2 DEF Read
<1>9. /\ Fit(e, t'[e]) /\ Legal(e, t'[o].in_pq \o Out(t'[e]), Reads(t'[o]), Writes(e, t'[e]))
      /\ Fit(o, t'[o]) /\ Legal(o, t'[e].in_pq \o Out(t'[o]), Reads(t'[e]), Writes(o, t'[o]))
  BY <1>3, <1>4, <1>6, <1>7, <1>8
<1>10. \A a \in Ends : /\ Fit(a, t'[a])
                      /\ Legal(a, t'[Other(a)].in_pq \o Out(t'[a]), Reads(t'[Other(a)]), Writes(a, t'[a]))
  BY <1>1, <1>9
<1> QED
  BY <1>10 DEF Orderly, Sent

LEMMA HeadLeads ==
  ASSUME IInv, Orderly, NEW e \in Ends, t[e].in_pq # <<>>
  PROVE  \E b \in Stages : Leads(Other(e), Reads(t[e]), Head(t[e].in_pq).type, b)
<1> DEFINE o == Other(e)
           s == t[e].in_pq
           y == Out(t[o])
           v == s \o y
<1>1. o \in Ends /\ Other(o) = e
  BY TheEnds
<1>2. t[e] \in Transport /\ t[o] \in Transport
  BY <1>1, EndIs
<1>3. s \in Seq(Packet) /\ y \in Seq(Packet) /\ s # <<>>
  BY <1>2, TransportType, OutType
<1>4. Legal(o, v, Reads(t[e]), Writes(o, t[o]))
  BY <1>1 DEF Orderly, Sent
<1> HIDE DEF o, s, y
<1>5. v \in Seq(Packet) /\ v # <<>> /\ Head(v) = Head(s)
  BY <1>3
<1> HIDE DEF v
<1>6. \E b \in Stages : Leads(o, Reads(t[e]), Head(v).type, b)
  BY <1>4, <1>5, LegalTail
<1> QED
  BY <1>5, <1>6 DEF o, s

LEMMA RunsPace ==
  ASSUME IInv, Orderly, NEW e \in Ends, NEW c, Pace(e, t[e], c), Runs(e, c)
  PROVE  Orderly'
<1>1. PICK call \in t[e].calls :
        Become(e, [c EXCEPT !.calls = (t[e].calls \ {call})
                     \cup (IF c.in_pq = <<>> \/ c.pc \in {"askCrypto", "askKey", "run"} THEN {} ELSE {"in"})])
  BY DEF Runs
<1> DEFINE z == (t[e].calls \ {call})
                  \cup (IF c.in_pq = <<>> \/ c.pc \in {"askCrypto", "askKey", "run"} THEN {} ELSE {"in"})
           d == [c EXCEPT !.calls = z]
<1>2. t[e] \in Transport /\ c \in Transport
  BY EndIs DEF Pace
<1>3. z \in SUBSET {"in", "out"}
  BY <1>2 DEF Transport
<1>4. t' = [t EXCEPT ![e] = d]
  BY <1>1 DEF Become
<1> HIDE DEF z
<1>5. d \in Transport /\ Alike(c, d)
  BY <1>2, <1>3 DEF Transport, Alike, SameKeys, SameKexinits, SameHeld, SameIn, SameOut
<1>6. SameFlags(c, d)
  BY <1>2, <1>3 DEF Transport, SameFlags
<1> HIDE DEF d
<1>7. Pace(e, t[e], d)
  BY <1>2, <1>5, <1>6, PaceAlike
<1> QED
  BY <1>4, <1>7, PaceKeeps

\* A step that takes nothing and sends nothing, and leaves the coroutine at the same stage.
LEMMA PaceStill ==
  ASSUME NEW e, NEW c \in Transport, NEW d \in Transport, Fit(e, d),
         SameIn(c, d), SameOut(c, d), Reads(d) = Reads(c), Writes(e, d) = Writes(e, c)
  PROVE  Pace(e, c, d)
<1>1. Wrote(e, c, d, Writes(e, c), Writes(e, d))
  BY StagesOf, WroteNothing
<1> QED
  BY <1>1 DEF Pace, Read, SameIn

LEMMA PaceSame ==
  ASSUME NEW e, NEW c \in Transport, NEW d \in Transport, Fit(e, c),
         d.pc = c.pc, SameFlags(c, d), SameIn(c, d), SameOut(c, d), d.held = c.held
  PROVE  Pace(e, c, d)
<1>1. Reads(d) = Reads(c) /\ Writes(e, d) = Writes(e, c)
  BY DEF Reads, Writes, SameFlags
<1>2. Fit(e, d)
  BY DEF Fit, SameFlags
<1> QED
  BY <1>1, <1>2, PaceStill

LEMMA PushFlags ==
  ASSUME NEW c \in Transport, NEW type, NEW n
  PROVE  SameFlags(c, Push(c, type, n))
  BY DEF Push, Transport, SameFlags

LEMMA BegunFlags ==
  ASSUME NEW c \in Transport
  PROVE  SameFlags(c, Begun(c))
<1> DEFINE b == [c EXCEPT !.pc = "kexinit", !.kex_in_progress = TRUE, !.kexno = @ + 1, !.used = c.conf]
           d == Push(b, "KEXINIT", c.kexno + 1)
<1>1. Begun(c) = d
  BY Zenon DEF Begun
<1>2. b \in Transport
  <2>1. c.kexno \in Nat /\ c.conf \in Nat /\ "kexinit" \in Places
    BY DEF Transport, Places
  <2>2. c.kexno + 1 \in Nat
    BY <2>1
  <2> QED
    BY <2>1, <2>2 DEF Transport
<1>3. SameFlags(c, b)
  BY DEF Transport, SameFlags
<1> HIDE DEF b
<1>4. SameFlags(b, d)
  BY <1>2, PushFlags
<1> QED
  BY <1>1, <1>3, <1>4 DEF SameFlags

LEMMA MarshalledFlags ==
  ASSUME NEW c \in Transport
  PROVE  SameFlags(c, Marshalled(c))
  BY DEF Marshalled, Transport, SameFlags

LEMMA NewKeysSentFlags ==
  ASSUME NEW c \in Transport, NEW e \in Ends
  PROVE  SameFlags(c, NewKeysSent(e, c))
<1> DEFINE b == Push(c, "NEWKEYS", 0)
           m == Marshalled(b)
<1>1. b \in Transport
  BY PushFields DEF PacketTypes, TransportTypes
<1>2. SameFlags(c, b)
  BY PushFlags
<1> HIDE DEF b
<1>3. m \in Transport
  BY <1>1, MarshalledFields
<1>4. SameFlags(b, m)
  BY <1>1, MarshalledFlags
<1> DEFINE d == [m EXCEPT !.pc = "newkeys", !.outkey = Hash(e, c), !.out_pq = c.held, !.held = <<>>]
<1>5. NewKeysSent(e, c) = d
  BY DEF NewKeysSent, m, b
<1> HIDE DEF m
<1>6. SameFlags(m, d)
  BY <1>3 DEF Transport, SameFlags
<1> QED
  BY <1>2, <1>4, <1>5, <1>6 DEF SameFlags

\* The coroutine of an end in an exchange sends NEWKEYS.
LEMMA NewKeysPace ==
  ASSUME NEW e \in Ends, NEW c \in Transport, Fit(e, c)
  PROVE  LET d == NewKeysSent(e, c)
         IN /\ d \in Transport /\ d.pc = "newkeys" /\ Fit(e, d) /\ SameIn(c, d) /\ SameFlags(c, d)
            /\ Wrote(e, c, d, IF c.higher_ok THEN "N" ELSE "N1", Writes(e, d))
            /\ Reads(d) = IF c.higher_ok THEN "N" ELSE "N1"
<1> DEFINE d == NewKeysSent(e, c)
<1>1. /\ d \in Transport /\ d.pc = "newkeys" /\ SameIn(c, d) /\ d.held = <<>> /\ d.out_pq = c.held
      /\ d.wire = c.wire \o Under(Append(c.out_pq, [type |-> "NEWKEYS", n |-> 0]), c.outkey)
  BY NewKeysSentFields
<1>2. SameFlags(c, d)
  BY NewKeysSentFlags
<1> HIDE DEF d
<1>3. Writes(e, d) = IF c.higher_ok THEN "K" ELSE "S"
  BY <1>1, <1>2 DEF Writes, SameFlags
<1>4. Reads(d) = IF c.higher_ok THEN "N" ELSE "N1"
  BY <1>1, <1>2 DEF Reads, SameFlags
<1>5. Fit(e, d)
  BY <1>1, <1>2 DEF Fit, SameFlags
<1>6. Wrote(e, c, d, IF c.higher_ok THEN "N" ELSE "N1", IF c.higher_ok THEN "K" ELSE "S")
  BY <1>1, WroteNewKeys DEF Fit
<1> QED
  BY <1>1, <1>2, <1>3, <1>4, <1>5, <1>6 DEF d

\* The comparison of the KEXINITs is over.
LEMMA AgreedPace ==
  ASSUME NEW e \in Ends, NEW c \in Transport, Fit(e, c)
  PROVE  LET d == Agreed(e, c)
         IN /\ d \in Transport /\ d.pc = "kex" /\ Fit(e, d) /\ SameIn(c, d) /\ SameFlags(c, d)
            /\ Wrote(e, c, d, IF c.higher_ok THEN "X" ELSE "X1", Writes(e, d))
            /\ Reads(d) = IF c.higher_ok THEN "X" ELSE "X1"
<1> DEFINE b == [c EXCEPT !.pc = "kex"]
           g == Push(b, "KEX_INIT", 0)
           p == [type |-> "KEX_INIT", n |-> 0]
           x == IF c.higher_ok THEN "X" ELSE "X1"
           n == IF c.higher_ok THEN "N" ELSE "N1"
<1>1. /\ b \in Transport /\ b.pc = "kex" /\ b.held = c.held
      /\ SameIn(c, b) /\ SameOut(c, b) /\ SameFlags(c, b)
  BY DEF Transport, Places, SameIn, SameOut, SameFlags
<1>2. Agreed(e, c) = IF e = Client THEN g ELSE b
  BY DEF Agreed
<1> HIDE DEF b
<1>3. Fit(e, b)
  BY <1>1 DEF Fit, SameFlags
<1>4. Reads(b) = x /\ x \in Stages /\ n \in Stages
  BY <1>1 DEF Reads, SameFlags, Stages
<1>5. e # Client => Writes(e, b) = x
  BY <1>1 DEF Writes, SameFlags
<1>6. p \in Packet /\ "KEX_INIT" \in PacketTypes
  BY DEF Packet, PacketTypes, TransportTypes
<1>7. /\ g \in Transport /\ g.pc = "kex" /\ g.held = c.held /\ SameIn(c, g) /\ SameFlags(c, g)
      /\ g.wire = c.wire /\ g.out_pq = Append(c.out_pq, p)
  <2>1. /\ g \in Transport /\ g.pc = b.pc /\ SameHeld(b, g) /\ SameIn(b, g)
        /\ g.wire = b.wire /\ g.out_pq = Append(b.out_pq, p)
    BY <1>1, <1>6, PushFields
  <2>2. SameFlags(b, g)
    BY <1>1, PushFlags
  <2> HIDE DEF g
  <2> QED
    BY <1>1, <2>1, <2>2 DEF SameHeld, SameIn, SameOut, SameFlags
<1> HIDE DEF g
<1>8. ASSUME e = Client
      PROVE  /\ Fit(e, g) /\ Wrote(e, c, g, x, Writes(e, g)) /\ Reads(g) = x
  <2>1. Fit(e, g)
    BY <1>7 DEF Fit, SameFlags
  <2>2. Reads(g) = x
    BY <1>7 DEF Reads, SameFlags
  <2>3. Writes(e, g) = n
    BY <1>7, <1>8 DEF Writes, SameFlags, Client
  <2>4. Leads(e, x, p.type, n)
    BY <1>8 DEF Leads, Kex
  <2> HIDE DEF x, n, p
  <2>5. Wrote(e, c, g, x, n)
    BY <1>4, <1>6, <1>7, <2>4, WroteOne
  <2> QED
    BY <2>1, <2>2, <2>3, <2>5
<1>9. ASSUME e # Client
      PROVE  Wrote(e, c, b, x, Writes(e, b))
  BY <1>1, <1>4, <1>5, <1>9, WroteNothing
<1> QED
  BY <1>1, <1>2, <1>3, <1>4, <1>7, <1>8, <1>9

LEMMA OrderlyMarshal ==
  ASSUME IInv, Orderly, NEW e \in Ends, Marshal(e)
  PROVE  Orderly'
<1> DEFINE c == t[e]
           d == Marshalled(t[e])
           w == Plain(c.wire)
           q == c.out_pq
<1>1. c \in Transport /\ Fit(e, c)
  BY EndIs DEF Orderly
<1>2. t' = [t EXCEPT ![e] = d]
  BY DEF Marshal, Become
<1>3. /\ d \in Transport /\ d.pc = c.pc /\ SameHeld(c, d) /\ SameIn(c, d)
      /\ d.wire = c.wire \o Under(c.out_pq, c.outkey) /\ d.out_pq = <<>>
  BY <1>1, MarshalledFields
<1>4. SameFlags(c, d)
  BY <1>1, MarshalledFlags
<1>5. Out(d) = Out(c) \o <<>>
  <2>1. w \in Seq(Packet) /\ q \in Seq(Packet) /\ c.outkey \in Keys
    BY <1>1, TransportType, PlainIs
  <2>2. Out(c) = w \o q
    BY Zenon DEF Out
  <2> HIDE DEF c, d
  <2>3. Out(d) = (w \o q) \o d.out_pq
    BY <1>1, <1>3, <2>1, OutMarshalled
  <2> QED
    BY <1>3, <2>2, <2>3
<1> HIDE DEF c, d
<1>6. Reads(d) = Reads(c) /\ Writes(e, d) = Writes(e, c) /\ Fit(e, d)
  BY <1>1, <1>3, <1>4 DEF Reads, Writes, Fit, SameFlags, SameHeld
<1>7. Legal(e, <<>>, Writes(e, c), Writes(e, d)) /\ <<>> \in Seq(Packet)
  BY <1>6, StagesOf, LegalNone
<1>8. Pace(e, c, d)
  BY <1>3, <1>5, <1>6, <1>7 DEF Pace, Read, Wrote, SameIn
<1> QED
  BY <1>2, <1>8, PaceKeeps DEF c

LEMMA OrderlyPassUp ==
  ASSUME IInv, Orderly, NEW e \in Ends, PassUp(e)
  PROVE  Orderly'
<1> DEFINE c == t[e]
           n == Head(c.in_pq).n
           d == [c EXCEPT !.in_pq = Tail(@), !.got = n]
<1>1. c \in Transport /\ Fit(e, c)
  BY EndIs DEF Orderly
<1>2. t' = [t EXCEPT ![e] = d] /\ c.in_pq # <<>> /\ Head(c.in_pq).type = "HIGHER"
  BY DEF PassUp, Become
<1>3. n \in Nat
  BY <1>1, <1>2, HeadType
<1>4. Tail(c.in_pq) \in Seq(Packet)
  BY <1>1, <1>2, PoppedFields, TransportType
<1>5. \E b \in Stages : Leads(Other(e), Reads(c), "HIGHER", b)
  BY <1>2, HeadLeads
<1> HIDE DEF c, n
<1>6. /\ d \in Transport /\ d.pc = c.pc /\ d.held = c.held /\ SameOut(c, d) /\ SameFlags(c, d)
      /\ d.in_pq = Tail(c.in_pq)
  BY <1>1, <1>3, <1>4 DEF Transport, SameOut, SameFlags
<1> HIDE DEF d
<1>7. Reads(d) = Reads(c) /\ Writes(e, d) = Writes(e, c) /\ Fit(e, d)
  BY <1>1, <1>6 DEF Reads, Writes, Fit, SameFlags
<1>8. Leads(Other(e), Reads(c), Head(c.in_pq).type, Reads(d))
  <2>1. PICK b \in Stages : Leads(Other(e), Reads(c), "HIGHER", b)
    BY <1>5
  <2>2. Kex(Other(e)) # "HIGHER" /\ Service(Other(e)) # "HIGHER"
    BY DEF Kex, Service
  <2>3. Reads(c) = "K"
    BY <2>1, <2>2 DEF Leads
  <2>4. Leads(Other(e), "K", "HIGHER", "K")
    BY DEF Leads
  <2> QED
    BY <1>2, <1>7, <2>3, <2>4
<1>9. Wrote(e, c, d, Writes(e, c), Writes(e, d))
  BY <1>1, <1>6, <1>7, StagesOf, WroteNothing
<1>10. Pace(e, c, d)
  BY <1>2, <1>6, <1>7, <1>8, <1>9 DEF Pace, Read
<1> QED
  BY <1>2, <1>10, PaceKeeps DEF c

\* begin_key_exchange, for an end that is not in an exchange.
LEMMA BegunPace ==
  ASSUME NEW e \in Ends, NEW c \in Transport, ~c.higher_ok => c.held = <<>> /\ c.sent = 0,
         c.deferred => c.higher_ok
  PROVE  LET d == Begun(c)
         IN /\ d \in Transport /\ d.pc = "kexinit" /\ Fit(e, d) /\ SameIn(c, d) /\ SameFlags(c, d)
            /\ Wrote(e, c, d, IF c.higher_ok THEN "K" ELSE "K1", Writes(e, d))
            /\ Reads(d) = IF c.higher_ok THEN "K" ELSE "K1"
<1> DEFINE d == Begun(c)
           n == c.kexno + 1
           p == [type |-> "KEXINIT", n |-> n]
           a == IF c.higher_ok THEN "K" ELSE "K1"
           b == IF c.higher_ok THEN "X" ELSE "X1"
<1>1. /\ d \in Transport /\ d.pc = "kexinit" /\ SameHeld(c, d) /\ SameIn(c, d)
      /\ d.wire = c.wire /\ d.out_pq = Append(c.out_pq, p)
  BY BegunFields
<1>2. SameFlags(c, d)
  BY BegunFlags
<1>3. p \in Packet /\ p.type = "KEXINIT"
  <2>1. n \in Nat
    BY TransportType
  <2> HIDE DEF n
  <2> QED
    BY <2>1 DEF Packet, PacketTypes, TransportTypes
<1> HIDE DEF d, p
<1>4. Reads(d) = a /\ Writes(e, d) = b /\ a \in Stages /\ b \in Stages
  BY <1>1, <1>2 DEF Reads, Writes, SameFlags, Stages
<1>5. Fit(e, d)
  BY <1>1, <1>2 DEF Fit, SameFlags, SameHeld
<1>6. Leads(e, a, p.type, b)
  BY <1>3 DEF Leads
<1> HIDE DEF a, b
<1>7. Wrote(e, c, d, a, b)
  BY <1>1, <1>3, <1>4, <1>6, WroteOne
<1> QED
  BY <1>1, <1>2, <1>4, <1>5, <1>7 DEF d, a

LEMMA OrderlyEnter ==
  ASSUME IInv, Orderly, NEW e \in Ends, Enter(e)
  PROVE  Orderly'
<1> DEFINE c == t[e]
           d == Begun(c)
<1>1. c \in Transport /\ Fit(e, c) /\ c.pc = "start" /\ Runs(e, d)
  BY EndIs DEF Orderly, Enter
<1> HIDE DEF c
<1>2. ~c.higher_ok
  BY <1>1 DEF Fit
<1>3. /\ d \in Transport /\ Fit(e, d) /\ SameIn(c, d) /\ Wrote(e, c, d, "K1", Writes(e, d)) /\ Reads(d) = "K1"
  <2>1. (IF c.higher_ok THEN "K" ELSE "K1") = "K1"
    BY <1>2
  <2> HIDE DEF d
  <2> QED
    BY <1>1, <2>1, BegunPace DEF Fit, d
<1>4. Reads(c) = "K1" /\ Writes(e, c) = "K1"
  BY <1>1, <1>2 DEF Reads, Writes
<1> HIDE DEF d
<1>5. Pace(e, c, d)
  BY <1>3, <1>4 DEF Pace, Read, SameIn
<1> QED
  BY <1>1, <1>5, RunsPace DEF c

LEMMA OrderlyDoze ==
  ASSUME IInv, Orderly, NEW e \in Ends, Doze(e)
  PROVE  Orderly'
<1> DEFINE c == t[e]
<1>1. c \in Transport /\ Fit(e, c) /\ Runs(e, c)
  BY EndIs DEF Orderly, Doze
<1>2. Pace(e, c, c)
  <2> HIDE DEF c
  <2> QED
    BY <1>1, PaceSame DEF SameFlags, SameIn, SameOut
<1> QED
  BY <1>1, <1>2, RunsPace

LEMMA OrderlyLoop ==
  ASSUME IInv, Orderly, NEW e \in Ends, Loop(e)
  PROVE  Orderly'
<1> DEFINE c == t[e]
           b == [c EXCEPT !.out_pq = @ \o c.held, !.held = <<>>,
                          !.rekey_class = IF @ = "POST_USERAUTH" THEN "NONE" ELSE @]
           d == Begun(b)
<1>1. c \in Transport /\ Fit(e, c) /\ c.pc = "run"
  BY EndIs DEF Orderly, Loop
<1>2. Runs(e, b) \/ Runs(e, d)
  <2>1. Runs(e, IF b.in_pq # <<>> \/ b.rekey_class = "NORMAL" THEN d ELSE b)
    BY DEF Loop
  <2> HIDE DEF b, d
  <2> QED
    BY <2>1
<1>3. /\ c.out_pq \o c.held \in Seq(Packet) /\ <<>> \in Seq(HeldPacket)
      /\ c.held \in Seq(Packet) /\ Legal(e, c.held, "K", "K")
  <2> DEFINE q == c.out_pq
             h == c.held
  <2>1. q \in Seq(Packet) /\ h \in Seq(Packet) /\ \A i \in 1..Len(h) : h[i].type = "HIGHER"
    BY <1>1, TransportType
  <2> HIDE DEF q, h
  <2>2. q \o h \in Seq(Packet)
    BY <2>1
  <2>3. Legal(e, h, "K", "K")
    BY <2>1, LegalHeld
  <2> QED
    BY <2>1, <2>2, <2>3 DEF q, h
<1> HIDE DEF c
<1>4. /\ b \in Transport /\ b.pc = "run" /\ SameIn(c, b) /\ SameFlags(c, b)
      /\ b.held = <<>> /\ b.wire = c.wire /\ b.out_pq = c.out_pq \o c.held
  BY <1>1, <1>3 DEF Transport, SameIn, SameFlags
<1> HIDE DEF b
<1>5. Wrote(e, c, b, "K", "K")
  BY <1>1, <1>3, <1>4, WroteMore
<1>6. /\ Reads(c) = "K" /\ Writes(e, c) = "K" /\ Reads(b) = "K" /\ Writes(e, b) = "K"
      /\ Fit(e, b) /\ b.higher_ok
  BY <1>1, <1>4 DEF Reads, Writes, Fit, SameFlags
<1>7. Pace(e, c, b)
  BY <1>4, <1>5, <1>6 DEF Pace, Read, SameIn
<1>8. Pace(e, c, d)
  <2>1. (IF b.higher_ok THEN "K" ELSE "K1") = "K"
    BY <1>6
  <2>2. /\ d \in Transport /\ Fit(e, d) /\ SameIn(b, d) /\ Wrote(e, b, d, "K", Writes(e, d)) /\ Reads(d) = "K"
    <3> HIDE DEF d
    <3> QED
      BY <1>4, <1>6, <2>1, BegunPace DEF Fit, d
  <2> HIDE DEF d
  <2>3. Wrote(e, c, d, "K", Writes(e, d))
    BY <1>1, <1>4, <1>5, <2>2, WroteThen
  <2> QED
    BY <1>4, <1>6, <2>2, <2>3 DEF Pace, Read, SameIn
<1> QED
  BY <1>2, <1>7, <1>8, RunsPace DEF c

LEMMA OrderlyAnswer ==
  ASSUME IInv, Orderly, NEW e \in Ends, Answer(e)
  PROVE  Orderly'
<1> DEFINE c == t[e]
           z == c.calls \cup (IF c.in_pq = <<>> THEN {} ELSE {"in"})
           b == [c EXCEPT !.calls = z]
<1>1. c \in Transport /\ Fit(e, c) /\ c.pc \in {"askCrypto", "askKey"}
  BY EndIs DEF Answer, Orderly
<1>2. t' = [t EXCEPT ![e] = IF b.pc = "askCrypto" THEN Agreed(e, b) ELSE NewKeysSent(e, b)]
  BY DEF Answer, Become
<1>3. z \in SUBSET {"in", "out"}
  BY <1>1 DEF Transport
<1> HIDE DEF c, z
<1>4. /\ b \in Transport /\ b.pc = c.pc /\ b.held = c.held
      /\ SameIn(c, b) /\ SameOut(c, b) /\ SameFlags(c, b)
  BY <1>1, <1>3 DEF Transport, SameIn, SameOut, SameFlags
<1> HIDE DEF b
<1>5. Reads(b) = Reads(c) /\ Writes(e, b) = Writes(e, c) /\ Fit(e, b)
  BY <1>1, <1>4 DEF Reads, Writes, Fit, SameFlags
<1>6. Wrote(e, c, b, Writes(e, c), Writes(e, c))
  BY <1>1, <1>4, StagesOf, WroteNothing
<1>7. CASE c.pc = "askCrypto"
  <2> DEFINE d == Agreed(e, b)
             x == IF b.higher_ok THEN "X" ELSE "X1"
  <2>1. Reads(c) = x /\ Writes(e, c) = x
    BY <1>4, <1>7 DEF Reads, Writes, SameFlags
  <2>2. /\ d \in Transport /\ Fit(e, d) /\ SameIn(b, d) /\ Wrote(e, b, d, x, Writes(e, d)) /\ Reads(d) = x
    BY <1>4, <1>5, AgreedPace
  <2>3. t' = [t EXCEPT ![e] = d]
    BY <1>2, <1>4, <1>7
  <2> HIDE DEF d, x
  <2>4. Wrote(e, c, d, x, Writes(e, d))
    BY <1>1, <1>4, <1>6, <2>1, <2>2, WroteThen
  <2>5. Pace(e, c, d)
    BY <1>4, <2>1, <2>2, <2>4 DEF Pace, Read, SameIn
  <2> QED
    BY <2>3, <2>5, PaceKeeps DEF c
<1>8. CASE c.pc = "askKey"
  <2> DEFINE d == NewKeysSent(e, b)
             x == IF b.higher_ok THEN "N" ELSE "N1"
  <2>1. Reads(c) = x /\ Writes(e, c) = x
    BY <1>4, <1>8 DEF Reads, Writes, SameFlags
  <2>2. /\ d \in Transport /\ Fit(e, d) /\ SameIn(b, d) /\ Wrote(e, b, d, x, Writes(e, d)) /\ Reads(d) = x
    BY <1>4, <1>5, NewKeysPace
  <2>3. t' = [t EXCEPT ![e] = d]
    BY <1>2, <1>4, <1>8
  <2> HIDE DEF d, x
  <2>4. Wrote(e, c, d, x, Writes(e, d))
    BY <1>1, <1>4, <1>6, <2>1, <2>2, WroteThen
  <2>5. Pace(e, c, d)
    BY <1>4, <2>1, <2>2, <2>4 DEF Pace, Read, SameIn
  <2> QED
    BY <2>3, <2>5, PaceKeeps DEF c
<1> QED
  BY <1>1, <1>7, <1>8

LEMMA OrderlyHigherSend ==
  ASSUME IInv, Orderly, NEW e \in Ends, HigherSend(e)
  PROVE  Orderly'
<1> DEFINE c == t[e]
           p == [type |-> "HIGHER", n |-> c.sent + 1]
           d == [c EXCEPT !.held = Append(@, p), !.sent = @ + 1, !.calls = @ \cup {"out"}]
<1>1. c \in Transport /\ Fit(e, c) /\ c.higher_ok
  BY EndIs DEF Orderly, HigherSend
<1>2. t' = [t EXCEPT ![e] = d]
  BY DEF HigherSend, Become
<1>3. c.sent + 1 \in Nat /\ c.held \in Seq(HeldPacket) /\ c.calls \cup {"out"} \in SUBSET {"in", "out"}
  <2> HIDE DEF c
  <2>1. c.sent \in Nat /\ c.held \in Seq(HeldPacket) /\ c.calls \in SUBSET {"in", "out"}
    BY <1>1 DEF Transport
  <2> QED
    BY <2>1
<1>4. p \in HeldPacket
  BY <1>3 DEF HeldPacket
<1> HIDE DEF c, p
<1>5. Append(c.held, p) \in Seq(HeldPacket)
  BY <1>3, <1>4
<1>6. /\ d \in Transport /\ d.pc = c.pc /\ SameIn(c, d) /\ SameOut(c, d)
      /\ d.higher_ok = c.higher_ok /\ d.deferred = c.deferred
  BY <1>1, <1>3, <1>5 DEF Transport, SameIn, SameOut
<1> HIDE DEF d
<1>7. Reads(d) = Reads(c) /\ Writes(e, d) = Writes(e, c) /\ Fit(e, d)
  BY <1>1, <1>6 DEF Reads, Writes, Fit
<1>8. Pace(e, c, d)
  BY <1>1, <1>6, <1>7, PaceStill
<1> QED
  BY <1>2, <1>8, PaceKeeps DEF c

LEMMA OrderlyRequest ==
  ASSUME IInv, Orderly, NEW e \in Ends, Request(e)
  PROVE  Orderly'
<1> DEFINE c == t[e]
           d == Wanted(c)
<1>1. c \in Transport /\ Fit(e, c)
  BY EndIs DEF Orderly
<1>2. t' = [t EXCEPT ![e] = d]
  BY DEF Request, Become
<1> HIDE DEF c
<1>3. d \in Transport /\ Alike(c, d)
  BY <1>1, WantedFields
<1>4. SameFlags(c, d)
  BY <1>1 DEF Wanted, Transport, SameFlags
<1> HIDE DEF d
<1>5. Pace(e, c, d)
  BY <1>1, <1>3, <1>4, PaceSame DEF Alike, SameHeld
<1> QED
  BY <1>2, <1>5, PaceKeeps DEF c

LEMMA OrderlyAuthDone ==
  ASSUME IInv, Orderly, AuthDone
  PROVE  Orderly'
<1> DEFINE c == t[Client]
           d == [c EXCEPT !.rekey_class = "POST_USERAUTH", !.calls = @ \cup {"in"}]
<1>1. Client \in Ends /\ c \in Transport /\ Fit(Client, c)
  BY EndIs DEF Ends, Orderly
<1>2. t' = [t EXCEPT ![Client] = d]
  BY DEF AuthDone, Become
<1> HIDE DEF c
<1>3. c.calls \cup {"in"} \in SUBSET {"in", "out"}
  BY <1>1 DEF Transport
<1>4. d \in Transport /\ Alike(c, d) /\ SameFlags(c, d)
  BY <1>1, <1>3 DEF Transport, Alike, SameKeys, SameKexinits, SameHeld, SameIn, SameOut, SameFlags
<1> HIDE DEF d
<1>5. Pace(Client, c, d)
  BY <1>1, <1>4, PaceSame DEF Alike, SameHeld
<1> QED
  BY <1>1, <1>2, <1>5, PaceKeeps DEF c

LEMMA OrderlyReconfigure ==
  ASSUME IInv, Orderly, Reconfigure, "first" \notin stages'
  PROVE  Orderly'
<1> DEFINE c == t[Client]
           k == [c EXCEPT !.deferred = TRUE]
           w == Wanted(c)
<1>1. Client \in Ends /\ c \in Transport /\ Fit(Client, c)
  BY EndIs DEF Ends, Orderly
<1>2. PICK inadvisable \in Inadvisable :
        /\ t' = [t EXCEPT ![Client] = [IF c.kex_in_progress \/ inadvisable THEN k ELSE w
                                         EXCEPT !.conf = changes']]
        /\ changes' = changes + 1 /\ stages' = stages \cup {Stage(c)}
  BY ReconfigureIs
<1>3. changes' \in Nat
  BY <1>2, RestKept DEF Rest
<1>4. (c.kex_in_progress \/ inadvisable) => c.higher_ok
  <2>1. CASE c.kex_in_progress
    BY <1>2, <2>1 DEF Stage
  <2>2. CASE inadvisable
    <3>1. c.sent > 0
      BY <2>2, Zenon DEF Inadvisable
    <3>2. c.sent # 0
      BY <1>1, <3>1, TransportType
    <3> QED
      BY <1>1, <3>2 DEF Fit
  <2> QED
    BY <2>1, <2>2
<1> HIDE DEF c
<1> DEFINE dk == [k EXCEPT !.conf = changes']
           dw == [w EXCEPT !.conf = changes']
<1>5. CASE c.higher_ok /\ t' = [t EXCEPT ![Client] = dk]
  <2>1. dk \in Transport /\ Alike(c, dk) /\ dk.higher_ok = c.higher_ok /\ dk.sent = c.sent
    BY <1>1, <1>3 DEF Transport, Alike, SameKeys, SameKexinits, SameHeld, SameIn, SameOut
  <2> HIDE DEF dk
  <2>2. Reads(dk) = Reads(c) /\ Writes(Client, dk) = Writes(Client, c)
    BY <2>1 DEF Reads, Writes, Alike
  <2>3. Fit(Client, dk)
    BY <1>1, <1>5, <2>1 DEF Fit, Alike
  <2>4. Pace(Client, c, dk)
    BY <1>1, <2>1, <2>2, <2>3, PaceStill DEF Alike
  <2> QED
    BY <1>1, <1>5, <2>4, PaceKeeps DEF c
<1>6. CASE t' = [t EXCEPT ![Client] = dw]
  <2>1. w \in Transport /\ Alike(c, w)
    BY <1>1, WantedFields
  <2>2. SameFlags(c, w)
    BY <1>1 DEF Wanted, Transport, SameFlags
  <2> HIDE DEF w
  <2>3. dw \in Transport /\ Alike(c, dw) /\ SameFlags(c, dw)
    BY <1>3, <2>1, <2>2
       DEF Transport, Alike, SameKeys, SameKexinits, SameHeld, SameIn, SameOut, SameFlags
  <2> HIDE DEF dw
  <2>4. Pace(Client, c, dw)
    BY <1>1, <2>3, PaceSame DEF Alike, SameHeld
  <2> QED
    BY <1>1, <1>6, <2>4, PaceKeeps DEF c
<1>7. t' = [t EXCEPT ![Client] = IF c.kex_in_progress \/ inadvisable THEN dk ELSE dw]
  BY <1>2
<1> HIDE DEF dk, dw
<1> QED
  BY <1>4, <1>5, <1>6, <1>7

\* A packet goes from the far end's wire to our queue: nothing else changes that matters.
LEMMA OrderlyDecrypt ==
  ASSUME IInv, Orderly, NEW e \in Ends, Decrypt(e)
  PROVE  Orderly'
<1> DEFINE o == Other(e)
           c == t[o]
           f == t[e]
           p == Head(c.wire)
           r == [type |-> p.type, n |-> p.n]
           b == [c EXCEPT !.wire = Tail(@)]
           g == [f EXCEPT !.in_pq = Append(@, r), !.pending_newkeys = p.type = "NEWKEYS",
                          !.calls = @ \cup {"in"}]
<1>1. /\ o \in Ends /\ o # e /\ Other(e) = o /\ Other(o) = e
      /\ \A a \in Ends : a = e \/ a = o
  BY TheEnds
<1>2. t \in [Ends -> Transport] /\ c \in Transport /\ f \in Transport /\ Chain(c)
  BY <1>1, EndIs, TypeIs DEF IInv, Good
<1>3. /\ c.wire # <<>>
      /\ t' = [t EXCEPT ![o].wire = Tail(@),
                        ![e].in_pq = Append(@, r),
                        ![e].pending_newkeys = p.type = "NEWKEYS",
                        ![e].calls = @ \cup {"in"}]
  BY DEF Decrypt
<1> HIDE DEF o
<1>4. t'[o] = b /\ t'[e] = g
  <2> HIDE DEF r, p
  <2> QED
    BY <1>1, <1>2, <1>3 DEF Transport
<1>5. c.wire \in Seq(WirePacket) /\ f.in_pq \in Seq(Packet)
  BY <1>2, TransportType
<1> DEFINE z == (p.type = "NEWKEYS")
<1>6. g = [f EXCEPT !.in_pq = Append(@, r), !.pending_newkeys = z, !.calls = @ \cup {"in"}] /\ z \in BOOLEAN
  OBVIOUS
<1>7. Tail(c.wire) \in Seq(WirePacket)
  BY <1>5, <1>3
<1> HIDE DEF c, f, p, r, z
<1>8. /\ b \in Transport /\ b.wire = Tail(c.wire) /\ b.pc = c.pc /\ b.held = c.held
      /\ b.in_pq = c.in_pq /\ b.out_pq = c.out_pq /\ b.outkey = c.outkey /\ SameFlags(c, b)
  BY <1>2, <1>7 DEF Transport, SameFlags
<1> HIDE DEF g
<1>9. /\ g.in_pq = Append(f.in_pq, r) /\ g.pc = f.pc /\ g.held = f.held /\ SameOut(f, g) /\ SameFlags(f, g)
  BY <1>2, <1>6 DEF Transport, SameOut, SameFlags
<1> HIDE DEF b
<1>10. /\ p \in WirePacket /\ r \in Packet /\ Out(c) = <<r>> \o Out(b)
  <2>1. /\ p \in WirePacket /\ [type |-> p.type, n |-> p.n] \in Packet
        /\ Out(c) = <<[type |-> p.type, n |-> p.n]>> \o Out(b)
    BY <1>2, <1>3, <1>8, WireTail DEF p
  <2> QED
    BY <2>1 DEF r
<1>11. g.in_pq \o Out(b) = f.in_pq \o Out(c)
  <2> DEFINE s == f.in_pq
             x == <<r>>
             u == Out(b)
  <2>1. s \in Seq(Packet) /\ x \in Seq(Packet) /\ u \in Seq(Packet)
    BY <1>5, <1>8, <1>10, OutType
  <2>2. g.in_pq = Append(s, r) /\ Out(c) = x \o u
    BY <1>9, <1>10
  <2> HIDE DEF s, u
  <2>3. Append(s, r) = s \o x
    BY <1>10, <2>1, AppendIsConcat
  <2> HIDE DEF x
  <2>4. (s \o x) \o u = s \o (x \o u)
    BY <2>1, ConcatAssociative
  <2> QED
    BY <2>2, <2>3, <2>4 DEF s, u
<1>12. b.in_pq \o Out(g) = c.in_pq \o Out(f)
  BY <1>8, <1>9 DEF Out, SameOut
<1>13. /\ Reads(b) = Reads(c) /\ Writes(o, b) = Writes(o, c) /\ Reads(g) = Reads(f)
       /\ Writes(e, g) = Writes(e, f)
  BY <1>8, <1>9 DEF Reads, Writes, SameFlags
<1>14. /\ Fit(e, f) /\ Legal(e, c.in_pq \o Out(f), Reads(c), Writes(e, f))
       /\ Fit(o, c) /\ Legal(o, f.in_pq \o Out(c), Reads(f), Writes(o, c))
  BY <1>1 DEF Orderly, Sent, c, f
<1>15. Fit(e, g) /\ Fit(o, b)
  BY <1>8, <1>9, <1>14 DEF Fit, SameFlags
<1>16. /\ Fit(e, t'[e]) /\ Legal(e, t'[o].in_pq \o Out(t'[e]), Reads(t'[o]), Writes(e, t'[e]))
       /\ Fit(o, t'[o]) /\ Legal(o, t'[e].in_pq \o Out(t'[o]), Reads(t'[e]), Writes(o, t'[o]))
  BY <1>4, <1>11, <1>12, <1>13, <1>14, <1>15
<1>17. \A a \in Ends : /\ Fit(a, t'[a])
                      /\ Legal(a, t'[Other(a)].in_pq \o Out(t'[a]), Reads(t'[Other(a)]), Writes(a, t'[a]))
  BY <1>1, <1>16
<1> QED
  BY <1>17 DEF Orderly, Sent

\* The coroutine has popped a packet, and goes on.
LEMMA PopPace ==
  ASSUME NEW e \in Ends, NEW c \in Transport, NEW k \in Transport, NEW d \in Transport,
         c.in_pq # <<>>, k.in_pq = Tail(c.in_pq), SameOut(c, k), Fit(e, d), SameIn(k, d),
         Leads(Other(e), Reads(c), Head(c.in_pq).type, Reads(d)),
         Wrote(e, k, d, Writes(e, c), Writes(e, d))
  PROVE  Pace(e, c, d)
<1>1. Wrote(e, c, k, Writes(e, c), Writes(e, c))
  BY StagesOf, WroteNothing
<1>2. Wrote(e, c, d, Writes(e, c), Writes(e, d))
  BY <1>1, WroteThen
<1> QED
  BY <1>2 DEF Pace, Read, SameIn

LEMMA PoppedFlags ==
  ASSUME NEW c \in Transport, c.in_pq # <<>>
  PROVE  LET k == Popped(c)
         IN /\ k \in Transport /\ k.pc = c.pc /\ k.held = c.held /\ k.kexno = c.kexno
            /\ k.in_pq = Tail(c.in_pq) /\ SameOut(c, k) /\ SameFlags(c, k)
  BY PoppedFields DEF Popped, SameHeld, SameKexinits, SameFlags

LEMMA PaceKexinit ==
  ASSUME NEW e \in Ends, NEW c \in Transport, Fit(e, c), c.pc = "kexinit", c.in_pq # <<>>,
         Head(c.in_pq).type = "KEXINIT", NEW d \in Continued(e, Popped(c), Head(c.in_pq))
  PROVE  Pace(e, c, d)
<1> DEFINE p == Head(c.in_pq)
           k == Popped(c)
           m == [k EXCEPT !.theirs = p.n]
           b == [m EXCEPT !.pc = "askCrypto"]
           x == IF c.higher_ok THEN "X" ELSE "X1"
<1>1. /\ k \in Transport /\ k.pc = "kexinit" /\ k.held = c.held
      /\ k.in_pq = Tail(c.in_pq) /\ SameOut(c, k) /\ SameFlags(c, k)
  BY PoppedFlags
<1>2. p.n \in Nat
  BY HeadType
<1>3. d \in {Agreed(e, m)} \cup (IF e = Client THEN {b} ELSE {})
  <2>1. k.pc = "kexinit" /\ d \in Continued(e, k, p)
    BY <1>1
  <2> HIDE DEF k, p
  <2>2. Continued(e, k, p) = {Agreed(e, m)} \cup (IF e = Client THEN {b} ELSE {})
    BY <2>1, Zenon DEF Continued
  <2> QED
    BY <2>1, <2>2
<1>4. d = Agreed(e, m) \/ (e = Client /\ d = b)
  BY <1>3
<1> HIDE DEF k, p
<1>5. /\ m \in Transport /\ m.pc = "kexinit" /\ m.held = c.held
      /\ m.in_pq = Tail(c.in_pq) /\ SameOut(c, m) /\ SameFlags(c, m)
  BY <1>1, <1>2 DEF Transport, SameOut, SameFlags
<1>6. /\ b \in Transport /\ b.pc = "askCrypto" /\ b.held = c.held
      /\ SameIn(m, b) /\ SameOut(m, b) /\ SameFlags(c, b)
  BY <1>5 DEF Transport, Places, SameIn, SameOut, SameFlags
<1> HIDE DEF m, b
<1>7. /\ Writes(e, c) = x /\ x \in Stages
      /\ \A s : s = x => Leads(Other(e), Reads(c), "KEXINIT", s)
  BY DEF Writes, Reads, Leads, Stages
<1>8. Pace(e, c, Agreed(e, m))
  <2> DEFINE a == Agreed(e, m)
  <2>1. Fit(e, m)
    BY <1>5 DEF Fit, SameFlags
  <2>2. (IF m.higher_ok THEN "X" ELSE "X1") = x
    BY <1>5 DEF SameFlags
  <2>3. a \in Transport /\ Fit(e, a) /\ SameIn(m, a) /\ Wrote(e, m, a, x, Writes(e, a)) /\ Reads(a) = x
    <3> HIDE DEF x, a
    <3> QED
      BY <1>5, <2>1, <2>2, AgreedPace DEF a
  <2>4. Leads(Other(e), Reads(c), Head(c.in_pq).type, Reads(a)) /\ Wrote(e, m, a, Writes(e, c), Writes(e, a))
    BY <1>7, <2>3
  <2> HIDE DEF a, x
  <2>5. Pace(e, c, a)
    BY <1>5, <2>3, <2>4, PopPace
  <2> QED
    BY <2>5 DEF a
<1>9. ASSUME e = Client PROVE Pace(e, c, b)
  <2>1. Fit(e, b) /\ Writes(e, b) = x /\ Reads(b) = x
    BY <1>6, <1>9 DEF Fit, Writes, Reads, SameFlags
  <2> HIDE DEF x
  <2>2. Wrote(e, m, b, x, x)
    BY <1>5, <1>6, <1>7, WroteNothing
  <2> QED
    BY <1>5, <1>6, <1>7, <2>1, <2>2, PopPace
<1> QED
  BY <1>4, <1>8, <1>9

LEMMA PaceKex ==
  ASSUME NEW e \in Ends, NEW c \in Transport, Fit(e, c), c.pc = "kex", c.in_pq # <<>>,
         Head(c.in_pq).type = Kex(Other(e)), NEW d \in Continued(e, Popped(c), Head(c.in_pq))
  PROVE  Pace(e, c, d)
<1> DEFINE k == Popped(c)
           b == Push(k, "KEX_REPLY", 0)
           a == [k EXCEPT !.pc = "askKey"]
           x == IF c.higher_ok THEN "X" ELSE "X1"
           n == IF c.higher_ok THEN "N" ELSE "N1"
<1>1. /\ k \in Transport /\ k.pc = "kex" /\ k.held = c.held
      /\ k.in_pq = Tail(c.in_pq) /\ SameOut(c, k) /\ SameFlags(c, k)
  BY PoppedFlags
<1>2. \/ e = Server /\ d = NewKeysSent(e, b)
      \/ e # Server /\ (d = NewKeysSent(e, k) \/ d = a)
  <2>1. d \in IF e = Server THEN {NewKeysSent(e, b)}
              ELSE {NewKeysSent(e, k)} \cup (IF k.kexno = 1 THEN {a} ELSE {})
    <3> DEFINE p == Head(c.in_pq)
    <3>1. k.pc = "kex" /\ d \in Continued(e, k, p)
      BY <1>1
    <3> HIDE DEF k, p
    <3>2. Continued(e, k, p) =
            IF e = Server THEN {NewKeysSent(e, b)}
            ELSE {NewKeysSent(e, k)} \cup (IF k.kexno = 1 THEN {a} ELSE {})
      BY <3>1, Zenon DEF Continued
    <3> QED
      BY <3>1, <3>2
  <2> HIDE DEF a, b, k
  <2> QED
    BY <2>1
<1> HIDE DEF k
<1>3. /\ Writes(e, c) = (IF e = Client THEN n ELSE x) /\ x \in Stages /\ n \in Stages
      /\ \A s : s = n => Leads(Other(e), Reads(c), Head(c.in_pq).type, s)
  BY DEF Writes, Reads, Leads, Stages
<1>4. ASSUME NEW m \in Transport, Fit(e, m), m.in_pq = Tail(c.in_pq), SameFlags(c, m),
             Wrote(e, k, m, Writes(e, c), n)
      PROVE  Pace(e, c, NewKeysSent(e, m))
  <2> DEFINE g == NewKeysSent(e, m)
  <2>1. (IF m.higher_ok THEN "N" ELSE "N1") = n
    BY <1>4 DEF SameFlags
  <2>2. g \in Transport /\ Fit(e, g) /\ SameIn(m, g) /\ Wrote(e, m, g, n, Writes(e, g)) /\ Reads(g) = n
    <3> HIDE DEF n, g
    <3> QED
      BY <1>4, <2>1, NewKeysPace DEF g
  <2> HIDE DEF g, n
  <2>3. Wrote(e, k, g, Writes(e, c), Writes(e, g))
    BY <1>1, <1>4, <2>2, WroteThen
  <2>4. Wrote(e, c, k, Writes(e, c), Writes(e, c))
    BY <1>1, StagesOf, WroteNothing
  <2>5. Wrote(e, c, g, Writes(e, c), Writes(e, g))
    BY <1>1, <2>2, <2>3, <2>4, WroteThen
  <2>6. g.in_pq = Tail(c.in_pq) /\ Leads(Other(e), Reads(c), Head(c.in_pq).type, Reads(g))
    BY <1>3, <1>4, <2>2 DEF SameIn
  <2>7. Read(e, c, g)
    BY <2>6 DEF Read
  <2>8. Pace(e, c, g)
    BY <2>2, <2>5, <2>7 DEF Pace
  <2> QED
    BY <2>8 DEF g
<1>5. Fit(e, k)
  BY <1>1 DEF Fit, SameFlags
<1>6. ASSUME e = Client PROVE Pace(e, c, NewKeysSent(e, k))
  <2>1. Writes(e, c) = n
    BY <1>3, <1>6
  <2> HIDE DEF n
  <2>2. Wrote(e, k, k, n, n)
    BY <1>1, <1>3, WroteNothing DEF SameOut
  <2> QED
    BY <1>1, <1>4, <1>5, <2>1, <2>2
<1>7. ASSUME e # Client PROVE Pace(e, c, NewKeysSent(e, b))
  <2> DEFINE p == [type |-> "KEX_REPLY", n |-> 0]
  <2>1. p \in Packet /\ "KEX_REPLY" \in PacketTypes
    BY DEF Packet, PacketTypes, TransportTypes
  <2>2. /\ b \in Transport /\ b.pc = k.pc /\ SameHeld(k, b) /\ SameIn(k, b)
        /\ b.wire = k.wire /\ b.out_pq = Append(k.out_pq, p)
    BY <1>1, <2>1, PushFields
  <2>3. SameFlags(k, b)
    BY <1>1, PushFlags
  <2> HIDE DEF b
  <2>4. Fit(e, b) /\ SameFlags(c, b) /\ b.in_pq = Tail(c.in_pq)
    BY <1>1, <1>5, <2>2, <2>3 DEF Fit, SameFlags, SameHeld, SameIn
  <2>5. Writes(e, c) = x /\ Leads(e, x, p.type, n)
    BY <1>3, <1>7 DEF Leads, Kex
  <2> HIDE DEF p, x, n
  <2>6. Wrote(e, k, b, x, n)
    BY <1>1, <1>3, <2>1, <2>2, <2>5, WroteOne
  <2> QED
    BY <1>4, <2>2, <2>4, <2>5, <2>6
<1>8. ASSUME e = Client PROVE Pace(e, c, a)
  <2>1. /\ a \in Transport /\ a.pc = "askKey" /\ a.held = c.held /\ SameIn(k, a) /\ SameOut(k, a)
        /\ SameFlags(c, a)
    BY <1>1 DEF Transport, Places, SameIn, SameOut, SameFlags
  <2> HIDE DEF a
  <2>2. Fit(e, a) /\ Writes(e, a) = n /\ Reads(a) = n /\ Writes(e, c) = n
    BY <1>3, <1>8, <2>1 DEF Fit, Writes, Reads, SameFlags
  <2> HIDE DEF n
  <2>3. Wrote(e, k, a, n, n)
    BY <1>1, <1>3, <2>1, WroteNothing
  <2> QED
    BY <1>1, <1>3, <2>1, <2>2, <2>3, PopPace
<1>9. e = Client <=> e # Server
  BY DEF Ends, Client, Server
<1> QED
  BY <1>2, <1>6, <1>7, <1>8, <1>9

LEMMA PaceService ==
  ASSUME NEW e \in Ends, NEW c \in Transport, Fit(e, c), c.pc = "service", c.in_pq # <<>>,
         Head(c.in_pq).type = Service(Other(e)), NEW d \in Continued(e, Popped(c), Head(c.in_pq))
  PROVE  Pace(e, c, d)
<1> DEFINE k == Popped(c)
           b == Push(k, "SERVICE_ACCEPT", 0)
           p == [type |-> "SERVICE_ACCEPT", n |-> 0]
<1>1. /\ k \in Transport /\ k.pc = "service" /\ k.held = c.held
      /\ k.in_pq = Tail(c.in_pq) /\ SameOut(c, k) /\ SameFlags(c, k)
  BY PoppedFlags
<1>2. d = Running(IF e = Client THEN k ELSE b)
  <2> DEFINE h == Head(c.in_pq)
  <2>1. k.pc = "service" /\ d \in Continued(e, k, h)
    BY <1>1
  <2> HIDE DEF k, h
  <2>2. Continued(e, k, h) = {Running(IF e = Client THEN k ELSE b)}
    BY <2>1, Zenon DEF Continued
  <2> QED
    BY <2>1, <2>2
<1> HIDE DEF k
<1>3. /\ Reads(c) = "S" /\ Writes(e, c) = (IF e = Client THEN "K" ELSE "S") /\ c.held = <<>>
      /\ \A s : s = "K" => Leads(Other(e), Reads(c), Head(c.in_pq).type, s)
  BY DEF Fit, Writes, Reads, Leads
<1>4. "K" \in Stages /\ "S" \in Stages
  BY DEF Stages
<1>5. ASSUME NEW m \in Transport, m.held = <<>>, m.in_pq = Tail(c.in_pq),
             Wrote(e, k, m, Writes(e, c), "K")
      PROVE  Pace(e, c, Running(m))
  <2> DEFINE r == Running(m)
  <2>1. r \in Transport /\ r.pc = "run" /\ SameHeld(m, r) /\ SameIn(m, r) /\ SameOut(m, r)
    BY RunningFields
  <2>2. r.higher_ok
    BY DEF Running, Transport
  <2> HIDE DEF r
  <2>3. Fit(e, r) /\ Reads(r) = "K" /\ Writes(e, r) = "K"
    BY <2>1, <2>2 DEF Fit, Reads, Writes
  <2>4. Wrote(e, m, r, "K", "K")
    BY <1>4, <2>1, WroteNothing
  <2>5. Wrote(e, k, r, Writes(e, c), "K")
    BY <1>1, <1>5, <2>1, <2>4, WroteThen
  <2>6. Wrote(e, c, k, Writes(e, c), Writes(e, c))
    BY <1>1, StagesOf, WroteNothing
  <2>7. Wrote(e, c, r, Writes(e, c), "K")
    BY <1>1, <2>1, <2>5, <2>6, WroteThen
  <2>8. r.in_pq = Tail(c.in_pq) /\ Leads(Other(e), Reads(c), Head(c.in_pq).type, Reads(r))
    BY <1>3, <1>5, <2>1, <2>3 DEF SameIn
  <2>9. Read(e, c, r)
    BY <2>8 DEF Read
  <2>10. Pace(e, c, r)
    BY <2>1, <2>3, <2>7, <2>9 DEF Pace
  <2> QED
    BY <2>10 DEF r
<1>6. ASSUME e = Client PROVE Pace(e, c, Running(k))
  <2>1. Writes(e, c) = "K"
    BY <1>3, <1>6
  <2>2. Wrote(e, k, k, "K", "K")
    BY <1>1, <1>4, WroteNothing DEF SameOut
  <2> QED
    BY <1>1, <1>3, <1>5, <2>1, <2>2
<1>7. ASSUME e # Client PROVE Pace(e, c, Running(b))
  <2>1. p \in Packet /\ "SERVICE_ACCEPT" \in PacketTypes
    BY DEF Packet, PacketTypes, TransportTypes
  <2>2. /\ b \in Transport /\ b.pc = k.pc /\ SameHeld(k, b) /\ SameIn(k, b)
        /\ b.wire = k.wire /\ b.out_pq = Append(k.out_pq, p)
    BY <1>1, <2>1, PushFields
  <2> HIDE DEF b
  <2>3. Writes(e, c) = "S" /\ Leads(e, "S", p.type, "K")
    BY <1>3, <1>7 DEF Leads, Service
  <2> HIDE DEF p
  <2>4. Wrote(e, k, b, "S", "K")
    BY <1>1, <1>4, <2>1, <2>2, <2>3, WroteOne
  <2>5. b.held = <<>> /\ b.in_pq = Tail(c.in_pq)
    BY <1>1, <1>3, <2>2 DEF SameHeld, SameIn
  <2> QED
    BY <1>5, <2>2, <2>3, <2>4, <2>5
<1> QED
  BY <1>2, <1>6, <1>7

LEMMA PaceNewKeys ==
  ASSUME NEW e \in Ends, NEW c \in Transport, Fit(e, c), c.pc = "newkeys", c.in_pq # <<>>,
         Head(c.in_pq).type = "NEWKEYS", NEW d \in Continued(e, Popped(c), Head(c.in_pq))
  PROVE  Pace(e, c, d)
<1> DEFINE k == Popped(c)
           m == [k EXCEPT !.inkey = Hash(e, k), !.pending_newkeys = FALSE]
           next == [m EXCEPT !.deferred = FALSE]
           over == [m EXCEPT !.kex_in_progress = FALSE]
           service == [m EXCEPT !.pc = "service", !.kex_in_progress = FALSE]
           asks == Push(service, "SERVICE_REQUEST", 0)
           p == [type |-> "SERVICE_REQUEST", n |-> 0]
           After1 == IF c.higher_ok THEN "K" ELSE "S"
<1>1. /\ k \in Transport /\ k.pc = "newkeys" /\ k.held = c.held
      /\ k.in_pq = Tail(c.in_pq) /\ SameOut(c, k) /\ SameFlags(c, k)
  BY PoppedFlags
<1>2. d = NewKeysReceived(e, k)
  <2> DEFINE h == Head(c.in_pq)
  <2>1. k.pc = "newkeys" /\ d \in Continued(e, k, h)
    BY <1>1
  <2> HIDE DEF k, h
  <2>2. Continued(e, k, h) = {NewKeysReceived(e, k)}
    BY <2>1, Zenon DEF Continued
  <2> QED
    BY <2>1, <2>2
<1>3. d = IF m.deferred THEN Begun(next)
          ELSE IF m.higher_ok THEN Running(over)
          ELSE IF e = Client THEN asks ELSE service
  BY <1>2, Zenon DEF NewKeysReceived
<1> HIDE DEF k
<1>4. /\ m \in Transport /\ m.pc = "newkeys" /\ m.held = c.held
      /\ m.in_pq = Tail(c.in_pq) /\ SameOut(c, m) /\ SameFlags(c, m)
  <2> DEFINE h == Hash(e, k)
  <2>1. h \in Keys
    <3>1. k.kexno \in Nat /\ k.theirs \in Nat
      BY <1>1, TransportType
    <3> QED
      BY <3>1 DEF Hash, Keys
  <2>2. m = [k EXCEPT !.inkey = h, !.pending_newkeys = FALSE]
    OBVIOUS
  <2> HIDE DEF h, m
  <2>3. /\ m \in Transport /\ m.pc = k.pc /\ m.held = k.held /\ m.in_pq = k.in_pq
        /\ SameOut(k, m) /\ SameFlags(k, m)
    BY <1>1, <2>1, <2>2 DEF Transport, SameOut, SameFlags
  <2> QED
    BY <1>1, <2>3 DEF SameOut, SameFlags
<1> HIDE DEF m
<1>5. /\ next \in Transport /\ next.held = c.held /\ SameIn(m, next) /\ SameOut(m, next)
      /\ next.higher_ok = m.higher_ok /\ ~next.deferred
  BY <1>4 DEF Transport, SameIn, SameOut
<1>6. over \in Transport /\ over.held = c.held /\ SameIn(m, over) /\ SameOut(m, over) /\ SameFlags(m, over)
  BY <1>4 DEF Transport, SameIn, SameOut, SameFlags
<1>7. /\ service \in Transport /\ service.pc = "service" /\ service.held = c.held
      /\ SameIn(m, service) /\ SameOut(m, service) /\ SameFlags(m, service)
  BY <1>4 DEF Transport, Places, SameIn, SameOut, SameFlags
<1> HIDE DEF next, over, service
<1>8. Writes(e, c) = After1 /\ Reads(c) = IF c.higher_ok THEN "N" ELSE "N1"
  BY DEF Writes, Reads
<1>9. /\ c.higher_ok => Leads(Other(e), Reads(c), Head(c.in_pq).type, "K")
      /\ ~c.higher_ok => Leads(Other(e), Reads(c), Head(c.in_pq).type, "S")
  BY <1>8 DEF Leads
<1>10. "K" \in Stages /\ "S" \in Stages
  BY DEF Stages
<1>11. CASE m.deferred
  <2> DEFINE g == Begun(next)
  <2>1. d = g
    BY <1>3, <1>11
  <2>2. c.higher_ok /\ next.higher_ok /\ Writes(e, c) = "K"
    BY <1>4, <1>5, <1>8, <1>11 DEF Fit, SameFlags
  <2>3. (IF next.higher_ok THEN "K" ELSE "K1") = "K"
    BY <2>2
  <2>4. g \in Transport /\ Fit(e, g) /\ SameIn(next, g) /\ Wrote(e, next, g, "K", Writes(e, g)) /\ Reads(g) = "K"
    <3> HIDE DEF g
    <3> QED
      BY <1>5, <2>2, <2>3, BegunPace DEF g
  <2> HIDE DEF g
  <2>5. next.in_pq = Tail(c.in_pq) /\ SameOut(c, next)
    BY <1>4, <1>5 DEF SameIn, SameOut
  <2>6. Leads(Other(e), Reads(c), Head(c.in_pq).type, Reads(g)) /\ Wrote(e, next, g, Writes(e, c), Writes(e, g))
    BY <1>9, <2>2, <2>4
  <2>7. Pace(e, c, g)
    BY <1>5, <2>4, <2>5, <2>6, PopPace
  <2> QED
    BY <2>1, <2>7
<1>12. CASE ~m.deferred /\ m.higher_ok
  <2> DEFINE r == Running(over)
  <2>1. d = r
    BY <1>3, <1>12
  <2>2. c.higher_ok /\ Writes(e, c) = "K"
    BY <1>4, <1>8, <1>12 DEF SameFlags
  <2>3. r \in Transport /\ r.pc = "run" /\ SameHeld(over, r) /\ SameIn(over, r) /\ SameOut(over, r)
    BY <1>6, RunningFields
  <2>4. r.higher_ok
    BY <1>6 DEF Running, Transport
  <2> HIDE DEF r
  <2>5. Fit(e, r) /\ Reads(r) = "K" /\ Writes(e, r) = "K"
    BY <2>3, <2>4 DEF Fit, Reads, Writes
  <2>6. Wrote(e, over, r, Writes(e, c), Writes(e, r))
    BY <1>6, <1>10, <2>2, <2>3, <2>5, WroteNothing
  <2>7. over.in_pq = Tail(c.in_pq) /\ SameOut(c, over)
    BY <1>4, <1>6 DEF SameIn, SameOut
  <2>8. Leads(Other(e), Reads(c), Head(c.in_pq).type, Reads(r))
    BY <1>9, <2>2, <2>5
  <2>9. Pace(e, c, r)
    BY <1>6, <2>3, <2>5, <2>6, <2>7, <2>8, PopPace
  <2> QED
    BY <2>1, <2>9
<1>13. CASE ~m.deferred /\ ~m.higher_ok
  <2>1. ~c.higher_ok /\ ~c.deferred /\ Writes(e, c) = "S" /\ c.held = <<>> /\ c.sent = 0
    BY <1>4, <1>8, <1>13 DEF Fit, SameFlags
  <2>2. ~service.higher_ok /\ ~service.deferred /\ service.sent = 0
    BY <1>4, <1>7, <1>13, <2>1 DEF SameFlags
  <2>3. service.in_pq = Tail(c.in_pq) /\ SameOut(c, service)
    BY <1>4, <1>7 DEF SameIn, SameOut
  <2>4. Fit(e, service) /\ Reads(service) = "S"
    BY <1>7, <2>1, <2>2 DEF Fit, Reads
  <2>5. CASE e = Client
    <3>1. p \in Packet /\ "SERVICE_REQUEST" \in PacketTypes
      BY DEF Packet, PacketTypes, TransportTypes
    <3>2. /\ asks \in Transport /\ asks.pc = service.pc /\ SameHeld(service, asks) /\ SameIn(service, asks)
          /\ asks.wire = service.wire /\ asks.out_pq = Append(service.out_pq, p)
      BY <1>7, <3>1, PushFields
    <3>3. SameFlags(service, asks)
      BY <1>7, PushFlags
    <3>4. d = asks
      BY <1>3, <1>13, <2>5
    <3> HIDE DEF asks
    <3>5. Fit(e, asks) /\ Reads(asks) = "S" /\ Writes(e, asks) = "K"
      BY <1>7, <2>1, <2>2, <2>5, <3>2, <3>3 DEF Fit, Reads, Writes, SameFlags, SameHeld
    <3>6. Leads(e, "S", p.type, "K")
      BY <2>5 DEF Leads, Service
    <3> HIDE DEF p
    <3>7. Wrote(e, service, asks, "S", "K")
      BY <1>7, <1>10, <3>1, <3>2, <3>6, WroteOne
    <3>8. Leads(Other(e), Reads(c), Head(c.in_pq).type, Reads(asks)) /\ Wrote(e, service, asks, Writes(e, c), Writes(e, asks))
      BY <1>9, <2>1, <3>5, <3>7
    <3>9. Pace(e, c, asks)
      BY <1>7, <2>3, <3>2, <3>5, <3>8, PopPace
    <3> QED
      BY <3>4, <3>9
  <2>6. CASE e # Client
    <3>1. d = service
      BY <1>3, <1>13, <2>6
    <3>2. Writes(e, service) = "S"
      BY <1>7, <2>6 DEF Writes
    <3>3. Wrote(e, service, service, Writes(e, c), Writes(e, service))
      BY <1>7, <1>10, <2>1, <3>2, WroteNothing DEF SameOut
    <3>4. Leads(Other(e), Reads(c), Head(c.in_pq).type, Reads(service)) /\ SameIn(service, service)
      BY <1>9, <2>1, <2>4 DEF SameIn
    <3>5. Pace(e, c, service)
      BY <1>7, <2>3, <2>4, <3>3, <3>4, PopPace
    <3> QED
      BY <3>1, <3>5
  <2> QED
    BY <2>5, <2>6
<1> QED
  BY <1>11, <1>12, <1>13

LEMMA AwaitedAt ==
  ASSUME NEW e \in Ends, NEW pc
  PROVE  /\ pc = "kex" => Awaited(e, pc) = Kex(Other(e))
         /\ pc = "service" => Awaited(e, pc) = Service(Other(e))
<1>1. (e = Client) <=> (Other(e) # Client)
  BY DEF Ends, Other, Client, Server
<1>2. /\ pc = "kex" => Awaited(e, pc) = IF e = Client THEN "KEX_REPLY" ELSE "KEX_INIT"
      /\ pc = "service" => Awaited(e, pc) = IF e = Client THEN "SERVICE_ACCEPT" ELSE "SERVICE_REQUEST"
  BY Zenon DEF Awaited
<1> QED
  BY <1>1, <1>2 DEF Kex, Service

LEMMA OrderlyResume ==
  ASSUME IInv, Orderly, NEW e \in Ends, Resume(e)
  PROVE  Orderly'
<1> DEFINE c == t[e]
<1>1. /\ c.pc \in {"kexinit", "kex", "newkeys", "service"}
      /\ c.in_pq # <<>> /\ Head(c.in_pq).type = Awaited(e, c.pc)
  BY DEF Resume
<1>2. PICK d \in Continued(e, Popped(c), Head(c.in_pq)) : Runs(e, d)
  BY DEF Resume, Popped
<1>3. c \in Transport /\ Fit(e, c)
  BY EndIs DEF Orderly
<1>4. Pace(e, c, d)
  <2> HIDE DEF c
  <2>1. CASE c.pc = "kexinit"
    BY <1>1, <1>3, <2>1, AwaitedIs, PaceKexinit
  <2>2. CASE c.pc = "kex"
    BY <1>1, <1>3, <2>2, AwaitedAt, PaceKex
  <2>3. CASE c.pc = "newkeys"
    BY <1>1, <1>3, <2>3, AwaitedIs, PaceNewKeys
  <2>4. CASE c.pc = "service"
    BY <1>1, <1>3, <2>4, AwaitedAt, PaceService
  <2> QED
    BY <1>1, <2>1, <2>2, <2>3, <2>4
<1> QED
  BY <1>2, <1>4, RunsPace

LEMMA InitOrderly == Init => Orderly
<1> SUFFICES ASSUME Init PROVE Orderly
  OBVIOUS
<1>1. \A e \in Ends : t[e] = Start /\ Other(e) \in Ends /\ t[Other(e)] = Start
  BY TheEnds DEF Init
<1>2. /\ Start.pc = "start" /\ Start.held = <<>> /\ Start.in_pq = <<>> /\ Start.out_pq = <<>>
      /\ Start.wire = <<>> /\ ~Start.higher_ok /\ ~Start.deferred /\ Start.sent = 0
  BY DEF Start
<1> DEFINE c == Start
<1> HIDE DEF c
<1>3. \A e \in Ends : Sent(e) = <<>>
  <2>1. Plain(<<>>) = <<>>
    BY DEF Plain
  <2>2. <<>> \o (<<>> \o <<>>) = <<>>
    OBVIOUS
  <2> QED
    BY <1>1, <1>2, <2>1, <2>2 DEF Sent, Out
<1>4. \A e \in Ends : Fit(e, c) /\ Reads(c) = "K1" /\ Writes(e, c) = "K1"
  BY <1>2 DEF Fit, Reads, Writes, c
<1>5. \A e \in Ends : Legal(e, <<>>, "K1", "K1")
  BY LegalNone DEF Stages
<1> QED
  BY <1>1, <1>3, <1>4, <1>5 DEF Orderly, c

LEMMA NextOrderly == IInv /\ Orderly /\ [Next]_vars /\ "first" \notin stages' => Orderly'
<1> SUFFICES ASSUME IInv, Orderly, [Next]_vars, "first" \notin stages' PROVE Orderly'
  OBVIOUS
<1>1. CASE UNCHANGED vars
  BY <1>1 DEF vars, Orderly, Sent
<1>2. ASSUME NEW e \in Ends, Proceed(e) PROVE Orderly'
  BY <1>2, OrderlyMarshal, OrderlyDecrypt, OrderlyEnter, OrderlyPassUp, OrderlyResume, OrderlyDoze,
     OrderlyLoop, OrderlyAnswer DEF Proceed
<1>3. ASSUME NEW e \in Ends, HigherSend(e) PROVE Orderly'
  BY <1>3, OrderlyHigherSend
<1>4. ASSUME NEW e \in Ends, Request(e) PROVE Orderly'
  BY <1>4, OrderlyRequest
<1>5. CASE AuthDone
  BY <1>5, OrderlyAuthDone
<1>6. CASE Reconfigure
  BY <1>6, OrderlyReconfigure
<1> QED
  BY <1>1, <1>2, <1>3, <1>4, <1>5, <1>6 DEF Next

\* In which stages the settings were changed is not forgotten.
LEMMA StagesStay == [Next]_vars => stages \subseteq stages'
<1> SUFFICES ASSUME [Next]_vars PROVE stages \subseteq stages'
  OBVIOUS
<1>1. CASE UNCHANGED vars
  BY <1>1 DEF vars
<1>2. ASSUME NEW e \in Ends, Proceed(e) PROVE stages' = stages
  BY <1>2 DEF Proceed, Marshal, Decrypt, Enter, PassUp, Resume, Doze, Loop, Answer
<1>3. ASSUME NEW e \in Ends, HigherSend(e) \/ Request(e) PROVE stages' = stages
  BY <1>3 DEF HigherSend, Request
<1>4. CASE AuthDone
  BY <1>4 DEF AuthDone
<1>5. CASE Reconfigure
  BY <1>5 DEF Reconfigure, Changed
<1> QED
  BY <1>1, <1>2, <1>3, <1>4, <1>5 DEF Next

LEMMA OrderlyHolds ==
  IInv /\ Orderly => NoProtocolError
<1> SUFFICES ASSUME IInv, Orderly, NEW e \in Ends, t[e].in_pq # <<>>
             PROVE  LET type == Head(t[e].in_pq).type
                    IN IF type = "HIGHER" THEN t[e].higher_ok
                       ELSE t[e].pc \in {"start", "askCrypto", "askKey"} \/ type = Awaited(e, t[e].pc)
  BY DEF NoProtocolError
<1> DEFINE c == t[e]
           type == Head(c.in_pq).type
           o == Other(e)
<1>1. c \in Transport /\ Fit(e, c)
  BY EndIs DEF Orderly
<1>2. PICK b \in Stages : Leads(o, Reads(c), type, b)
  BY HeadLeads
<1>3. /\ c.pc \in {"kexinit", "run"} => Awaited(e, c.pc) = "KEXINIT"
      /\ c.pc = "kex" => Awaited(e, c.pc) = Kex(o)
      /\ c.pc = "newkeys" => Awaited(e, c.pc) = "NEWKEYS"
      /\ c.pc = "service" => Awaited(e, c.pc) = Service(o)
  <2>1. c.pc \in {"kexinit", "run"} => Awaited(e, c.pc) = "KEXINIT"
    BY Zenon DEF Awaited
  <2>2. c.pc = "newkeys" => Awaited(e, c.pc) = "NEWKEYS"
    BY AwaitedIs
  <2> QED
    BY <2>1, <2>2, AwaitedAt
<1>4. Kex(o) # "HIGHER" /\ Service(o) # "HIGHER"
  BY DEF Kex, Service
<1>5. c.pc \in Places
  BY <1>1, TransportType
<1> HIDE DEF c, type, o
<1>6. CASE type = "HIGHER"
  <2>1. Reads(c) = "K"
    BY <1>2, <1>4, <1>6 DEF Leads
  <2>2. c.higher_ok
    BY <1>1, <2>1 DEF Reads, Fit
  <2> QED
    BY <1>6, <2>2 DEF c, type
<1>7. CASE type # "HIGHER"
  <2>1. c.pc \in {"start", "askCrypto", "askKey"} \/ type = Awaited(e, c.pc)
    <3>1. CASE c.pc \in {"kexinit", "run"}
      <4>1. Reads(c) \in {"K", "K1"}
        BY <3>1 DEF Reads
      <4> QED
        BY <1>2, <1>3, <1>7, <3>1, <4>1 DEF Leads
    <3>2. CASE c.pc = "kex"
      <4>1. Reads(c) \in {"X", "X1"}
        BY <3>2 DEF Reads
      <4> QED
        BY <1>2, <1>3, <3>2, <4>1 DEF Leads
    <3>3. CASE c.pc = "newkeys"
      <4>1. Reads(c) \in {"N", "N1"}
        BY <3>3 DEF Reads
      <4> QED
        BY <1>2, <1>3, <3>3, <4>1 DEF Leads
    <3>4. CASE c.pc = "service"
      <4>1. Reads(c) = "S"
        BY <3>4 DEF Reads
      <4> QED
        BY <1>2, <1>3, <3>4, <4>1 DEF Leads
    <3> QED
      BY <1>5, <3>1, <3>2, <3>3, <3>4 DEF Places
  <2> QED
    BY <1>7, <2>1 DEF c, type
<1> QED
  BY <1>6, <1>7

\* Unless the settings change in the first exchange, the coroutine finds the packet it
\* waits for, and the higher layer no packet before it runs: ssh2_transport_process_queue
\* never calls ssh_proto_error.
THEOREM NoErrors == Spec => []NoErrorUnlessEarly
<1> DEFINE Late == "first" \notin stages
<1>1. Init => IInv /\ (Late => Orderly)
  BY InitHolds, InitOrderly
<1>2. (IInv /\ (Late => Orderly)) /\ [Next]_vars => (IInv /\ (Late => Orderly))'
  BY NextHolds, NextOrderly, StagesStay
<1>3. IInv /\ (Late => Orderly) => NoErrorUnlessEarly
  BY OrderlyHolds DEF NoErrorUnlessEarly
<1> QED
  BY <1>1, <1>2, <1>3, PTL DEF Spec
=============================================================================
