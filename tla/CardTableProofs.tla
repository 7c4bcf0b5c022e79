------------------------- MODULE CardTableProofs -------------------------
(***************************************************************************)
(* Theorems about the browser side of "cards", for hands and numbers of    *)
(* timers of any size: what the run "card_table" checks on one instance.   *)
(***************************************************************************)
EXTENDS CardTable, FiniteSetTheorems, TLAPS

\* A timer left behind by popAnim() only ever holds cards to append: a replace
\* is the first animation of its queue, and the first is performed at once.
Anim  == [action : {"append"}, card : Cards]
Timer == [div : Divs, rest : Seq(Anim)]

\* The shapes of the page's variables.
Shapes ==
  /\ session \in Sessions \cup {NoSession}
  /\ allDisabled \in BOOLEAN /\ rushed \in BOOLEAN /\ silent \in BOOLEAN
  /\ shown \in [Divs -> Seq(Cards)]
  /\ timers \in Seq(Timer)

\* A request that is out: of which kind, with which session, and with the
\* buttons that wait for it disabled.
Out(r) ==
  /\ r.method \in Methods \cup {"load"}
  /\ r.token = session
  /\ r.method = "load" <=> session = NoSession
  /\ r.method # "load" => allDisabled
  /\ r.method \in {"hit", "double"} => session.player < MaxCards

OneOut == inflight = {} \/ \E r : inflight = {r} /\ Out(r)

Blank == \A div \in Divs : shown[div] = <<>>

\* A div on its way to the hand h: the children c are the first cards of the
\* hand, the animations a append the others in their order.
OnWay(c, a, h) ==
  /\ Len(c) + Len(a) = Len(h)
  /\ \A k \in 1 .. Len(c) : c[k] = h[k]
  /\ \A k \in 1 .. Len(a) : a[k].card = h[Len(c) + k]

\* The table while the hands of the session are drawn: one timer at most for
\* each div, which has the rest of its hand; a div without one is complete.
Drawing ==
  /\ \A i, j \in 1 .. Len(timers) : timers[i].div = timers[j].div => i = j
  /\ \A i \in 1 .. Len(timers) :
       OnWay(shown[timers[i].div], timers[i].rest,
             HandData(session, timers[i].div))
  /\ \A div \in Divs :
       \/ \E i \in 1 .. Len(timers) : timers[i].div = div
       \/ shown[div] = HandData(session, div)

\* What a patient visitor sees.
Table ==
  /\ session = NoSession => Blank /\ timers = <<>>
  /\ ~rushed =>
       /\ inflight # {} => timers = <<>>
       /\ \A r \in inflight : r.method = "deal" => Blank
       /\ session # NoSession => (Blank /\ timers = <<>>) \/ Drawing

\* The inductive invariant.
IInv == Shapes /\ OneOut /\ Table

\* The buttons wait for nothing but a request, until one ends without a word.
Waits ==
  inflight = {} /\ session # NoSession /\ ~silent => ~allDisabled

-----------------------------------------------------------------------------
(* Sessions and their hands *)

\* A session that an answer brings is a session, and not the missing one.
LEMMA SessionsKnown ==
  /\ NoSession \notin Sessions
  /\ Idle \in Sessions
BY CardTableAssumption DEF NoSession, Idle, Sessions

\* A hand is made of cards.
LEMMA HandsAreCards ==
  ASSUME NEW s \in Sessions, NEW div \in Divs
  PROVE  HandData(s, div) \in Seq(Cards) /\ Len(HandData(s, div)) = s[div]
<1>1. s[div] \in 0 .. MaxCards
  BY DEF Sessions, Divs
<1>2. s.round \in 0 .. 1
  BY DEF Sessions
<1>3. \A i \in 1 .. s[div] : <<s.round, i>> \in Cards
  BY <1>1, <1>2, CardTableAssumption DEF Cards
<1>4. Back \in Cards
  BY DEF Cards
<1> QED
  BY <1>1, <1>3, <1>4, CardTableAssumption DEF HandData

\* What a request is answered with: a session that follows the one it carries.
Follows(method, s, new) ==
  /\ new \in Sessions
  /\ method # "deal" => /\ new.round = s.round
                        /\ new.player >= s.player
                        /\ new.dealer >= s.dealer

LEMMA AnswersFollow ==
  ASSUME NEW s \in Sessions, NEW method \in Methods,
         method \in {"hit", "double"} => s.player < MaxCards,
         NEW new \in Answers(method, s)
  PROVE  Follows(method, s, new)
<1> DEFINE Won == IF s.won THEN {TRUE} ELSE BOOLEAN
           Ended(p, w) == [state : {"Over"}, round : {s.round}, player : {p},
                           dealer : s.dealer .. MaxCards, won : w]
           Dealt(st, w) == [state : {st}, round : {1 - s.round}, player : {2},
                            dealer : {2}, won : w]
<1> HIDE DEF Won
<1>1. /\ s.won \in BOOLEAN /\ s.round \in 0 .. 1
      /\ s.player \in 0 .. MaxCards /\ s.dealer \in 0 .. MaxCards
  BY DEF Sessions
<1>2. {FALSE, s.won} \in SUBSET BOOLEAN /\ Won \in SUBSET BOOLEAN
  BY <1>1, Zenon DEF Won
<1>3. ASSUME NEW st \in {"Playing", "Over"}, NEW w \in SUBSET BOOLEAN,
             NEW d \in Dealt(st, w)
      PROVE  d \in Sessions
  <2>1. 1 - s.round \in 0 .. 1
    BY <1>1
  <2> QED
    BY <1>3, <2>1, CardTableAssumption DEF Sessions
<1>4. ASSUME NEW p \in s.player .. MaxCards, NEW w \in SUBSET BOOLEAN,
             NEW e \in Ended(p, w)
      PROVE  Follows(method, s, e)
  <2>1. /\ e.state = "Over" /\ e.round = s.round /\ e.player = p
        /\ e.dealer \in s.dealer .. MaxCards /\ e.won \in w
        /\ e = [state |-> e.state, round |-> e.round, player |-> e.player,
                dealer |-> e.dealer, won |-> e.won]
    BY <1>4
  <2> HIDE DEF Ended
  <2>2. e \in Sessions
    BY <1>1, <2>1, CardTableAssumption DEF Sessions
  <2>3. e.player >= s.player /\ e.dealer >= s.dealer
    BY <1>1, <2>1, CardTableAssumption
  <2> QED
    BY <2>1, <2>2, <2>3, Zenon DEF Follows
<1>5. CASE method = "deal"
  <2>1. new \in Dealt("Playing", {FALSE, s.won}) \cup Dealt("Over", BOOLEAN)
    BY <1>5, Zenon DEF Answers
  <2> HIDE DEF Dealt
  <2>2. new \in Sessions
    BY <1>2, <1>3, <2>1, Zenon
  <2> QED
    BY <1>5, <2>2, Zenon DEF Follows
<1>6. CASE method = "hit"
  <2>1. new \in {[s EXCEPT !.player = @ + 1]} \cup Ended(s.player + 1, Won)
    BY <1>6, Zenon DEF Answers, Won
  <2>2. s.player + 1 \in s.player .. MaxCards
    BY <1>1, <1>6, CardTableAssumption
  <2>3. CASE new = [s EXCEPT !.player = @ + 1]
    <3>1. /\ new \in Sessions /\ new.round = s.round
          /\ new.player = s.player + 1 /\ new.dealer = s.dealer
      BY <1>1, <2>2, <2>3, CardTableAssumption DEF Sessions
    <3> QED
      BY <1>1, <3>1, CardTableAssumption DEF Follows
  <2>4. CASE new \in Ended(s.player + 1, Won)
    <3> HIDE DEF Ended
    <3> QED
      BY <1>2, <1>4, <2>2, <2>4
  <2> QED
    BY <2>1, <2>3, <2>4, Zenon
<1>7. CASE method = "stand"
  <2>1. new \in Ended(s.player, Won)
    BY <1>7, Zenon DEF Answers, Won
  <2>2. s.player \in s.player .. MaxCards
    BY <1>1, CardTableAssumption
  <2> HIDE DEF Ended
  <2> QED
    BY <1>2, <1>4, <2>1, <2>2
<1>8. CASE method = "double"
  <2>1. new \in Ended(s.player + 1, {FALSE, s.won})
    BY <1>8, Zenon DEF Answers
  <2>2. s.player + 1 \in s.player .. MaxCards
    BY <1>1, <1>8, CardTableAssumption
  <2> HIDE DEF Ended
  <2> QED
    BY <1>2, <1>4, <2>1, <2>2
<1> QED
  BY <1>5, <1>6, <1>7, <1>8 DEF Methods

-----------------------------------------------------------------------------
(* Drawing one hand *)

\* A div can be drawn into when it is empty or shows the first cards of the hand
\* but for the first, which a hand that ends turns over.
Ready(c, h) ==
  c = <<>> \/ (Len(c) <= Len(h) /\ \A k \in 2 .. Len(c) : c[k] = h[k])

\* The cards that are missing in a div.
Missing(c, h) ==
  [i \in 1 .. Len(h) - Len(c) |-> [action |-> "append", card |-> h[Len(c) + i]]]

LEMMA MissingType ==
  ASSUME NEW c \in Seq(Cards), NEW h \in Seq(Cards)
  PROVE  /\ Missing(c, h) \in Seq(Anim)
         /\ Len(c) <= Len(h) => Len(Missing(c, h)) = Len(h) - Len(c)
         /\ \A k \in 1 .. Len(h) - Len(c) :
              Missing(c, h)[k].card = h[Len(c) + k]
<1> DEFINE n == Len(h) - Len(c)
<1>1. n \in Int /\ Len(c) \in Nat /\ Len(h) \in Nat
  OBVIOUS
<1>2. \A i \in 1 .. n : [action |-> "append", card |-> h[Len(c) + i]] \in Anim
  BY <1>1 DEF Anim
<1>3. Missing(c, h) \in [1 .. n -> Anim]
  BY <1>2 DEF Missing
<1>4. n >= 0 => Missing(c, h) \in Seq(Anim) /\ Len(Missing(c, h)) = n
  <2> HIDE DEF n
  <2> QED
    BY <1>1, <1>3
<1>5. n < 0 => Missing(c, h) \in Seq(Anim)
  <2> SUFFICES ASSUME n < 0 PROVE Missing(c, h) \in Seq(Anim)
    OBVIOUS
  <2>1. 1 .. n = 1 .. 0
    <3> HIDE DEF n
    <3> QED
      BY <1>1
  <2>2. Missing(c, h) \in [1 .. 0 -> Anim]
    BY <1>3, <2>1, Zenon
  <2> HIDE DEF n
  <2> QED
    BY <2>2
<1>6. \A k \in 1 .. n : Missing(c, h)[k].card = h[Len(c) + k]
  BY DEF Missing
<1> QED
  BY <1>1, <1>4, <1>5, <1>6

\* The animations of a hand: a replace, if any, comes first.
LEMMA AnimationsType ==
  ASSUME NEW div \in Divs, shown[div] \in Seq(Cards), NEW h \in Seq(Cards)
  PROVE  \/ /\ h # <<>> /\ shown[div] # <<>> => h[1] = shown[div][1]
            /\ Animations(div, h) = Missing(shown[div], h)
         \/ /\ h # <<>> /\ shown[div] # <<>>
            /\ Animations(div, h) = <<[action |-> "replace", card |-> h[1]]>>
                                      \o Missing(shown[div], h)
<1> DEFINE c == shown[div]
           A == Animations(div, h)
<1>1. Missing(c, h) \in Seq(Anim)
  BY MissingType
<1>2. A = (IF h # <<>> /\ Len(c) > 0 /\ h[1] # c[1]
           THEN <<[action |-> "replace", card |-> h[1]]>>
           ELSE <<>>) \o Missing(c, h)
  BY DEF Animations, Missing
<1>3. CASE h # <<>> /\ Len(c) > 0 /\ h[1] # c[1]
  BY <1>2, <1>3
<1>4. CASE ~(h # <<>> /\ Len(c) > 0 /\ h[1] # c[1])
  <2>1. A = <<>> \o Missing(c, h)
    BY <1>2, <1>4
  <2>2. A = Missing(c, h)
    <3> HIDE DEF A
    <3> QED
      BY <1>1, <2>1
  <2> QED
    BY <1>4, <2>2
<1> QED
  BY <1>3, <1>4

\* A timer that fires appends the next card, in a div that is on its way too.
LEMMA NextCard ==
  ASSUME NEW c \in Seq(Cards), NEW a \in Seq(Anim), a # <<>>
  PROVE  /\ AfterPop(c, a) \in Seq(Cards)
         /\ Tail(a) \in Seq(Anim)
         /\ \A h \in Seq(Cards) :
              OnWay(c, a, h) => OnWay(AfterPop(c, a), Tail(a), h)
<1>1. a[1] \in Anim /\ a[1].action = "append" /\ a[1].card \in Cards
  <2>1. a[1] \in Anim
    OBVIOUS
  <2> QED
    BY <2>1 DEF Anim
<1>2. AfterPop(c, a) = Append(c, a[1].card)
  BY <1>1 DEF AfterPop, Perform
<1>3. Tail(a) \in Seq(Anim) /\ Len(Tail(a)) = Len(a) - 1
      /\ \A k \in 1 .. Len(a) - 1 : Tail(a)[k] = a[k + 1]
  OBVIOUS
<1>4. ASSUME NEW h \in Seq(Cards), OnWay(c, a, h)
      PROVE  OnWay(Append(c, a[1].card), Tail(a), h)
  <2> DEFINE d == Append(c, a[1].card)
             b == Tail(a)
  <2>1. Len(d) = Len(c) + 1 /\ d[Len(c) + 1] = a[1].card
        /\ \A k \in 1 .. Len(c) : d[k] = c[k]
    BY <1>1
  <2>2. /\ Len(c) + Len(a) = Len(h)
        /\ \A k \in 1 .. Len(c) : c[k] = h[k]
        /\ \A k \in 1 .. Len(a) : a[k].card = h[Len(c) + k]
    BY <1>4 DEF OnWay
  <2>3. /\ Len(c) \in Nat /\ Len(a) \in Nat /\ Len(h) \in Nat /\ Len(a) >= 1
        /\ h[Len(c) + 1] = a[1].card
    BY <2>2
  <2>4. /\ b \in Seq(Anim) /\ Len(b) = Len(a) - 1
        /\ \A k \in 1 .. Len(a) - 1 : b[k] = a[k + 1]
    BY <1>3
  <2> HIDE DEF d, b
  <2>5. \A k \in 1 .. Len(d) : d[k] = h[k]
    BY <2>1, <2>2, <2>3
  <2>6. ASSUME NEW k \in 1 .. Len(b)
        PROVE  b[k].card = h[Len(d) + k]
    <3>1. k + 1 \in 1 .. Len(a) /\ b[k] = a[k + 1]
      BY <2>3, <2>4
    <3>2. a[k + 1].card = h[Len(c) + (k + 1)]
      BY <2>2, <3>1
    <3>3. Len(c) + (k + 1) = Len(d) + k
      BY <2>1, <2>3
    <3> QED
      BY <3>1, <3>2, <3>3
  <2>7. Len(d) + Len(b) = Len(h)
    <3>1. Len(d) = Len(c) + 1 /\ Len(b) = Len(a) - 1 /\ Len(c) + Len(a) = Len(h)
      BY <2>1, <2>2, <2>4
    <3> QED
      BY <2>3, <3>1
  <2>8. OnWay(d, b, h)
    BY <2>5, <2>6, <2>7 DEF OnWay
  <2> QED
    BY <2>8 DEF d, b
<1>5. Append(c, a[1].card) \in Seq(Cards)
  BY <1>1
<1> QED
  BY <1>2, <1>3, <1>4, <1>5

\* A div with nothing left to draw shows its hand.
LEMMA Complete ==
  ASSUME NEW c \in Seq(Cards), NEW h \in Seq(Cards), OnWay(c, <<>>, h)
  PROVE  c = h
<1>1. Len(c) = Len(h) /\ \A k \in 1 .. Len(c) : c[k] = h[k]
  BY DEF OnWay
<1> QED
  BY <1>1

\* drawHand() on any div leaves cards, and cards to append on its timer; on one
\* that is ready for the hand, a div that is on its way.
LEMMA FirstDrawn ==
  ASSUME NEW div \in Divs, shown[div] \in Seq(Cards), NEW h \in Seq(Cards)
  PROVE  LET A == Animations(div, h)
             d == AfterPop(shown[div], A)
         IN  /\ d \in Seq(Cards)
             /\ A # <<>> => Tail(A) \in Seq(Anim)
             /\ Ready(shown[div], h) =>
                  /\ A = <<>> => d = h
                  /\ A # <<>> => OnWay(d, Tail(A), h)
<1> DEFINE c == shown[div]
           A == Animations(div, h)
           d == AfterPop(c, A)
           M == Missing(c, h)
<1>1. /\ M \in Seq(Anim)
      /\ Len(c) <= Len(h) => Len(M) = Len(h) - Len(c)
      /\ \A k \in 1 .. Len(h) - Len(c) : M[k].card = h[Len(c) + k]
  BY MissingType
<1>2. c \in Seq(Cards) /\ Len(c) \in Nat /\ Len(h) \in Nat
  OBVIOUS
<1>3. ASSUME A = M, h # <<>> /\ c # <<>> => h[1] = c[1]
      PROVE  /\ d \in Seq(Cards)
             /\ A # <<>> => Tail(A) \in Seq(Anim)
             /\ Ready(c, h) => /\ A = <<>> => d = h
                               /\ A # <<>> => OnWay(d, Tail(A), h)
  <2>1. ASSUME Ready(c, h)
        PROVE  OnWay(c, M, h)
    <3> HIDE DEF M, c
    <3>1. Len(c) <= Len(h) /\ \A k \in 1 .. Len(c) : c[k] = h[k]
      BY <1>2, <1>3, <2>1 DEF Ready
    <3> QED
      BY <1>1, <1>2, <3>1 DEF OnWay
  <2> HIDE DEF M, c, A
  <2>2. CASE A = <<>>
    <3>1. d = c
      BY <2>2 DEF AfterPop
    <3>2. Ready(c, h) => c = h
      BY <1>2, <1>3, <2>1, <2>2, Complete
    <3> QED
      BY <1>2, <2>2, <3>1, <3>2
  <2>3. CASE A # <<>>
    BY <1>1, <1>2, <1>3, <2>1, <2>3, NextCard
  <2> QED
    BY <2>2, <2>3
<1>4. ASSUME h # <<>>, c # <<>>,
             A = <<[action |-> "replace", card |-> h[1]]>> \o M
      PROVE  /\ d \in Seq(Cards)
             /\ A # <<>> => Tail(A) \in Seq(Anim)
             /\ Ready(c, h) => /\ A = <<>> => d = h
                               /\ A # <<>> => OnWay(d, Tail(A), h)
  <2> DEFINE r == [action |-> "replace", card |-> h[1]]
  <2>1. A # <<>> /\ Head(A) = r /\ Tail(A) = M
    <3> HIDE DEF A, M, r
    <3>1. A = <<r>> \o M
      BY <1>4 DEF r
    <3>2. <<r>> \in Seq({r} \cup Anim) /\ M \in Seq({r} \cup Anim)
      BY <1>1
    <3>3. Len(A) = 1 + Len(M) /\ A \in Seq({r} \cup Anim)
          /\ A[1] = r /\ \A k \in 1 .. Len(M) : A[k + 1] = M[k]
      BY <3>1, <3>2
    <3>4. A # <<>> /\ Head(A) = r
      BY <3>3
    <3>5. Tail(A) \in Seq({r} \cup Anim) /\ Len(Tail(A)) = Len(M)
          /\ \A k \in 1 .. Len(M) : Tail(A)[k] = M[k]
      BY <3>2, <3>3
    <3>6. Tail(A) = M
      BY <3>2, <3>5
    <3> QED
      BY <3>4, <3>6
  <2> HIDE DEF A
  <2>2. d = [c EXCEPT ![1] = h[1]]
    BY <1>4, <2>1 DEF AfterPop, Perform
  <2> HIDE DEF d
  <2>3. Len(c) >= 1 /\ Len(h) >= 1 /\ h[1] \in Cards
    BY <1>2, <1>4
  <2> HIDE DEF c, M
  <2>4. /\ d \in Seq(Cards) /\ Len(d) = Len(c) /\ d[1] = h[1]
        /\ \A k \in 2 .. Len(c) : d[k] = c[k]
    BY <1>2, <2>2, <2>3
  <2>5. ASSUME Ready(c, h)
        PROVE  OnWay(d, M, h)
    <3>1. Len(c) <= Len(h) /\ \A k \in 2 .. Len(c) : c[k] = h[k]
      BY <1>2, <1>4, <2>5 DEF Ready
    <3>2. \A k \in 1 .. Len(d) : d[k] = h[k]
      BY <1>2, <2>3, <2>4, <3>1
    <3>3. /\ Len(d) + Len(M) = Len(h)
          /\ \A k \in 1 .. Len(M) : M[k].card = h[Len(d) + k]
      <4>1. Len(M) = Len(h) - Len(c) /\ Len(d) = Len(c)
        BY <1>1, <2>4, <3>1
      <4>2. \A k \in 1 .. Len(h) - Len(c) : M[k].card = h[Len(c) + k]
        BY <1>1
      <4>3. Len(d) + Len(M) = Len(h)
        BY <1>2, <4>1
      <4> QED
        BY <4>1, <4>2, <4>3, Zenon
    <3> QED
      BY <3>2, <3>3 DEF OnWay
  <2> QED
    BY <1>1, <2>1, <2>4, <2>5
<1> HIDE DEF d
<1>5. \/ A = M /\ (h # <<>> /\ c # <<>> => h[1] = c[1])
      \/ /\ h # <<>> /\ c # <<>>
         /\ A = <<[action |-> "replace", card |-> h[1]]>> \o M
  BY AnimationsType
<1>6. /\ d \in Seq(Cards)
      /\ A # <<>> => Tail(A) \in Seq(Anim)
      /\ Ready(c, h) => /\ A = <<>> => d = h
                        /\ A # <<>> => OnWay(d, Tail(A), h)
  <2> HIDE DEF A, M, c
  <2> QED
    BY <1>3, <1>4, <1>5
<1> QED
  BY <1>6 DEF d

-----------------------------------------------------------------------------
(* Drawing both hands *)

\* What popAnim() leaves behind is no timer, or one with cards to append.
LEMMA LeftType ==
  ASSUME NEW div \in Divs, NEW a, a # <<>> => Tail(a) \in Seq(Anim)
  PROVE  TimerLeft(div, a) \in Seq(Timer)
<1>1. CASE a = <<>>
  BY <1>1 DEF TimerLeft
<1>2. CASE a # <<>>
  <2>1. [div |-> div, rest |-> Tail(a)] \in Timer
    BY <1>2 DEF Timer
  <2> QED
    BY <1>2, <2>1 DEF TimerLeft
<1> QED
  BY <1>1, <1>2

\* Both hands: what is drawn at once, and the timers for the rest.
LEMMA DrawsTyped ==
  ASSUME Shapes, NEW s \in Sessions, DrawHands(s)
  PROVE  /\ shown' \in [Divs -> Seq(Cards)]
         /\ timers' \in Seq(Timer)
<1> DEFINE A(div) == Animations(div, HandData(s, div))
<1>1. ASSUME NEW div \in Divs
      PROVE  /\ AfterPop(shown[div], A(div)) \in Seq(Cards)
             /\ TimerLeft(div, A(div)) \in Seq(Timer)
  <2>1. shown[div] \in Seq(Cards) /\ HandData(s, div) \in Seq(Cards)
    BY HandsAreCards DEF Shapes
  <2>2. /\ AfterPop(shown[div], A(div)) \in Seq(Cards)
        /\ A(div) # <<>> => Tail(A(div)) \in Seq(Anim)
    BY <2>1, FirstDrawn
  <2> QED
    BY <2>2, LeftType
<1>2. /\ shown' = [div \in Divs |-> AfterPop(shown[div], A(div))]
      /\ timers' = timers \o TimerLeft("player", A("player"))
                          \o TimerLeft("dealer", A("dealer"))
  BY DEF DrawHands
<1>3. "player" \in Divs /\ "dealer" \in Divs /\ timers \in Seq(Timer)
  BY DEF Divs, Shapes
<1> HIDE DEF A
<1>4. shown' \in [Divs -> Seq(Cards)]
  BY <1>1, <1>2
<1>5. TimerLeft("player", A("player")) \in Seq(Timer)
      /\ TimerLeft("dealer", A("dealer")) \in Seq(Timer)
  BY <1>1, <1>3
<1> QED
  BY <1>2, <1>3, <1>4, <1>5

\* Drawn with no timer running and both divs ready, the hands are on their way.
LEMMA DrawsOnWay ==
  ASSUME Shapes, NEW s \in Sessions, DrawHands(s), session' = s, timers = <<>>,
         \A div \in Divs : Ready(shown[div], HandData(s, div))
  PROVE  Drawing'
<1> DEFINE A(div) == Animations(div, HandData(s, div))
           Timed(div) == [div |-> div, rest |-> Tail(A(div))]
<1>1. ASSUME NEW div \in Divs
      PROVE  /\ A(div) = <<>> => AfterPop(shown[div], A(div)) = HandData(s, div)
             /\ A(div) # <<>> => OnWay(AfterPop(shown[div], A(div)),
                                       Tail(A(div)), HandData(s, div))
  <2>1. shown[div] \in Seq(Cards) /\ HandData(s, div) \in Seq(Cards)
    BY HandsAreCards DEF Shapes
  <2>2. Ready(shown[div], HandData(s, div))
    OBVIOUS
  <2> QED
    BY <2>1, <2>2, FirstDrawn
<1>2. /\ shown' = [div \in Divs |-> AfterPop(shown[div], A(div))]
      /\ timers' = <<>> \o TimerLeft("player", A("player"))
                        \o TimerLeft("dealer", A("dealer"))
  BY DEF DrawHands
<1>3. "player" \in Divs /\ "dealer" \in Divs /\ "player" # "dealer"
      /\ \A div \in Divs : div = "player" \/ div = "dealer"
  BY DEF Divs
<1>4. \A div \in Divs :
        TimerLeft(div, A(div)) = IF A(div) = <<>> THEN <<>> ELSE <<Timed(div)>>
  BY DEF TimerLeft
<1>5. \A div \in Divs : Timed(div).div = div /\ Timed(div).rest = Tail(A(div))
  OBVIOUS
<1>6. \A div \in Divs :
        /\ A(div) = <<>> => shown'[div] = HandData(s, div)
        /\ A(div) # <<>> => OnWay(shown'[div], Tail(A(div)), HandData(s, div))
  <2> HIDE DEF A
  <2> QED
    BY <1>1, <1>2
<1> HIDE DEF A, Timed
<1> DEFINE Due == {div \in Divs : A(div) # <<>>}
<1>7. /\ \A i \in 1 .. Len(timers') :
           \E div \in Due : timers'[i] = Timed(div)
      /\ \A div \in Due : \E i \in 1 .. Len(timers') : timers'[i] = Timed(div)
      /\ \A i, j \in 1 .. Len(timers') : timers'[i] = timers'[j] => i = j
  <2>0. Timed("player") # Timed("dealer")
    BY <1>3, <1>5
  <2>1. CASE A("player") = <<>> /\ A("dealer") = <<>>
    <3>1. TimerLeft("player", A("player")) = <<>>
          /\ TimerLeft("dealer", A("dealer")) = <<>>
      BY <1>3, <1>4, <2>1
    <3>2. timers' = <<>>
      <4>1. timers' = <<>> \o <<>> \o <<>>
        BY <1>2, <3>1, Zenon
      <4> QED
        BY <4>1
    <3>3. Due = {}
      BY <1>3, <2>1
    <3> HIDE DEF Due
    <3> QED
      BY <2>0, <3>2, <3>3
  <2>2. CASE A("player") # <<>> /\ A("dealer") = <<>>
    <3>1. TimerLeft("player", A("player")) = <<Timed("player")>>
          /\ TimerLeft("dealer", A("dealer")) = <<>>
      BY <1>3, <1>4, <2>2
    <3>2. timers' = <<Timed("player")>>
      <4>1. timers' = <<>> \o <<Timed("player")>> \o <<>>
        BY <1>2, <3>1, Zenon
      <4> QED
        BY <4>1
    <3>3. Due = {"player"}
      BY <1>3, <2>2
    <3> HIDE DEF Due
    <3> QED
      BY <2>0, <3>2, <3>3
  <2>3. CASE A("player") = <<>> /\ A("dealer") # <<>>
    <3>1. TimerLeft("player", A("player")) = <<>>
          /\ TimerLeft("dealer", A("dealer")) = <<Timed("dealer")>>
      BY <1>3, <1>4, <2>3
    <3>2. timers' = <<Timed("dealer")>>
      <4>1. timers' = <<>> \o <<>> \o <<Timed("dealer")>>
        BY <1>2, <3>1, Zenon
      <4> QED
        BY <4>1
    <3>3. Due = {"dealer"}
      BY <1>3, <2>3
    <3> HIDE DEF Due
    <3> QED
      BY <2>0, <3>2, <3>3
  <2>4. CASE A("player") # <<>> /\ A("dealer") # <<>>
    <3>1. TimerLeft("player", A("player")) = <<Timed("player")>>
          /\ TimerLeft("dealer", A("dealer")) = <<Timed("dealer")>>
      BY <1>3, <1>4, <2>4
    <3>2. /\ Len(timers') = 2
          /\ timers'[1] = Timed("player") /\ timers'[2] = Timed("dealer")
      <4>1. timers' = <<>> \o <<Timed("player")>> \o <<Timed("dealer")>>
        BY <1>2, <3>1, Zenon
      <4>2. <<>> \o <<Timed("player")>> = <<Timed("player")>>
        OBVIOUS
      <4>3. timers' = <<Timed("player")>> \o <<Timed("dealer")>>
        BY <4>1, <4>2, Zenon
      <4> QED
        BY <4>3
    <3>3. Due = {"player", "dealer"}
      BY <1>3, <2>4
    <3> HIDE DEF Due
    <3> QED
      BY <2>0, <3>2, <3>3
  <2> QED
    BY <2>1, <2>2, <2>3, <2>4
<1>8. \A i, j \in 1 .. Len(timers') : timers'[i].div = timers'[j].div => i = j
  BY <1>5, <1>7
<1>9. ASSUME NEW i \in 1 .. Len(timers')
      PROVE  OnWay(shown'[timers'[i].div], timers'[i].rest,
                   HandData(s, timers'[i].div))
  <2>1. PICK div \in Due : timers'[i] = Timed(div)
    BY <1>7
  <2>2. timers'[i].div = div /\ timers'[i].rest = Tail(A(div))
    BY <1>5, <2>1
  <2>3. OnWay(shown'[div], Tail(A(div)), HandData(s, div))
    BY <1>6, <2>1
  <2> QED
    BY <2>2, <2>3, Zenon
<1>10. \A div \in Divs :
         \/ \E i \in 1 .. Len(timers') : timers'[i].div = div
         \/ shown'[div] = HandData(s, div)
  BY <1>5, <1>6, <1>7
<1> QED
  BY <1>8, <1>9, <1>10 DEF Drawing, HandData

\* The divs are ready for the hands of an answer: nothing of another hand is in
\* them, and the cards of this hand stay where they are.
LEMMA AnswersFindReady ==
  ASSUME NEW s \in Sessions, NEW new, NEW method \in Methods, method # "deal",
         Follows(method, s, new), NEW div \in Divs
  PROVE  Ready(HandData(s, div), HandData(new, div))
<1>1. new \in Sessions /\ new.round = s.round
      /\ new.player >= s.player /\ new.dealer >= s.dealer
  BY DEF Follows
<1>2. s[div] \in Nat /\ new[div] \in Nat /\ s[div] <= new[div]
  BY <1>1, CardTableAssumption DEF Sessions, Divs
<1>3. Len(HandData(s, div)) = s[div] /\ Len(HandData(new, div)) = new[div]
  BY <1>1, HandsAreCards
<1>4. \A k \in 2 .. s[div] : HandData(s, div)[k] = HandData(new, div)[k]
  BY <1>1, <1>2 DEF HandData
<1> QED
  BY <1>2, <1>3, <1>4 DEF Ready

-----------------------------------------------------------------------------
(* The steps *)

\* updateButtons() enables nothing while the page's flag is set.
LEMMA FlagDisables ==
  ASSUME allDisabled
  PROVE  \A method : ~Enabled(method)
BY Zenon DEF Enabled

\* Whoever is answered is the one request that was out.
LEMMA OnlyOne ==
  ASSUME OneOut, NEW r \in inflight
  PROVE  inflight = {r} /\ Out(r) /\ inflight \ {r} = {}
BY DEF OneOut

\* What the cards of the table depend on.
LEMMA TableUntouched ==
  ASSUME UNCHANGED <<session, shown, timers>>
  PROVE  (Blank => Blank') /\ (Drawing => Drawing')
BY DEF Blank, Drawing, HandData

LEMMA InitIInv == Init => IInv
<1> SUFFICES ASSUME Init PROVE IInv
  OBVIOUS
<1>1. Shapes
  <2>1. allDisabled \in BOOLEAN /\ rushed \in BOOLEAN /\ silent \in BOOLEAN
    BY Zenon DEF Init
  <2>2. [div \in Divs |-> <<>>] \in [Divs -> Seq(Cards)]
    OBVIOUS
  <2>3. session = NoSession /\ timers \in Seq(Timer)
    BY DEF Init
  <2> QED
    BY <2>1, <2>2, <2>3, Zenon DEF Init, Shapes
<1>2. OneOut
  <2>1. Out([method |-> "load", token |-> NoSession])
    BY DEF Init, Out, Methods
  <2> QED
    BY <2>1 DEF Init, OneOut
<1>3. Table
  BY DEF Init, Table, Blank
<1> QED
  BY <1>1, <1>2, <1>3 DEF IInv

\* A click takes the buttons away and sends the one request.
LEMMA ClickKeeps ==
  ASSUME IInv, NEW method \in Methods, Click(method)
  PROVE  IInv'
<1> DEFINE q == [method |-> method, token |-> session]
<1>1. Shapes /\ OneOut /\ Table
  BY DEF IInv
<1>2. /\ session' = session /\ timers' = timers /\ allDisabled'
      /\ rushed' = (rushed \/ timers # <<>>) /\ silent' = silent
      /\ shown' = IF method = "deal" THEN [div \in Divs |-> <<>>] ELSE shown
      /\ inflight' = IF session = NoSession THEN inflight ELSE inflight \cup {q}
      /\ ~allDisabled
      /\ session # NoSession /\ method \in {"hit", "double"} =>
           session.player < MaxCards
  BY FlagDisables DEF Click, ClearHands, MakeRequest
<1>3. allDisabled' \in BOOLEAN /\ rushed' \in BOOLEAN
  BY <1>2, Zenon DEF Click, MakeRequest
<1>4. method # "load"
  BY DEF Methods
<1>5. shown' \in [Divs -> Seq(Cards)]
  BY <1>1, <1>2 DEF Shapes
<1>6. Shapes'
  BY <1>1, <1>2, <1>3, <1>5 DEF Shapes
<1>7. ASSUME session = NoSession
      PROVE  /\ OneOut'
             /\ \A r \in inflight' : r.method = "load"
  <2>1. inflight' = inflight
    BY <1>2, <1>7
  <2>2. ASSUME NEW r, inflight = {r}, Out(r)
        PROVE  Out(r)' /\ r.method = "load"
    BY <1>2, <1>7, <2>2 DEF Out
  <2> QED
    BY <1>1, <2>1, <2>2 DEF OneOut
<1>8. ASSUME session # NoSession
      PROVE  OneOut' /\ inflight = {} /\ inflight' = {q}
  <2>1. inflight = {}
    <3>1. ASSUME NEW r, inflight = {r}, Out(r)
          PROVE  FALSE
      BY <1>2, <1>8, <3>1 DEF Out
    <3> QED
      BY <1>1, <3>1 DEF OneOut
  <2>2. inflight' = {q}
    BY <1>2, <1>8, <2>1
  <2>3. PICK r : r = q
    OBVIOUS
  <2>4. Out(r)'
    BY <1>2, <1>4, <1>8, <2>3 DEF Out
  <2>5. inflight' = {r}
    BY <2>2, <2>3
  <2> HIDE DEF q
  <2> QED
    BY <2>1, <2>2, <2>4, <2>5 DEF OneOut
<1>9. method = "deal" => Blank'
  BY <1>2 DEF Blank
<1>10. method # "deal" => (Blank => Blank') /\ (Drawing => Drawing')
  BY <1>2, TableUntouched
<1>11. ASSUME ~rushed'
       PROVE  ~rushed /\ timers = <<>>
  BY <1>2, <1>11, Zenon
<1>12. Table'
  <2>1. CASE session = NoSession
    <3>1. Blank /\ timers = <<>>
      BY <1>1, <2>1 DEF Table
    <3> QED
      BY <1>2, <1>7, <1>9, <1>10, <2>1, <3>1 DEF Table
  <2>2. CASE session # NoSession
    <3>1. \A r \in inflight' : r.method = "deal" => Blank'
      BY <1>8, <1>9, <2>2
    <3>2. ASSUME ~rushed'
          PROVE  (Blank' /\ timers' = <<>>) \/ Drawing'
      <4>1. (Blank /\ timers = <<>>) \/ Drawing
        BY <1>1, <1>11, <2>2, <3>2 DEF Table
      <4> QED
        BY <1>2, <1>9, <1>10, <1>11, <3>2, <4>1
    <3> QED
      BY <1>2, <1>11, <2>2, <3>1, <3>2 DEF Table
  <2> QED
    BY <2>1, <2>2
<1> QED
  BY <1>1, <1>6, <1>7, <1>8, <1>12 DEF IInv

\* updateSession() on a table whose divs are ready, whenever nobody pressed a
\* button while cards were being drawn.
LEMMA UpdateKeeps ==
  ASSUME IInv, NEW s \in Sessions, UpdateSession(s), inflight' = {},
         rushed' = rushed, silent' = silent,
         ~rushed => /\ timers = <<>>
                    /\ \A div \in Divs : Ready(shown[div], HandData(s, div))
  PROVE  IInv'
<1>1. Shapes
  BY DEF IInv
<1>2. session' = s /\ DrawHands(s) /\ allDisabled' = FALSE
  BY DEF UpdateSession
<1>3. shown' \in [Divs -> Seq(Cards)] /\ timers' \in Seq(Timer)
  BY <1>1, <1>2, DrawsTyped
<1>4. Shapes'
  BY <1>1, <1>2, <1>3 DEF Shapes
<1>5. OneOut'
  BY DEF OneOut
<1>6. session' # NoSession
  BY <1>2, SessionsKnown
<1>7. ~rushed' => Drawing'
  BY <1>1, <1>2, DrawsOnWay
<1>8. Table'
  BY <1>6, <1>7 DEF Table
<1> QED
  BY <1>4, <1>5, <1>8 DEF IInv

\* The first answer brings the empty hands of an idle session.
LEMMA LoadedKeeps ==
  ASSUME IInv, NEW r \in inflight, Loaded(r)
  PROVE  IInv'
<1>1. OneOut /\ Table
  BY DEF IInv
<1>2. inflight = {r} /\ Out(r) /\ inflight \ {r} = {}
  BY <1>1, OnlyOne
<1>3. r.method = "load" /\ inflight' = inflight \ {r} /\ UpdateSession(Idle)
      /\ rushed' = rushed /\ silent' = silent
  BY DEF Loaded
<1>4. session = NoSession
  BY <1>2, <1>3 DEF Out
<1>5. timers = <<>> /\ \A div \in Divs : shown[div] = <<>>
  BY <1>1, <1>4 DEF Table, Blank
<1>6. \A div \in Divs : Ready(shown[div], HandData(Idle, div))
  BY <1>5 DEF Ready
<1> QED
  BY <1>2, <1>3, <1>5, <1>6, SessionsKnown, UpdateKeeps

\* An answer moves on from the session that its request carried.
LEMMA AnsweredKeeps ==
  ASSUME IInv, NEW r \in inflight, Answered(r)
  PROVE  IInv'
<1>1. Shapes /\ OneOut /\ Table
  BY DEF IInv
<1>2. inflight = {r} /\ Out(r) /\ inflight \ {r} = {}
  BY <1>1, OnlyOne
<1>3. /\ r.method # "load" /\ inflight' = inflight \ {r}
      /\ rushed' = rushed /\ silent' = silent
      /\ \E s \in Answers(r.method, r.token) : UpdateSession(s)
  BY DEF Answered
<1>4. /\ r.method \in Methods /\ r.token = session /\ session # NoSession
      /\ session \in Sessions
      /\ r.method \in {"hit", "double"} => session.player < MaxCards
  BY <1>1, <1>2, <1>3 DEF Out, Shapes
<1>5. PICK s \in Answers(r.method, session) : UpdateSession(s)
  BY <1>3, <1>4
<1>6. Follows(r.method, session, s)
  BY <1>4, AnswersFollow
<1>7. s \in Sessions
  BY <1>6 DEF Follows
<1>8. ASSUME ~rushed
      PROVE  /\ timers = <<>>
             /\ \A div \in Divs : Ready(shown[div], HandData(s, div))
  <2>1. timers = <<>> /\ (r.method = "deal" => Blank) /\ (Blank \/ Drawing)
    BY <1>1, <1>2, <1>4, <1>8 DEF Table
  <2>2. CASE Blank
    BY <2>1, <2>2 DEF Ready, Blank
  <2>3. CASE r.method # "deal" /\ Drawing
    <3>1. \A div \in Divs : shown[div] = HandData(session, div)
      BY <2>1, <2>3 DEF Drawing
    <3>2. \A div \in Divs : Ready(HandData(session, div), HandData(s, div))
      BY <1>4, <1>6, <2>3, AnswersFindReady
    <3> QED
      BY <2>1, <3>1, <3>2
  <2> QED
    BY <2>1, <2>2, <2>3
<1> QED
  BY <1>2, <1>3, <1>5, <1>7, <1>8, UpdateKeeps

\* A request that fails or hangs leaves the session and the table as they are.
LEMMA FailingKeeps ==
  ASSUME IInv, NEW r \in inflight, LoadFailed(r) \/ Failed(r) \/ Hangs(r)
  PROVE  IInv'
<1>1. Shapes /\ OneOut /\ Table
  BY DEF IInv
<1>2. inflight \ {r} = {} /\ inflight # {}
  BY <1>1, OnlyOne
<1>3. /\ inflight' = {} /\ session' = session /\ shown' = shown
      /\ timers' = timers /\ rushed' = rushed
  BY <1>2 DEF LoadFailed, Failed, Hangs
<1>4. allDisabled' \in BOOLEAN /\ silent' \in BOOLEAN
  <2>1. allDisabled \in BOOLEAN /\ silent \in BOOLEAN
    BY <1>1 DEF Shapes
  <2>2. CASE LoadFailed(r)
    BY <2>1, <2>2 DEF LoadFailed
  <2>3. CASE Failed(r)
    <3>1. PICK status \in {"error", "parsererror"} :
            /\ allDisabled' = (allDisabled /\ status # "error")
            /\ silent' = (silent \/ status # "error")
      BY <2>3 DEF Failed
    <3> QED
      BY <2>1, <3>1, Zenon
  <2>4. CASE Hangs(r)
    BY <2>1, <2>4 DEF Hangs
  <2> QED
    BY <2>2, <2>3, <2>4
<1>5. Shapes'
  BY <1>1, <1>3, <1>4 DEF Shapes
<1>6. OneOut'
  BY <1>3 DEF OneOut
<1>7. (Blank => Blank') /\ (Drawing => Drawing')
  BY <1>3, TableUntouched
<1>8. Table'
  BY <1>1, <1>3, <1>7 DEF Table
<1> QED
  BY <1>5, <1>6, <1>8 DEF IInv

\* A timer draws one more card of its hand, and sets the next one.
LEMMA TimerKeeps ==
  ASSUME IInv, TimerFires
  PROVE  IInv'
<1> DEFINE t == Head(timers)
           n == Len(timers)
           d == AfterPop(shown[t.div], t.rest)
           new == [div |-> t.div, rest |-> Tail(t.rest)]
<1>1. Shapes /\ OneOut /\ Table
  BY DEF IInv
<1>2. /\ timers # <<>>
      /\ shown' = [shown EXCEPT ![t.div] = d]
      /\ timers' = Tail(timers) \o TimerLeft(t.div, t.rest)
      /\ session' = session /\ inflight' = inflight /\ rushed' = rushed
      /\ allDisabled' = allDisabled /\ silent' = silent
  BY DEF TimerFires
<1>3. timers \in Seq(Timer) /\ n \in Nat /\ n >= 1 /\ t = timers[1]
      /\ \A i \in 1 .. n : timers[i] \in Timer
  BY <1>1, <1>2 DEF Shapes
<1>4. t.div \in Divs /\ t.rest \in Seq(Anim) /\ shown[t.div] \in Seq(Cards)
  <2>1. t \in Timer
    BY <1>3
  <2> QED
    BY <1>1, <2>1 DEF Timer, Shapes
<1>5. d \in Seq(Cards) /\ (t.rest # <<>> => Tail(t.rest) \in Seq(Anim))
      /\ (t.rest = <<>> => d = shown[t.div])
  BY <1>4, NextCard DEF AfterPop
<1>6. TimerLeft(t.div, t.rest) \in Seq(Timer)
  BY <1>4, <1>5, LeftType
<1>7. Shapes'
  <2>1. Tail(timers) \in Seq(Timer)
    BY <1>2, <1>3
  <2>2. timers' \in Seq(Timer)
    BY <1>2, <1>6, <2>1
  <2>3. shown' \in [Divs -> Seq(Cards)]
    BY <1>1, <1>2, <1>5 DEF Shapes
  <2> QED
    BY <1>1, <1>2, <2>2, <2>3 DEF Shapes
<1>8. OneOut'
  BY <1>1, <1>2 DEF OneOut, Out
<1>9. session # NoSession
  BY <1>1, <1>2 DEF Table
<1>10. ~rushed => inflight = {} /\ Drawing
  BY <1>1, <1>2, <1>9 DEF Table
<1>11. /\ t.rest = <<>> => /\ Len(timers') = n - 1
                           /\ \A i \in 1 .. n - 1 : timers'[i] = timers[i + 1]
       /\ t.rest # <<>> => /\ Len(timers') = n
                           /\ \A i \in 1 .. n - 1 : timers'[i] = timers[i + 1]
                           /\ timers'[n] = new
  <2>1. /\ Tail(timers) \in Seq(Timer) /\ Len(Tail(timers)) = n - 1
        /\ \A i \in 1 .. n - 1 : Tail(timers)[i] = timers[i + 1]
    BY <1>2, <1>3
  <2>2. CASE t.rest = <<>>
    <3>1. timers' = Tail(timers) \o <<>>
      BY <1>2, <2>2 DEF TimerLeft
    <3> HIDE DEF n
    <3>2. timers' = Tail(timers)
      BY <2>1, <3>1
    <3> QED
      BY <2>1, <2>2, <3>2
  <2>3. CASE t.rest # <<>>
    <3>1. timers' = Tail(timers) \o <<new>>
      BY <1>2, <2>3 DEF TimerLeft
    <3>2. new \in Timer
      BY <1>4, <1>5, <2>3 DEF Timer
    <3> HIDE DEF n, new, t
    <3> QED
      BY <1>3, <2>1, <2>3, <3>1, <3>2
  <2> QED
    BY <2>2, <2>3
<1>12. ASSUME Drawing
       PROVE  Drawing'
  <2> DEFINE H(div) == HandData(session, div)
  <2>1. /\ \A i, j \in 1 .. n : timers[i].div = timers[j].div => i = j
        /\ \A i \in 1 .. n : OnWay(shown[timers[i].div], timers[i].rest,
                                   H(timers[i].div))
        /\ \A div \in Divs : \/ \E i \in 1 .. n : timers[i].div = div
                             \/ shown[div] = H(div)
    BY <1>12 DEF Drawing
  <2>2. \A div : HandData(session', div) = H(div)
    BY <1>2
  <2>3. \A div \in Divs : H(div) \in Seq(Cards)
    BY <1>1, <1>9, HandsAreCards DEF Shapes
  <2>4. shown'[t.div] = d
        /\ \A div \in Divs : div # t.div => shown'[div] = shown[div]
    BY <1>1, <1>2, <1>4 DEF Shapes
  <2>5. OnWay(shown[t.div], t.rest, H(t.div))
    BY <1>3, <2>1
  <2>6. \A i \in 2 .. n : timers[i].div # t.div /\ timers[i].div \in Divs
    BY <1>3, <2>1 DEF Timer
  <2>7. t.rest = <<>> => d = H(t.div)
    BY <1>4, <1>5, <2>3, <2>5, Complete
  <2>8. t.rest # <<>> => OnWay(d, Tail(t.rest), H(t.div))
    BY <1>4, <2>3, <2>5, NextCard
  <2>9. new.div = t.div /\ new.rest = Tail(t.rest)
    OBVIOUS
  <2> HIDE DEF H, d, new, t, n
  <2>10. CASE t.rest = <<>>
    <3>1. Len(timers') = n - 1
          /\ \A i \in 1 .. n - 1 :
               i + 1 \in 2 .. n /\ timers'[i] = timers[i + 1]
      BY <1>3, <1>11, <2>10
    <3>2. ASSUME NEW i \in 1 .. Len(timers'), NEW j \in 1 .. Len(timers'),
                 timers'[i].div = timers'[j].div
          PROVE  i = j
      <4>1. /\ i + 1 \in 1 .. n /\ timers'[i] = timers[i + 1]
            /\ j + 1 \in 1 .. n /\ timers'[j] = timers[j + 1]
        BY <1>3, <3>1
      <4>2. i + 1 = j + 1
        BY <2>1, <3>2, <4>1, Zenon
      <4> QED
        BY <4>2
    <3>3. ASSUME NEW i \in 1 .. Len(timers')
          PROVE  OnWay(shown'[timers'[i].div], timers'[i].rest,
                       H(timers'[i].div))
      <4>1. i + 1 \in 2 .. n /\ i + 1 \in 1 .. n /\ timers'[i] = timers[i + 1]
        BY <1>3, <3>1
      <4>2. shown'[timers[i + 1].div] = shown[timers[i + 1].div]
        BY <2>4, <2>6, <4>1
      <4>3. OnWay(shown[timers[i + 1].div], timers[i + 1].rest,
                  H(timers[i + 1].div))
        BY <2>1, <4>1
      <4> QED
        BY <4>1, <4>2, <4>3, Zenon
    <3>4. ASSUME NEW div \in Divs
          PROVE  \/ \E i \in 1 .. Len(timers') : timers'[i].div = div
                 \/ shown'[div] = H(div)
      <4>1. CASE div = t.div
        BY <2>4, <2>7, <2>10, <4>1
      <4>2. CASE div # t.div
        <5>1. CASE \E i \in 1 .. n : timers[i].div = div
          <6>1. PICK i \in 1 .. n : timers[i].div = div
            BY <5>1
          <6>2. i - 1 \in 1 .. n - 1 /\ timers'[i - 1] = timers[(i - 1) + 1]
                /\ (i - 1) + 1 = i
            BY <1>3, <3>1, <4>2, <6>1
          <6> QED
            BY <3>1, <6>1, <6>2
        <5>2. CASE shown[div] = H(div)
          BY <2>4, <4>2, <5>2
        <5> QED
          BY <2>1, <5>1, <5>2
      <4> QED
        BY <4>1, <4>2
    <3> QED
      BY <2>2, <3>2, <3>3, <3>4 DEF Drawing
  <2>11. CASE t.rest # <<>>
    <3>1. Len(timers') = n /\ timers'[n] = new
          /\ \A i \in 1 .. n - 1 :
               i + 1 \in 2 .. n /\ timers'[i] = timers[i + 1]
      BY <1>3, <1>11, <2>11
    <3>2. ASSUME NEW i \in 1 .. n, NEW j \in 1 .. n,
                 timers'[i].div = timers'[j].div
          PROVE  i = j
      <4>1. i = n \/ i \in 1 .. n - 1
        BY <1>3
      <4>2. j = n \/ j \in 1 .. n - 1
        BY <1>3
      <4> QED
        BY <1>3, <2>1, <2>6, <2>9, <3>1, <3>2, <4>1, <4>2
    <3>3. ASSUME NEW i \in 1 .. n
          PROVE  OnWay(shown'[timers'[i].div], timers'[i].rest,
                       H(timers'[i].div))
      <4>1. CASE i = n
        BY <2>4, <2>8, <2>9, <2>11, <3>1, <4>1
      <4>2. CASE i # n
        <5>1. /\ i + 1 \in 2 .. n /\ i + 1 \in 1 .. n
              /\ timers'[i] = timers[i + 1]
          BY <1>3, <3>1, <4>2
        <5>2. shown'[timers[i + 1].div] = shown[timers[i + 1].div]
          BY <2>4, <2>6, <5>1
        <5>3. OnWay(shown[timers[i + 1].div], timers[i + 1].rest,
                    H(timers[i + 1].div))
          BY <2>1, <5>1
        <5> QED
          BY <5>1, <5>2, <5>3, Zenon
      <4> QED
        BY <4>1, <4>2
    <3>4. ASSUME NEW div \in Divs
          PROVE  \/ \E i \in 1 .. n : timers'[i].div = div
                 \/ shown'[div] = H(div)
      <4>1. CASE div = t.div
        BY <1>3, <2>9, <3>1, <4>1
      <4>2. CASE div # t.div
        <5>1. CASE \E i \in 1 .. n : timers[i].div = div
          <6>1. PICK i \in 1 .. n : timers[i].div = div
            BY <5>1
          <6>2. i # 1
            BY <1>3, <4>2, <6>1
          <6>3. i - 1 \in 1 .. n - 1 /\ i - 1 \in 1 .. n /\ (i - 1) + 1 = i
            BY <1>3, <6>2
          <6>4. timers'[i - 1] = timers[i]
            BY <3>1, <6>3
          <6> QED
            BY <6>1, <6>3, <6>4
        <5>2. CASE shown[div] = H(div)
          BY <2>4, <4>2, <5>2
        <5> QED
          BY <2>1, <5>1, <5>2
      <4> QED
        BY <4>1, <4>2
    <3> QED
      BY <2>2, <3>1, <3>2, <3>3, <3>4 DEF Drawing
  <2> QED
    BY <2>10, <2>11
<1>13. Table'
  BY <1>2, <1>9, <1>10, <1>12 DEF Table
<1> QED
  BY <1>7, <1>8, <1>13 DEF IInv

LEMMA NextIInv == IInv /\ [Next]_vars => IInv'
<1> SUFFICES ASSUME IInv, [Next]_vars PROVE IInv'
  OBVIOUS
<1>1. CASE \E method \in Methods : Click(method)
  BY <1>1, ClickKeeps
<1>2. ASSUME NEW r \in inflight, Ends(r)
      PROVE  IInv'
  BY <1>2, LoadedKeeps, AnsweredKeeps, FailingKeeps DEF Ends
<1>3. CASE TimerFires
  BY <1>3, TimerKeeps
<1>4. CASE UNCHANGED vars
  <2>1. /\ session' = session /\ allDisabled' = allDisabled
        /\ inflight' = inflight /\ shown' = shown /\ timers' = timers
        /\ rushed' = rushed /\ silent' = silent
    BY <1>4 DEF vars
  <2>2. (Blank <=> Blank') /\ (Drawing <=> Drawing')
    BY <2>1 DEF Blank, Drawing, HandData
  <2>3. Shapes /\ OneOut /\ Table
    BY DEF IInv
  <2>4. Shapes'
    BY <2>1, <2>3 DEF Shapes
  <2>5. OneOut'
    BY <2>1, <2>3 DEF OneOut, Out
  <2>6. Table'
    BY <2>1, <2>2, <2>3 DEF Table
  <2> QED
    BY <2>4, <2>5, <2>6 DEF IInv
<1> QED
  BY <1>1, <1>2, <1>3, <1>4 DEF Next

\* The page always keeps to the invariant.
THEOREM TableInvariant == Spec => []IInv
<1> QED
  BY InitIInv, NextIInv, PTL DEF Spec

-----------------------------------------------------------------------------
(* The theorems *)

\* The variables keep their types.
THEOREM TypesKept == Spec => []TypeOK
<1>1. IInv => TypeOK
  <2> SUFFICES ASSUME IInv PROVE TypeOK
    OBVIOUS
  <2>1. Shapes /\ OneOut
    BY DEF IInv
  <2>2. \A r \in inflight : /\ r.method \in Methods \cup {"load"}
                            /\ r.token \in Sessions \cup {NoSession}
    BY <2>1 DEF Shapes, OneOut, Out
  <2>3. \A div \in Divs : Range(shown[div]) \subseteq Cards
    <3>1. \A div \in Divs : shown[div] \in Seq(Cards)
      BY <2>1 DEF Shapes
    <3> QED
      BY <3>1 DEF Range
  <2>4. \A i \in DOMAIN timers : timers[i].div \in Divs
    <3>1. \A i \in DOMAIN timers : timers[i] \in Timer
      BY <2>1 DEF Shapes
    <3> QED
      BY <3>1 DEF Timer
  <2> QED
    BY <2>1, <2>2, <2>3, <2>4 DEF TypeOK, Shapes
<1> QED
  BY <1>1, TableInvariant, PTL

\* Two clicks never race each other, whatever is answered, refused or lost.
THEOREM MovesInTurn == Spec => []OneMoveAtATime
<1>1. IInv => OneMoveAtATime
  <2> SUFFICES ASSUME IInv PROVE OneMoveAtATime
    OBVIOUS
  <2>1. OneOut
    BY DEF IInv
  <2>2. Cardinality(inflight) <= 1
    <3>1. inflight = {} \/ \E r : inflight = {r}
      BY <2>1 DEF OneOut
    <3>2. \A r : Cardinality({r}) = 1
      BY FS_Singleton
    <3>3. Cardinality({}) = 0
      BY FS_EmptySet
    <3>4. Cardinality(inflight) = 0 \/ Cardinality(inflight) = 1
      BY <3>1, <3>2, <3>3, Zenon
    <3> QED
      BY <3>4
  <2>3. \A r \in inflight :
          r.token = session /\ (r.method # "load" => allDisabled)
    BY <2>1 DEF OneOut, Out
  <2> QED
    BY <2>2, <2>3, FlagDisables DEF OneMoveAtATime
<1> QED
  BY <1>1, TableInvariant, PTL

\* A visitor who waits for the cards sees the hands of the session in the end,
\* whatever the order in which the two hands' timers and the answers come.
THEOREM TableIsRight == Spec => []TableShowsHands
<1>1. IInv => TableShowsHands
  <2> SUFFICES ASSUME IInv, ~rushed, timers = <<>>, session # NoSession
               PROVE  \/ \A div \in Divs : shown[div] = <<>>
                      \/ \A div \in Divs : shown[div] = HandData(session, div)
    BY DEF TableShowsHands
  <2>1. Blank \/ Drawing
    BY DEF IInv, Table
  <2>2. Len(timers) = 0
    OBVIOUS
  <2> QED
    BY <2>1, <2>2 DEF Blank, Drawing
<1> QED
  BY <1>1, TableInvariant, PTL

\* No step leaves the buttons disabled with nothing to wait for.
LEMMA NextWaits == IInv /\ Waits /\ [Next]_vars => Waits'
<1> SUFFICES ASSUME IInv, Waits, [Next]_vars PROVE Waits'
  OBVIOUS
<1>1. ASSUME NEW method \in Methods, Click(method)
      PROVE  Waits'
  <2>1. /\ session' = session
        /\ session # NoSession =>
             inflight' = inflight \cup {[method |-> method, token |-> session]}
    BY <1>1 DEF Click, MakeRequest
  <2> QED
    BY <2>1 DEF Waits
<1>2. ASSUME NEW r \in inflight, Ends(r)
      PROVE  Waits'
  <2>1. CASE Loaded(r)
    BY <2>1 DEF Loaded, UpdateSession, Waits
  <2>2. CASE LoadFailed(r)
    <3>1. session = NoSession
      BY <2>2, OnlyOne DEF LoadFailed, IInv, Out
    <3> QED
      BY <2>2, <3>1 DEF LoadFailed, Waits
  <2>3. CASE Answered(r)
    BY <2>3 DEF Answered, UpdateSession, Waits
  <2>4. CASE Failed(r)
    <3>1. PICK status \in {"error", "parsererror"} :
            /\ allDisabled' = (allDisabled /\ status # "error")
            /\ silent' = (silent \/ status # "error")
      BY <2>4 DEF Failed
    <3>2. CASE status = "error"
      BY <3>1, <3>2, Zenon DEF Waits
    <3>3. CASE status # "error"
      BY <3>1, <3>3, Zenon DEF Waits
    <3> QED
      BY <3>2, <3>3
  <2>5. CASE Hangs(r)
    BY <2>5 DEF Hangs, Waits
  <2> QED
    BY <1>2, <2>1, <2>2, <2>3, <2>4, <2>5 DEF Ends
<1>3. CASE TimerFires
  BY <1>3 DEF TimerFires, Waits
<1>4. CASE UNCHANGED vars
  BY <1>4 DEF vars, Waits
<1> QED
  BY <1>1, <1>2, <1>3, <1>4 DEF Next

\* However the requests before ended, as long as the visitor was told, the game
\* can go on: with no request out, some button that sends one is enabled.
THEOREM GameGoesOn == Spec => []PlayCanGoOn
<1>1. Init => Waits
  BY DEF Init, Waits
<1>2. IInv /\ Waits => PlayCanGoOn
  <2> SUFFICES ASSUME IInv, Waits, inflight = {}, session # NoSession, ~silent
               PROVE  \E method \in Methods : Enabled(method)
    BY DEF PlayCanGoOn
  <2>1. ~allDisabled
    BY DEF Waits
  <2>2. session \in Sessions
    BY DEF IInv, Shapes
  <2>3. CASE session.state = "Playing"
    <3>1. Enabled("hit")
      BY <2>1, <2>3 DEF Enabled
    <3> QED
      BY <3>1 DEF Methods
  <2>4. CASE session.state # "Playing"
    <3>1. Enabled("deal")
      BY <2>1, <2>4 DEF Enabled
    <3> QED
      BY <3>1 DEF Methods
  <2> QED
    BY <2>3, <2>4
<1> QED
  BY <1>1, <1>2, InitIInv, NextIInv, NextWaits, PTL DEF Spec
=============================================================================
